--------------------------- MODULE VpcController ---------------------------
(***************************************************************************)
(* The reconcile loop of the Vpc controller (internal/controllers/vpc):    *)
(* the workers that run Initialize, Update, FinalUpdate, Timeout, Delete   *)
(* and FinalDelete of `application', the watch on Srl3Device resources     *)
(* (EnqueueRequestForAllNddpSrlDevices) and the state they share: the maps *)
(* intents and abstractions, the speedy handler and the work queue.        *)
(*                                                                         *)
(* A step is one call on the API server, one critical section of the       *)
(* speedy handler or one access to the shared maps: between two steps any  *)
(* other worker, the watch, a user or the registry may run.                *)
(*                                                                         *)
(* External code (the API server, the work queue of controller-runtime,    *)
(* the managed reconciler of nddo-runtime, the ni registry) is modelled    *)
(* from how this repository uses it.  The value of cr is what the          *)
(* informer cache of the manager's client holds.                           *)
(***************************************************************************)
EXTENDS SpeedyHandler, FiniteSets

CONSTANTS
  Workers,          \* the reconcile workers (--concurrency of start.go)
  BridgeDomains,    \* network instances of kind bridged
  RoutingTables,    \* network instances of kind routed
  Nodes,            \* the topology nodes that may exist
  SrlNodes,         \* those of kind "srl", the only kind populateSchema handles
  Selects,          \* Selects[ni]: nodes where ni has an interface once populated
  NoVpc,            \* the key of an idle worker
  Nil,              \* the value of a missing key of the intents map
  MaxEnv,           \* bound: changes made by users, topology and devices
  MaxFaults,        \* bound: failed API calls, lost watch events, restarts
  MaxPasses         \* bound: pending passes of the watch handler (saturates)

Nis == BridgeDomains \cup RoutingTables
Children == [Nodes -> SUBSET Nis]

ASSUME ConstantsAssumption ==
  /\ SrlNodes \subseteq Nodes
  /\ Selects \in [Nis -> SUBSET Nodes]
  /\ NoVpc \notin Vpcs
  /\ Nil \notin Children
  /\ BridgeDomains \cap RoutingTables = {}
  /\ MaxEnv \in Nat /\ MaxFaults \in Nat /\ MaxPasses \in Nat \ {0}

VARIABLES
  \* The API server
  cr,               \* cr[c]: phase, finalizer and spec (a set of nis) of the resource
  topo,             \* the TopologyNodes of the namespace
  registers,        \* registers[c][ni]: "none", "pending" (no index yet) or "ready"
  device,           \* device[c][n]: nis in the Srl3Device that c keeps for n; {} if none
  \* The work queue
  dirty,            \* keys to be processed
  delayed,          \* delayed[c]: seconds of the armed RequeueAfter timer, 0 if none
  \* The application
  intents,          \* intents[c]: nis populated per node, Nil if the key is missing;
                    \* abstractions has the same keys, set and deleted with these
  \* The workers
  pc, key,          \* the next call, and the Vpc being reconciled
  mg,               \* the in-memory copy of the resource (the argument mg)
  nodeInfo,         \* result of gatherNodeInfo
  todo,             \* what is left of the loop that runs
  wait,             \* the duration Timeout returns
  \* The watch
  passes,           \* pending calls of add(), one per object of an event
  notify, current,  \* vpcs left of add()'s loop, and the one between reset and Add
  \* Bounds
  env, faults

apiVars    == <<cr, topo, registers, device>>
queueVars  == <<dirty, delayed>>
workerVars == <<pc, key, mg, nodeInfo, todo, wait>>
watchVars  == <<passes, notify, current>>
bounds     == <<env, faults>>
vars == <<apiVars, queueVars, intents, speedy, workerVars, watchVars, bounds>>

NoMg     == [spec |-> {}, deleting |-> FALSE, gone |-> FALSE]
AbsentCr == [phase |-> "absent", finalizer |-> FALSE, spec |-> {}]
LiveCr(s) == [phase |-> "live", finalizer |-> FALSE, spec |-> s]
NoChildren == [n \in Nodes |-> {}]
Existing == {c \in Vpcs : cr[c].phase # "absent"}
WithChild(children) == {n \in Nodes : children[n] # {}}

\* What populateSchema makes of one network instance, and of a whole spec.
ChildrenOf(ni, nodes) ==
  [n \in Nodes |-> IF n \in nodes \cap SrlNodes \cap Selects[ni] THEN {ni} ELSE {}]

Desired(spec, nodes) ==
  [n \in Nodes |-> {ni \in spec : n \in nodes \cap SrlNodes \cap Selects[ni]}]

\* The loops visit all bridge domains before the routing tables, each kind in
\* the random order of a Go map.
NextOf(S) == IF S \cap BridgeDomains # {} THEN S \cap BridgeDomains ELSE S

-----------------------------------------------------------------------------
(* Events: a change of an Srl3Device runs add() once for a creation or a    *)
(* deletion and twice for an update; saving what was stored raises no event.*)

\* Mutant of Calls: a save of an unchanged resource raises an event too.
CallsOnEverySave(old, new) == IF old # {} /\ new # {} THEN 2
                              ELSE IF old # {} \/ new # {} THEN 1 ELSE 0

Calls(old, new) == IF old = new THEN 0
                   ELSE IF old # {} /\ new # {} THEN 2 ELSE 1

SaveDevice(c, n, value) ==
  /\ device' = [device EXCEPT ![c][n] = value]
  /\ passes' = LET p == passes + Calls(device[c][n], value)
               IN  IF p > MaxPasses THEN MaxPasses ELSE p

Goto(w, l) == pc' = [pc EXCEPT ![w] = l]

\* The worker goes on at l, with S to loop over.
Step(w, l, S) ==
  /\ Goto(w, l)
  /\ todo' = [todo EXCEPT ![w] = S]
  /\ UNCHANGED <<key, mg, nodeInfo, wait>>

\* The end of a reconcile (work queue Done): the copy of the resource is dropped.
Release(w) ==
  /\ Goto(w, "idle")
  /\ key' = [key EXCEPT ![w] = NoVpc]
  /\ mg' = [mg EXCEPT ![w] = NoMg]
  /\ nodeInfo' = [nodeInfo EXCEPT ![w] = {}]
  /\ todo' = [todo EXCEPT ![w] = {}]
  /\ wait' = [wait EXCEPT ![w] = 0]

-----------------------------------------------------------------------------
(* The managed reconciler and the work queue around the callbacks          *)

\* Work queue Get: a key handed out is not handed out again before Done.
Dequeue(w) ==
  /\ pc[w] = "idle"
  /\ \E c \in dirty :
       /\ \A v \in Workers : key[v] # c
       /\ dirty' = dirty \ {c}
       /\ key' = [key EXCEPT ![w] = c]
  /\ Goto(w, "get")
  /\ UNCHANGED <<apiVars, delayed, intents, speedy, mg, nodeInfo, todo, wait,
                 watchVars, bounds>>

GetAbsent(w) ==
  /\ pc[w] = "get" /\ cr[key[w]].phase = "absent"
  /\ Release(w)
  /\ UNCHANGED <<apiVars, queueVars, intents, speedy, watchVars, bounds>>

\* Mutant of GetManaged: the finalizer is not added.
GetManagedNoFinalizer(w) ==
  LET c == key[w] IN
  /\ pc[w] = "get" /\ cr[c].phase # "absent"
  /\ mg' = [mg EXCEPT ![w] = [spec |-> cr[c].spec, gone |-> FALSE,
                              deleting |-> cr[c].phase = "deleting"]]
  /\ Goto(w, "start")
  /\ UNCHANGED <<apiVars, queueVars, intents, speedy, key, nodeInfo, todo, wait,
                 watchVars, bounds>>

\* A live resource gets its finalizer before Update, so that it cannot
\* disappear while it is reconciled; a deleted one goes to Delete.
GetManaged(w) ==
  LET c == key[w] IN
  /\ pc[w] = "get" /\ cr[c].phase # "absent"
  /\ mg' = [mg EXCEPT ![w] = [spec |-> cr[c].spec, gone |-> FALSE,
                              deleting |-> cr[c].phase = "deleting"]]
  /\ cr' = [cr EXCEPT ![c].finalizer = TRUE]
  /\ Goto(w, "start")
  /\ UNCHANGED <<topo, registers, device, queueVars, intents, speedy, key,
                 nodeInfo, todo, wait, watchVars, bounds>>

\* Mutant of Done: no RequeueAfter, only events bring a vpc back.
DoneNoRequeue(w) ==
  /\ pc[w] = "done"
  /\ Release(w)
  /\ UNCHANGED <<apiVars, queueVars, intents, speedy, watchVars, bounds>>

\* RequeueAfter: the work queue keeps the earliest timer of a key.
Done(w) ==
  LET c == key[w] IN
  /\ pc[w] = "done"
  /\ delayed' = [delayed EXCEPT ![c] = IF @ = 0 \/ wait[w] < @ THEN wait[w] ELSE @]
  /\ Release(w)
  /\ UNCHANGED <<apiVars, dirty, intents, speedy, watchVars, bounds>>

FireTimer(c) ==
  /\ delayed[c] # 0
  /\ delayed' = [delayed EXCEPT ![c] = 0]
  /\ dirty' = dirty \cup {c}
  /\ UNCHANGED <<apiVars, intents, speedy, workerVars, watchVars, bounds>>

\* Mutant of FailTo: an error ends the reconcile without a requeue.
FailSilently(w, l) ==
  /\ l = "done" /\ Release(w)
  /\ UNCHANGED <<apiVars, queueVars, intents, speedy, watchVars>>

\* A reconcile that ends in an error is always requeued: at once with the
\* queue's back-off (5 stands for it), or after the wait Timeout returns, with
\* or without the FinalUpdate callback before it.
FailTo(w, l) ==
  /\ Goto(w, l)
  /\ wait' = [wait EXCEPT ![w] = IF l = "done" THEN 5 ELSE 0]
  /\ todo' = [todo EXCEPT ![w] = {}]
  /\ UNCHANGED <<apiVars, queueVars, intents, speedy, key, mg, nodeInfo, watchVars>>

ApiCalls == {"get", "strategy", "create", "collect", "populate", "remove",
             "deploy", "unfinalize"}

ApiError(w) ==
  /\ pc[w] \in ApiCalls
  /\ faults < MaxFaults
  /\ faults' = faults + 1
  /\ \E l \in IF pc[w] = "get" THEN {"done"} ELSE {"final", "timeout", "done"} :
       FailTo(w, l)
  /\ UNCHANGED env

-----------------------------------------------------------------------------
(* populateSchema, run by Update and by Delete                              *)

\* Update (after Initialize) and Delete both begin with speedyHandler.Init.
StartCallback(w) ==
  /\ pc[w] = "start"
  /\ InitSpeedy(key[w])
  /\ Step(w, "reset", {})
  /\ UNCHANGED <<apiVars, queueVars, intents, watchVars, bounds>>

\* Mutant of ResetMaps: an intent left in the map is used again.
ReuseMaps(w) ==
  /\ pc[w] = "reset"
  /\ intents' = [intents EXCEPT ![key[w]] = IF @ = Nil THEN NoChildren ELSE @]
  /\ Step(w, "strategy", {})
  /\ UNCHANGED <<apiVars, queueVars, speedy, watchVars, bounds>>

\* The intent starts from scratch, whatever an earlier reconcile left behind.
ResetMaps(w) ==
  /\ pc[w] = "reset"
  /\ intents' = [intents EXCEPT ![key[w]] = NoChildren]
  /\ Step(w, "strategy", {})
  /\ UNCHANGED <<apiVars, queueVars, speedy, watchVars, bounds>>

GetAllocationStrategy(w) ==
  /\ pc[w] = "strategy"
  /\ Step(w, "create", mg[w].spec)
  /\ UNCHANGED <<apiVars, queueVars, intents, speedy, watchVars, bounds>>

\* Apply of a register that exists leaves its status alone.
CreateNiRegister(w) ==
  LET c == key[w] IN
  /\ pc[w] = "create"
  /\ \E ni \in NextOf(todo[w]) :
       /\ registers' = [registers EXCEPT ![c][ni] = IF @ = "none" THEN "pending" ELSE @]
       /\ Step(w, "create", todo[w] \ {ni})
  /\ UNCHANGED <<cr, topo, device, queueVars, intents, speedy, watchVars, bounds>>

CreateDone(w) ==
  /\ pc[w] = "create" /\ todo[w] = {}
  /\ Step(w, "collect", mg[w].spec)
  /\ UNCHANGED <<apiVars, queueVars, intents, speedy, watchVars, bounds>>

GetNiRegister(w) ==
  /\ pc[w] = "collect"
  /\ \E ni \in NextOf(todo[w]) :
       /\ registers[key[w]][ni] = "ready"
       /\ Step(w, "collect", todo[w] \ {ni})
  /\ UNCHANGED <<apiVars, queueVars, intents, speedy, watchVars, bounds>>

\* One register that is not ready fails the whole reconcile.
NiRegisterUnavailable(w) ==
  /\ pc[w] = "collect"
  /\ \E ni \in NextOf(todo[w]) : registers[key[w]][ni] # "ready"
  /\ \E l \in {"final", "timeout", "done"} : FailTo(w, l)
  /\ UNCHANGED bounds

GatherNodeInfo(w) ==
  /\ pc[w] = "collect" /\ todo[w] = {}
  /\ nodeInfo' = [nodeInfo EXCEPT ![w] = topo]
  /\ Goto(w, "populate") /\ todo' = [todo EXCEPT ![w] = mg[w].spec]
  /\ UNCHANGED <<apiVars, queueVars, intents, speedy, key, mg, wait, watchVars, bounds>>

\* Mutant of PopulateNi: every loop reads the topology again.
PopulateNiFreshNodes(w) ==
  LET c == key[w] IN
  /\ pc[w] = "populate"
  /\ \E ni \in NextOf(todo[w]) :
       /\ intents' = [intents EXCEPT ![c] =
            [n \in Nodes |-> intents[c][n] \cup ChildrenOf(ni, topo)[n]]]
       /\ Step(w, "populate", todo[w] \ {ni})
  /\ UNCHANGED <<apiVars, queueVars, speedy, watchVars, bounds>>

\* One network instance on every srl node where it has interfaces.  That a
\* routing table also appears on the nodes of its bridge domains (the irb loop)
\* is part of Selects.
PopulateNi(w) ==
  LET c == key[w] IN
  /\ pc[w] = "populate"
  /\ \E ni \in NextOf(todo[w]) :
       /\ intents' = [intents EXCEPT ![c] =
            [n \in Nodes |-> intents[c][n] \cup ChildrenOf(ni, nodeInfo[w])[n]]]
       /\ Step(w, "populate", todo[w] \ {ni})
  /\ UNCHANGED <<apiVars, queueVars, speedy, watchVars, bounds>>

Populated(w) == pc[w] = "populate" /\ todo[w] = {}

-----------------------------------------------------------------------------
(* Update after populateSchema                                              *)

\* Mutant of ListAndValidate: nothing is found to be stale.
ListOnly(w) ==
  /\ Populated(w) /\ ~mg[w].deleting
  /\ Step(w, "remove", {})
  /\ UNCHANGED <<apiVars, queueVars, intents, speedy, watchVars, bounds>>

\* List what is in the system, then Validate keeps what the intent dropped.
ListAndValidate(w) ==
  LET c == key[w] IN
  /\ Populated(w) /\ ~mg[w].deleting
  /\ Step(w, "remove", WithChild(device[c]) \ WithChild(intents[c]))
  /\ UNCHANGED <<apiVars, queueVars, intents, speedy, watchVars, bounds>>

RemoveStale(w) ==
  /\ pc[w] = "remove"
  /\ \E n \in todo[w] : SaveDevice(key[w], n, {}) /\ Step(w, "remove", todo[w] \ {n})
  /\ UNCHANGED <<cr, topo, registers, queueVars, intents, speedy, notify, current, bounds>>

RemoveDone(w) ==
  /\ pc[w] = "remove" /\ todo[w] = {}
  /\ Step(w, "deploy", WithChild(intents[key[w]]))
  /\ UNCHANGED <<apiVars, queueVars, intents, speedy, watchVars, bounds>>

\* Mutant of Deploy: the loop ends after the first device.
DeployFirst(w) ==
  LET c == key[w] IN
  /\ pc[w] = "deploy"
  /\ \E n \in todo[w] : SaveDevice(c, n, intents[c][n]) /\ Step(w, "deploy", {})
  /\ UNCHANGED <<cr, topo, registers, queueVars, intents, speedy, notify, current, bounds>>

Deploy(w) ==
  LET c == key[w] IN
  /\ pc[w] = "deploy"
  /\ \E n \in todo[w] : SaveDevice(c, n, intents[c][n]) /\ Step(w, "deploy", todo[w] \ {n})
  /\ UNCHANGED <<cr, topo, registers, queueVars, intents, speedy, notify, current, bounds>>

\* The second List only feeds the log, but its error still fails Update.
Relist(w) ==
  /\ pc[w] = "deploy" /\ todo[w] = {}
  /\ Step(w, "final", {})
  /\ UNCHANGED <<apiVars, queueVars, intents, speedy, watchVars, bounds>>

\* Mutant of FinalUpdate: the intents of the other vpcs are emptied too.
FinalUpdateAll(w) ==
  /\ pc[w] = "final"
  /\ intents' = [c \in Vpcs |-> IF c = key[w] \/ intents[c] = Nil THEN Nil ELSE NoChildren]
  /\ Step(w, "timeout", {})
  /\ UNCHANGED <<apiVars, queueVars, speedy, watchVars, bounds>>

FinalUpdate(w) ==
  /\ pc[w] = "final"
  /\ intents' = [intents EXCEPT ![key[w]] = Nil]
  /\ Step(w, "timeout", {})
  /\ UNCHANGED <<apiVars, queueVars, speedy, watchVars, bounds>>

-----------------------------------------------------------------------------
(* Timeout: the stage is read in one critical section and incremented in a  *)
(* later one.                                                               *)

\* Mutant of Backoff: the wait doubles instead of following the table.
BackoffDoubling(stage) == 2 ^ (IF stage <= 2 THEN stage ELSE 6)

Backoff(stage) == CASE stage = 0 -> 1
                    [] stage \in {1, 2} -> 5
                    [] OTHER -> 60

\* Mutant of TimeoutRead: the last stage is incremented once more.
TimeoutReadOffByOne(w) ==
  LET stage == GetSpeedy(key[w]) IN
  /\ pc[w] = "timeout"
  /\ wait' = [wait EXCEPT ![w] = Backoff(stage)]
  /\ Goto(w, IF stage <= 3 THEN "increment" ELSE "done")
  /\ UNCHANGED <<apiVars, queueVars, intents, speedy, key, mg, nodeInfo, todo,
                 watchVars, bounds>>

TimeoutRead(w) ==
  LET stage == GetSpeedy(key[w]) IN
  /\ pc[w] = "timeout"
  /\ wait' = [wait EXCEPT ![w] = Backoff(stage)]
  /\ Goto(w, IF stage <= 2 THEN "increment" ELSE "done")
  /\ UNCHANGED <<apiVars, queueVars, intents, speedy, key, mg, nodeInfo, todo,
                 watchVars, bounds>>

TimeoutIncrement(w) ==
  /\ pc[w] = "increment"
  /\ IncrementSpeedy(key[w])
  /\ Step(w, "done", {})
  /\ UNCHANGED <<apiVars, queueVars, intents, watchVars, bounds>>

-----------------------------------------------------------------------------
(* After Delete returned true: FinalDelete and the removal of the finalizer *)
(* by the managed reconciler, in either order.                              *)

\* Destroy acts on the children of the intent Delete has just populated.
BeginDestroy(w) ==
  /\ Populated(w) /\ mg[w].deleting
  /\ Step(w, "destroy", WithChild(intents[key[w]]))
  /\ UNCHANGED <<apiVars, queueVars, intents, speedy, watchVars, bounds>>

RemoveFinalizerFirst(w) ==
  LET c == key[w] IN
  /\ Populated(w) /\ mg[w].deleting
  /\ cr' = [cr EXCEPT ![c] = AbsentCr]
  /\ mg' = [mg EXCEPT ![w].gone = TRUE]
  /\ Goto(w, "destroy") /\ todo' = [todo EXCEPT ![w] = WithChild(intents[c])]
  /\ UNCHANGED <<topo, registers, device, queueVars, intents, speedy, key,
                 nodeInfo, wait, watchVars, bounds>>

\* Mutant of Destroy: the loop ends after the first device.
DestroyFirst(w) ==
  /\ pc[w] = "destroy"
  /\ \E n \in todo[w] : SaveDevice(key[w], n, {}) /\ Step(w, "destroy", {})
  /\ UNCHANGED <<cr, topo, registers, queueVars, intents, speedy, notify, current, bounds>>

Destroy(w) ==
  /\ pc[w] = "destroy"
  /\ \E n \in todo[w] : SaveDevice(key[w], n, {}) /\ Step(w, "destroy", todo[w] \ {n})
  /\ UNCHANGED <<cr, topo, registers, queueVars, intents, speedy, notify, current, bounds>>

\* The error Destroy returns is dropped: FinalDelete goes on.
DestroyError(w) ==
  /\ pc[w] = "destroy" /\ todo[w] # {}
  /\ faults < MaxFaults
  /\ faults' = faults + 1
  /\ Step(w, "destroy", {})
  /\ UNCHANGED <<apiVars, queueVars, intents, speedy, watchVars, env>>

ForgetSpeedy(w) ==
  /\ pc[w] = "destroy" /\ todo[w] = {}
  /\ DeleteSpeedy(key[w])
  /\ IF mg[w].gone THEN Release(w) ELSE Step(w, "unfinalize", {})
  /\ UNCHANGED <<apiVars, queueVars, intents, watchVars, bounds>>

RemoveFinalizerLast(w) ==
  /\ pc[w] = "unfinalize"
  /\ cr' = [cr EXCEPT ![key[w]] = AbsentCr]
  /\ Release(w)
  /\ UNCHANGED <<topo, registers, device, queueVars, intents, speedy, watchVars, bounds>>

-----------------------------------------------------------------------------
(* The watch on Srl3Device: add() lists the vpcs and, one by one, resets    *)
(* the stage and then adds the key to the queue.                            *)

WatchIdle == notify = {} /\ current = NoVpc

WatchList ==
  /\ WatchIdle /\ passes > 0
  /\ passes' = passes - 1
  /\ notify' = Existing
  /\ UNCHANGED <<apiVars, queueVars, intents, speedy, workerVars, current, bounds>>

\* If List fails the event is dropped: nothing retries it.
WatchListError ==
  /\ WatchIdle /\ passes > 0
  /\ faults < MaxFaults
  /\ passes' = passes - 1
  /\ faults' = faults + 1
  /\ UNCHANGED <<apiVars, queueVars, intents, speedy, workerVars, notify, current, env>>

WatchReset(c) ==
  /\ current = NoVpc /\ c \in notify
  /\ ResetSpeedy(c)
  /\ current' = c
  /\ notify' = notify \ {c}
  /\ UNCHANGED <<apiVars, queueVars, intents, workerVars, passes, bounds>>

\* Mutant of WatchAdd: a vpc that is being reconciled is not added again.
WatchAddIfIdle ==
  /\ current # NoVpc
  /\ dirty' = IF \E w \in Workers : key[w] = current THEN dirty ELSE dirty \cup {current}
  /\ current' = NoVpc
  /\ UNCHANGED <<apiVars, delayed, intents, speedy, workerVars, passes, notify, bounds>>

WatchAdd ==
  /\ current # NoVpc
  /\ dirty' = dirty \cup {current}
  /\ current' = NoVpc
  /\ UNCHANGED <<apiVars, delayed, intents, speedy, workerVars, passes, notify, bounds>>

-----------------------------------------------------------------------------
(* The environment: users, topology, other writers, ni registry, garbage    *)
(* collection of the registers a removed Vpc owned, and process restarts.   *)

EnvStep == env < MaxEnv /\ env' = env + 1 /\ UNCHANGED faults

\* A change of the spec or a deletion changes the generation of the resource
\* and so passes the event filter of Setup.
SaveCr(c, value) ==
  /\ EnvStep
  /\ cr' = [cr EXCEPT ![c] = value]
  /\ dirty' = dirty \cup {c}
  /\ UNCHANGED <<topo, registers, device, delayed, intents, speedy, workerVars, watchVars>>

CreateVpc(c) ==
  /\ cr[c].phase = "absent"
  /\ \E s \in SUBSET Nis : SaveCr(c, LiveCr(s))

EditVpc(c) ==
  /\ cr[c].phase # "absent"
  /\ \E s \in SUBSET Nis \ {cr[c].spec} : SaveCr(c, [cr[c] EXCEPT !.spec = s])

DeleteVpc(c) ==
  /\ cr[c].phase = "live"
  /\ SaveCr(c, IF cr[c].finalizer THEN [cr[c] EXCEPT !.phase = "deleting"] ELSE AbsentCr)

\* TopologyNodes are read by gatherNodeInfo but not watched.
ChangeTopology(n) ==
  /\ EnvStep
  /\ topo' = IF n \in topo THEN topo \ {n} ELSE topo \cup {n}
  /\ UNCHANGED <<cr, registers, device, queueVars, intents, speedy, workerVars, watchVars>>

LoseDevice(c, n) ==
  /\ EnvStep
  /\ device[c][n] # {}
  /\ SaveDevice(c, n, {})
  /\ UNCHANGED <<cr, topo, registers, queueVars, intents, speedy, workerVars, notify, current>>

AllocateNi(c, ni) ==
  /\ registers[c][ni] = "pending"
  /\ registers' = [registers EXCEPT ![c][ni] = "ready"]
  /\ UNCHANGED <<cr, topo, device, queueVars, intents, speedy, workerVars, watchVars, bounds>>

CollectRegister(c, ni) ==
  /\ cr[c].phase = "absent" /\ registers[c][ni] # "none"
  /\ registers' = [registers EXCEPT ![c][ni] = "none"]
  /\ UNCHANGED <<cr, topo, device, queueVars, intents, speedy, workerVars, watchVars, bounds>>

\* A new process: memory is empty, every stored Vpc is queued and every stored
\* Srl3Device raises a creation event.
FreshProcess ==
  /\ speedy' = [c \in Vpcs |-> NoEntry]
  /\ intents' = [c \in Vpcs |-> Nil]
  /\ pc' = [w \in Workers |-> "idle"] /\ key' = [w \in Workers |-> NoVpc]
  /\ mg' = [w \in Workers |-> NoMg] /\ nodeInfo' = [w \in Workers |-> {}]
  /\ todo' = [w \in Workers |-> {}] /\ wait' = [w \in Workers |-> 0]
  /\ dirty' = Existing /\ delayed' = [c \in Vpcs |-> 0]
  /\ notify' = {} /\ current' = NoVpc
  /\ passes' = IF \E c \in Vpcs, n \in Nodes : device[c][n] # {} THEN MaxPasses ELSE 0
  /\ UNCHANGED apiVars

Restart ==
  /\ faults < MaxFaults
  /\ faults' = faults + 1
  /\ FreshProcess
  /\ UNCHANGED env

\* intents and abstractions are plain Go maps without a lock.  When a write can
\* meet another access the runtime may abort the process ("concurrent map
\* writes"); it may also miss the race, which is the ordinary interleaving.
\* FinalDelete's look-up of the intent (reconciler.go:254) has no point of its own: it is
\* part of the step that ends "populate", where the same writes can meet it.
MapWrites == {"reset", "final"}
MapReads  == {"populate", "remove", "deploy"}
MapRace(v, w) ==
  v # w /\ pc[v] \in MapWrites /\ pc[w] \in MapWrites \cup MapReads

ConcurrentMapFatal ==
  /\ \E v, w \in Workers : MapRace(v, w)
  /\ FreshProcess
  /\ UNCHANGED bounds

-----------------------------------------------------------------------------
\* The process may start with vpcs an earlier process has seen, and given their
\* finalizer, but for which it has written nothing yet.
StoredCrs ==
  {AbsentCr} \cup {LiveCr(s) : s \in SUBSET Nis}
  \cup {[phase |-> p, finalizer |-> TRUE, spec |-> s] :
          p \in {"live", "deleting"}, s \in SUBSET Nis}

Init ==
  /\ cr \in [Vpcs -> StoredCrs]
  /\ topo \in SUBSET Nodes
  /\ registers = [c \in Vpcs |-> [ni \in Nis |-> "none"]]
  /\ device = [c \in Vpcs |-> NoChildren]
  /\ dirty = Existing
  /\ delayed = [c \in Vpcs |-> 0]
  /\ SpeedyInit
  /\ intents = [c \in Vpcs |-> Nil]
  /\ pc = [w \in Workers |-> "idle"]
  /\ key = [w \in Workers |-> NoVpc]
  /\ mg = [w \in Workers |-> NoMg]
  /\ nodeInfo = [w \in Workers |-> {}]
  /\ todo = [w \in Workers |-> {}]
  /\ wait = [w \in Workers |-> 0]
  /\ passes = 0 /\ notify = {} /\ current = NoVpc
  /\ env = 0 /\ faults = 0

Populate(w) ==
  \/ StartCallback(w) \/ ResetMaps(w) \/ GetAllocationStrategy(w)
  \/ CreateNiRegister(w) \/ CreateDone(w)
  \/ GetNiRegister(w) \/ NiRegisterUnavailable(w)
  \/ GatherNodeInfo(w) \/ PopulateNi(w)

Update(w) ==
  \/ ListAndValidate(w) \/ RemoveStale(w) \/ RemoveDone(w)
  \/ Deploy(w) \/ Relist(w)
  \/ FinalUpdate(w) \/ TimeoutRead(w) \/ TimeoutIncrement(w)

FinalDelete(w) ==
  \/ BeginDestroy(w) \/ Destroy(w) \/ ForgetSpeedy(w)
  \/ RemoveFinalizerFirst(w) \/ RemoveFinalizerLast(w)

\* A worker step without a fault.
Reconcile(w) ==
  \/ Dequeue(w) \/ GetAbsent(w) \/ GetManaged(w) \/ Done(w)
  \/ Populate(w) \/ Update(w) \/ FinalDelete(w)

Watch == WatchList \/ (\E c \in Vpcs : WatchReset(c)) \/ WatchAdd

Fault ==
  \/ \E w \in Workers : ApiError(w) \/ DestroyError(w)
  \/ WatchListError \/ Restart \/ ConcurrentMapFatal

Environment ==
  \/ \E c \in Vpcs : CreateVpc(c) \/ EditVpc(c) \/ DeleteVpc(c)
  \/ \E n \in Nodes : ChangeTopology(n)
  \/ \E c \in Vpcs, n \in Nodes : LoseDevice(c, n)

Registry == \E c \in Vpcs, ni \in Nis : AllocateNi(c, ni) \/ CollectRegister(c, ni)

Next ==
  \/ \E w \in Workers : Reconcile(w)
  \/ \E c \in Vpcs : FireTimer(c)
  \/ Watch \/ Fault \/ Environment \/ Registry

Spec == Init /\ [][Next]_vars

\* The workers and the watch are goroutines that are never starved, an armed
\* timer fires, and the ni registry answers every register.  Nothing is assumed
\* of users, of faults, or of the garbage collector.
Fairness ==
  /\ \A w \in Workers : WF_vars(Reconcile(w))
  /\ \A c \in Vpcs : WF_vars(FireTimer(c))
  /\ WF_vars(Watch)
  /\ \A c \in Vpcs, ni \in Nis : WF_vars(AllocateNi(c, ni))

FairSpec == Spec /\ Fairness

-----------------------------------------------------------------------------
(* Properties                                                               *)

Pcs == ApiCalls \cup {"idle", "start", "reset", "final", "timeout", "increment",
                      "destroy", "done"}

CrType ==
  [phase : {"absent", "live", "deleting"}, finalizer : BOOLEAN, spec : SUBSET Nis]

MgType == [spec : SUBSET Nis, deleting : BOOLEAN, gone : BOOLEAN]

\* The work queue hands a key to one worker at a time, and a worker has a key
\* exactly when it is not idle.
WorkersOK ==
  /\ pc \in [Workers -> Pcs]
  /\ key \in [Workers -> Vpcs \cup {NoVpc}]
  /\ \A w \in Workers : pc[w] = "idle" <=> key[w] = NoVpc
  /\ \A v, w \in Workers : key[v] = key[w] /\ key[v] # NoVpc => v = w

\* The queue, the timers, the watch and the bounds.
QueueOK ==
  /\ dirty \subseteq Vpcs
  /\ delayed \in [Vpcs -> {0, 1, 5, 60}]
  /\ wait \in [Workers -> {0, 1, 5, 60}]
  /\ notify \subseteq Vpcs
  /\ current \in Vpcs \cup {NoVpc}
  /\ passes \in 0..MaxPasses
  /\ env \in 0..MaxEnv /\ faults \in 0..MaxFaults

\* What is stored, and what the workers copied from it; the loops of
\* populateSchema run over nis, those of List, Delete, Deploy and Destroy over nodes.
StoreOK ==
  /\ cr \in [Vpcs -> CrType]
  /\ topo \subseteq Nodes
  /\ registers \in [Vpcs -> [Nis -> {"none", "pending", "ready"}]]
  /\ mg \in [Workers -> MgType]
  /\ nodeInfo \in [Workers -> SUBSET Nodes]
  /\ todo \in [Workers -> SUBSET (Nis \cup Nodes)]
  /\ \A w \in Workers :
       /\ pc[w] \in {"create", "collect", "populate"} => todo[w] \subseteq mg[w].spec
       /\ pc[w] \in {"remove", "deploy", "destroy"} => todo[w] \subseteq Nodes

ConfigOK ==
  /\ device \in [Vpcs -> Children]
  /\ intents \in [Vpcs -> Children \cup {Nil}]
  /\ speedy \in [Vpcs -> Int]

\* Every variable holds what the code can store in it.
TypeOK == WorkersOK /\ QueueOK /\ StoreOK /\ ConfigOK

\* Timeout reads the stage and increments it in two critical sections, with the
\* watch and the other workers in between; still no stage passes 3, the first
\* value Timeout no longer increments (reconciler.go:227-241).
SpeedyBounded == \A c \in Vpcs : speedy[c] <= 3

\* Why it holds: only the worker that holds the key increments, and between its
\* read and its increment the stage can only be reset.
StageInv ==
  /\ \A c \in Vpcs : speedy[c] \in NoEntry..3
  /\ \A w \in Workers : pc[w] = "increment" => speedy[key[w]] <= 2

\* Where Validate, Delete, Deploy and Destroy read the shared intents map, they
\* find the complete intent of the spec and the nodes this very reconcile read,
\* whatever earlier, failed or parallel reconciles did to the map.
IntentIsOwn ==
  \A w \in Workers :
    Populated(w) \/ pc[w] \in {"remove", "deploy"} =>
      intents[key[w]] = Desired(mg[w].spec, nodeInfo[w])

\* Why it holds: the map grows from the empty intent by one network instance
\* after the other, under a key no other worker has.
FindsIntent(w) ==
  /\ pc[w] \in {"strategy", "create", "collect"} => intents[key[w]] = NoChildren
  /\ pc[w] = "populate" =>
       intents[key[w]] = Desired(mg[w].spec \ todo[w], nodeInfo[w])
  /\ pc[w] \in {"remove", "deploy"} =>
       intents[key[w]] = Desired(mg[w].spec, nodeInfo[w])

IntentInv == \A w \in Workers : FindsIntent(w)

\* When Update reaches its last List, nothing of an earlier spec or an earlier
\* topology is left: every node has what the intent says, or (if another writer
\* removed it meanwhile) no resource at all.
NoStaleConfig ==
  \A w \in Workers :
    pc[w] = "deploy" /\ todo[w] = {} =>
      \A n \in Nodes : device[key[w]][n] \in {{}, intents[key[w]][n]}

\* Why it holds: first every node the intent does not name is emptied, then every
\* node it names is written, and only the worker that holds the key writes.
CleansUp(w) ==
  LET c == key[w] IN
  /\ pc[w] = "remove" =>
       \A n \in Nodes \ todo[w] : intents[c][n] = {} => device[c][n] = {}
  /\ pc[w] = "deploy" =>
       \A n \in Nodes \ todo[w] : device[c][n] \in {{}, intents[c][n]}

StaleInv == \A w \in Workers : CleansUp(w)

\* A vpc that will be dequeued once more: a device event waits for the watch, the watch
\* has it in its list, or its key is dirty.
Awakened(c) == passes > 0 \/ current = c \/ c \in notify \cup dirty

\* An Update that reaches its last List has configured all of its intent on every node
\* (reconciler.go:190-200), or the vpc is certain to be reconciled again: another writer
\* that takes a device away behind the loop raises an event, and however the watch and
\* the queue interleave with the worker, which holds the key meanwhile, that event is not
\* lost.  (A List of the watch that fails drops it.)
UpdateComplete ==
  faults = 0 =>
    \A w \in Workers :
      pc[w] = "deploy" /\ todo[w] = {} =>
        \A n \in Nodes : device[key[w]][n] = intents[key[w]][n] \/ Awakened(key[w])

\* Why it holds: the loops of Update have done their part (StaleInv), and the watch
\* finds the vpc, which its finalizer keeps (KeptInv), each time it lists.
Completes(w) ==
  pc[w] = "deploy" =>
    \A n \in Nodes \ todo[w] : device[key[w]][n] = intents[key[w]][n] \/ Awakened(key[w])

CompleteInv == faults = 0 => \A w \in Workers : Completes(w)

\* Nothing is written for a network instance whose register has no index: the
\* evi, the vni and the route targets come from it (populate-srl.go:214-224), and
\* a delete request in the middle of an Update does not take it away again.  Nor are
\* devices destroyed after the index has gone, as long as the finalizer is there.  (Where
\* the reconciler removes it before FinalDelete, the registers may be collected first.)
Writing(w) ==
  \/ pc[w] \in {"populate", "remove", "deploy"}
  \/ pc[w] = "destroy" /\ ~mg[w].gone

IndexBeforeWrite ==
  \A w \in Workers :
    Writing(w) => \A ni \in mg[w].spec : registers[key[w]][ni] = "ready"

\* Why it holds: GetNiRegister has seen every index once, and only the registers of
\* a vpc that is out of the store are collected.
HasIndexes(w) ==
  \A ni \in mg[w].spec \ (IF pc[w] = "collect" THEN todo[w] ELSE {}) :
    registers[key[w]][ni] = "ready"

IndexInv ==
  \A w \in Workers : pc[w] = "collect" \/ Writing(w) => HasIndexes(w)

\* The finalizer: a resource stays in the store until the worker that holds its key
\* takes it out, before the devices are destroyed or as its last step.
IsKept(w) ==
  /\ mg[w].gone => pc[w] = "destroy"
  /\ pc[w] \notin {"idle", "get", "done"} /\ ~mg[w].gone => cr[key[w]].finalizer

KeptInv ==
  /\ \A c \in Vpcs : cr[c].finalizer => cr[c].phase # "absent"
  /\ \A w \in Workers : IsKept(w)

\* A vpc that sleeps the long wait although its stage was reset is awake or
\* about to be: the reset of the watch and the Timeout of a worker race without
\* an event being slept through.  (watchnddasrldevices.go:91-95: reset, then Add.)
SlowPollWoken ==
  \A c \in Vpcs :
    delayed[c] = 60 /\ speedy[c] \in 0..2 =>
      c \in dirty \/ current = c \/ \E w \in Workers : key[w] = c

\* Why it holds: Done arms the long wait for a worker whose vpc was not reset since
\* Timeout, or is queued or about to be.
WakeInv ==
  /\ SlowPollWoken
  /\ \A w \in Workers :
       /\ pc[w] = "increment" => wait[w] # 60
       /\ pc[w] = "done" /\ wait[w] = 60 /\ speedy[key[w]] \in 0..2 =>
            key[w] \in dirty \/ current = key[w]

\* The stage of a vpc that is gone is forgotten: the map does not grow with
\* every vpc that ever existed, and a vpc created again starts at stage 0.
NoSpeedyLeak ==
  \A c \in Vpcs :
    cr[c].phase = "absent" /\ (\A w \in Workers : key[w] # c) => speedy[c] = NoEntry

\* Why it holds: only a vpc with a finalizer gets a stage, and FinalDelete drops it
\* before the finalizer, or right after the resource.
Gone(c) == \E w \in Workers : key[w] = c /\ mg[w].gone

LeakInv ==
  /\ \A c \in Vpcs : ~cr[c].finalizer => speedy[c] = NoEntry \/ Gone(c)
  /\ \A w \in Workers : pc[w] = "unfinalize" => speedy[key[w]] = NoEntry

\* What a deletion leaves behind.  Delete populates from the last spec and topology
\* and never lists the system, and FinalDelete drops the error of Destroy; but if no
\* call failed and no process died, no node of the intent of a deleted vpc (its map
\* entry outlives it) has a device, whatever users changed in between.
DestroyComplete ==
  \A c \in Vpcs :
    /\ cr[c].phase = "absent" /\ (\A w \in Workers : key[w] # c)
    /\ intents[c] # Nil /\ faults = 0
    => \A n \in WithChild(intents[c]) : device[c][n] = {}

\* Why it holds: Destroy empties one node of the intent after the other, and a vpc
\* without a finalizer has no worker that writes.
EmptyBut(c, S) == \A n \in WithChild(intents[c]) \ S : device[c][n] = {}

DestroyInv ==
  faults = 0 =>
    /\ \A w \in Workers : pc[w] = "destroy" => EmptyBut(key[w], todo[w])
    /\ \A w \in Workers : pc[w] = "unfinalize" => EmptyBut(key[w], {})
    /\ \A c \in Vpcs : ~cr[c].finalizer /\ intents[c] # Nil /\ ~Gone(c) => EmptyBut(c, {})

\* The Srl3Devices of a vpc converge to what its spec and the topology ask for,
\* although TopologyNodes are not watched, a device event may be dropped and
\* reconciles may fail: the poll of the RequeueAfter timer repairs all of it.
Converges ==
  \A c \in Vpcs :
    <>[](cr[c].phase = "live" => device[c] = Desired(cr[c].spec, topo))

\* A vpc whose deletion was asked for disappears, although Delete first creates
\* the registers again and waits for their indexes.
DeletionCompletes == \A c \in Vpcs : cr[c].phase = "deleting" ~> cr[c].phase = "absent"

\* The controller comes to rest: in the end every live vpc stays at the slow
\* poll, its own writes waking it up only as long as they change something.
BackoffSettles == \A c \in Vpcs : <>[](cr[c].phase = "live" => speedy[c] = 3)

\* start.go:117 lets --concurrency be any "Number of items to process
\* simultaneously".  Two reconciles must then never touch the maps of the
\* application at the same time, one of them writing.
NoMapRace == \A v, w \in Workers : ~MapRace(v, w)
=============================================================================
