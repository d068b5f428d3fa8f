------------------------ MODULE VpcControllerProofs ------------------------
(***************************************************************************)
(* Proofs about VpcController, for every set of vpcs, workers, network     *)
(* instances and nodes and every bound.                                    *)
(*                                                                         *)
(* TypeOK has four parts, proved in the order in which each uses the ones  *)
(* before: WorkersOK (no key has two workers), QueueOK, StoreOK, ConfigOK. *)
(* The last is inductive only together with IntentInv, which says what the *)
(* intents map holds under the key of a worker at every point of its       *)
(* reconcile.  IntentIsOwn follows from IntentInv, SpeedyBounded from      *)
(* StageInv, and NoStaleConfig from StaleInv, a fact about the two loops   *)
(* of Update that holds of whatever intent the map has.                    *)
(***************************************************************************)
EXTENDS VpcController, TLAPS

\* A worker that goes on with the key it has leaves the hand-out of keys as it is.
LEMMA GotoWorkers ==
  ASSUME WorkersOK, NEW w \in Workers, NEW l \in Pcs \ {"idle"},
         pc[w] # "idle", Goto(w, l), key' = key
  PROVE  WorkersOK'
BY DEF WorkersOK, Goto

\* A worker that ends its reconcile gives its key back.
LEMMA ReleaseWorkers ==
  ASSUME WorkersOK, NEW w \in Workers, Release(w)
  PROVE  WorkersOK'
BY ConstantsAssumption DEF WorkersOK, Release, Goto, Pcs

\* In a new process every worker is idle.
LEMMA FreshWorkers == ASSUME FreshProcess PROVE WorkersOK'
BY DEF WorkersOK, FreshProcess, Pcs

\* Initially every worker is idle, without a key.
LEMMA WorkersInit == Init => WorkersOK
BY DEF Init, WorkersOK, Pcs

\* The work queue never hands one key to two workers, whatever step is taken.
LEMMA WorkersNext == WorkersOK /\ QueueOK /\ [Next]_vars => WorkersOK'
<1>. SUFFICES ASSUME WorkersOK, QueueOK, [Next]_vars PROVE WorkersOK'
  OBVIOUS
<1>. USE DEF Pcs, ApiCalls
<1>1. ASSUME NEW w \in Workers, Reconcile(w) PROVE WorkersOK'
  <2>1. CASE Dequeue(w)
    <3>1. PICK c \in dirty : /\ \A v \in Workers : key[v] # c
                             /\ key' = [key EXCEPT ![w] = c]
      BY <2>1 DEF Dequeue
    <3>2. c \in Vpcs /\ c # NoVpc
      BY ConstantsAssumption DEF QueueOK
    <3>. QED BY <2>1, <3>1, <3>2 DEF WorkersOK, Dequeue, Goto
  <2>2. CASE GetAbsent(w) \/ GetManaged(w) \/ Done(w)
    BY <2>2, GotoWorkers, ReleaseWorkers DEF GetAbsent, GetManaged, Done
  <2>3. CASE Populate(w)
    BY <2>3, GotoWorkers DEF Populate, StartCallback, ResetMaps,
       GetAllocationStrategy, CreateNiRegister, CreateDone, GetNiRegister,
       NiRegisterUnavailable, GatherNodeInfo, PopulateNi, Step, FailTo
  <2>4. CASE Update(w)
    BY <2>4, GotoWorkers DEF Update, ListAndValidate, RemoveStale, RemoveDone,
       Deploy, Relist, FinalUpdate, TimeoutRead, TimeoutIncrement, Step, Populated
  <2>5. CASE FinalDelete(w)
    BY <2>5, GotoWorkers, ReleaseWorkers DEF FinalDelete, BeginDestroy, Destroy,
       ForgetSpeedy, RemoveFinalizerFirst, RemoveFinalizerLast, Step, Populated
  <2>. QED BY <1>1, <2>1, <2>2, <2>3, <2>4, <2>5 DEF Reconcile
<1>2. ASSUME NEW c \in Vpcs, FireTimer(c) PROVE WorkersOK'
  BY <1>2 DEF FireTimer, workerVars, WorkersOK
<1>3. ASSUME Watch PROVE WorkersOK'
  BY <1>3 DEF Watch, WatchList, WatchReset, WatchAdd, workerVars, WorkersOK
<1>4. ASSUME NEW w \in Workers, ApiError(w) \/ DestroyError(w) PROVE WorkersOK'
  BY <1>4, GotoWorkers DEF ApiError, DestroyError, FailTo, Step
<1>5. ASSUME WatchListError PROVE WorkersOK'
  BY <1>5 DEF WatchListError, workerVars, WorkersOK
<1>6. ASSUME Restart \/ ConcurrentMapFatal PROVE WorkersOK'
  BY <1>6, FreshWorkers DEF Restart, ConcurrentMapFatal
<1>7. ASSUME Environment PROVE WorkersOK'
  BY <1>7 DEF Environment, CreateVpc, EditVpc, DeleteVpc, ChangeTopology, LoseDevice,
     SaveCr, workerVars, WorkersOK
<1>8. ASSUME Registry PROVE WorkersOK'
  BY <1>8 DEF Registry, AllocateNi, CollectRegister, workerVars, WorkersOK
<1>9. CASE UNCHANGED vars
  BY <1>9 DEF vars, workerVars, WorkersOK
<1>. QED
  BY <1>1, <1>2, <1>3, <1>4, <1>5, <1>6, <1>7, <1>8, <1>9 DEF Next, Fault

\* The queue, the timers and the watch have their types initially.
LEMMA QueueInit == Init => QueueOK
BY ConstantsAssumption DEF Init, QueueOK, Existing

\* A write of a device keeps the number of pending watch passes within its bound.
LEMMA SaveDevicePasses ==
  ASSUME QueueOK, NEW c, NEW n, NEW value, SaveDevice(c, n, value)
  PROVE  passes' \in 0..MaxPasses
<1>. Calls(device[c][n], value) \in {0, 1, 2}
  BY DEF Calls
<1>. QED BY ConstantsAssumption DEF QueueOK, SaveDevice

\* Every stage has one of the three waits, also 9999 of a missing key.
LEMMA BackoffType == \A stage : Backoff(stage) \in {1, 5, 60}
BY DEF Backoff

\* Every step keeps the types of the queue, the timers, the watch and the bounds.
LEMMA QueueNext == WorkersOK /\ QueueOK /\ [Next]_vars => QueueOK'
<1>. SUFFICES ASSUME WorkersOK, QueueOK, [Next]_vars PROVE QueueOK'
  OBVIOUS
<1>. USE ConstantsAssumption DEF QueueOK
<1>1. ASSUME NEW w \in Workers, Reconcile(w) PROVE QueueOK'
  <2>1. CASE Dequeue(w)
    BY <2>1 DEF Dequeue, apiVars, watchVars, bounds
  <2>2. CASE GetAbsent(w) \/ GetManaged(w)
    BY <2>2 DEF GetAbsent, GetManaged, Release, queueVars, watchVars, bounds
  <2>3. CASE Done(w)
    BY <2>3 DEF Done, Release, watchVars, bounds, WorkersOK
  <2>4. CASE Populate(w)
    <3>1. CASE NiRegisterUnavailable(w)
      BY <3>1 DEF NiRegisterUnavailable, FailTo, queueVars, watchVars, bounds
    <3>2. CASE StartCallback(w) \/ ResetMaps(w) \/ GetAllocationStrategy(w)
               \/ CreateNiRegister(w) \/ CreateDone(w)
      BY <3>2 DEF StartCallback, ResetMaps, GetAllocationStrategy, CreateNiRegister,
         CreateDone, Step, queueVars, watchVars, bounds
    <3>3. CASE GetNiRegister(w) \/ GatherNodeInfo(w) \/ PopulateNi(w)
      BY <3>3 DEF GetNiRegister, GatherNodeInfo, PopulateNi, Step, queueVars, watchVars, bounds
    <3>. QED BY <2>4, <3>1, <3>2, <3>3 DEF Populate
  <2>5. CASE Update(w)
    <3>1. CASE RemoveStale(w) \/ Deploy(w)
      BY <3>1, SaveDevicePasses DEF RemoveStale, Deploy, Step, queueVars, bounds
    <3>2. CASE TimeoutRead(w)
      BY <3>2, BackoffType DEF TimeoutRead, queueVars, watchVars, bounds
    <3>3. CASE ListAndValidate(w) \/ RemoveDone(w) \/ Relist(w) \/ FinalUpdate(w)
               \/ TimeoutIncrement(w)
      BY <3>3 DEF ListAndValidate, RemoveDone, Relist, FinalUpdate, TimeoutIncrement, Step,
         queueVars, watchVars, bounds
    <3>. QED BY <2>5, <3>1, <3>2, <3>3 DEF Update
  <2>6. CASE FinalDelete(w)
    <3>1. CASE Destroy(w)
      BY <3>1, SaveDevicePasses DEF Destroy, Step, queueVars, bounds
    <3>2. CASE BeginDestroy(w) \/ RemoveFinalizerFirst(w)
      BY <3>2 DEF BeginDestroy, RemoveFinalizerFirst, Step, queueVars, watchVars, bounds
    <3>3. CASE ForgetSpeedy(w) \/ RemoveFinalizerLast(w)
      BY <3>3 DEF ForgetSpeedy, RemoveFinalizerLast, Step, Release, queueVars, watchVars, bounds
    <3>. QED BY <2>6, <3>1, <3>2, <3>3 DEF FinalDelete
  <2>. QED BY <1>1, <2>1, <2>2, <2>3, <2>4, <2>5, <2>6 DEF Reconcile
<1>2. ASSUME NEW c \in Vpcs, FireTimer(c) PROVE QueueOK'
  BY <1>2 DEF FireTimer, workerVars, watchVars, bounds
<1>3. ASSUME Watch PROVE QueueOK'
  BY <1>3 DEF Watch, WatchList, WatchReset, WatchAdd, workerVars, queueVars, bounds, Existing
<1>4. ASSUME NEW w \in Workers, ApiError(w) \/ DestroyError(w) PROVE QueueOK'
  BY <1>4 DEF ApiError, DestroyError, FailTo, Step, queueVars, watchVars
<1>5. ASSUME WatchListError PROVE QueueOK'
  BY <1>5 DEF WatchListError, workerVars, queueVars
<1>6. ASSUME Restart \/ ConcurrentMapFatal PROVE QueueOK'
  BY <1>6 DEF Restart, ConcurrentMapFatal, FreshProcess, Existing, bounds
<1>7. ASSUME Environment PROVE QueueOK'
  BY <1>7 DEF Environment, CreateVpc, EditVpc, DeleteVpc, ChangeTopology, LoseDevice,
     SaveCr, EnvStep, SaveDevice, Calls, workerVars, queueVars, watchVars
<1>8. ASSUME Registry PROVE QueueOK'
  BY <1>8 DEF Registry, AllocateNi, CollectRegister, workerVars, queueVars, watchVars, bounds
<1>9. CASE UNCHANGED vars
  BY <1>9 DEF vars, workerVars, queueVars, watchVars, bounds
<1>. QED
  BY <1>1, <1>2, <1>3, <1>4, <1>5, <1>6, <1>7, <1>8, <1>9 DEF Next, Fault

-----------------------------------------------------------------------------
\* What the actions store as a resource has the type of one.
LEMMA CrFacts ==
  /\ AbsentCr \in CrType
  /\ \A x \in CrType : [x EXCEPT !.finalizer = TRUE] \in CrType
  /\ \A x \in CrType, s \in SUBSET Nis : [x EXCEPT !.spec = s] \in CrType
  /\ \A x \in CrType : [x EXCEPT !.phase = "deleting"] \in CrType
  /\ \A s \in SUBSET Nis : LiveCr(s) \in CrType
  /\ \A x \in CrType : x.spec \in SUBSET Nis
BY DEF CrType, AbsentCr, LiveCr

\* What the workers keep of a resource has the type of a copy.
LEMMA MgFacts ==
  /\ NoMg \in MgType
  /\ \A x \in MgType : [x EXCEPT !.gone = TRUE] \in MgType
  /\ \A x \in MgType : [x EXCEPT !.gone = TRUE].spec = x.spec
  /\ \A s \in SUBSET Nis, b \in BOOLEAN :
       [spec |-> s, gone |-> FALSE, deleting |-> b] \in MgType
  /\ \A x \in MgType : x.spec \in SUBSET Nis
BY DEF MgType, NoMg

\* The resources an earlier process may have left have their type.
LEMMA StoredCrsType == StoredCrs \subseteq CrType
<1>1. {LiveCr(s) : s \in SUBSET Nis} \subseteq CrType
  BY CrFacts
<1>2. \A p \in {"live", "deleting"}, s \in SUBSET Nis :
        [phase |-> p, finalizer |-> TRUE, spec |-> s] \in CrType
  BY DEF CrType
<1>. QED BY <1>1, <1>2, CrFacts DEF StoredCrs

\* Store and copies have their types initially.
LEMMA StoreInit == Init => StoreOK
BY StoredCrsType, MgFacts DEF Init, StoreOK

\* The part of StoreOK that is stored.
Stored ==
  /\ cr \in [Vpcs -> CrType]
  /\ topo \subseteq Nodes
  /\ registers \in [Vpcs -> [Nis -> {"none", "pending", "ready"}]]

\* The end of a reconcile keeps the types of the store and of the copies.
LEMMA ReleaseStore ==
  ASSUME WorkersOK, StoreOK, NEW w \in Workers, Release(w), Stored'
  PROVE  StoreOK'
<1>1. mg' \in [Workers -> MgType] /\ nodeInfo' \in [Workers -> SUBSET Nodes]
  BY MgFacts DEF StoreOK, Release
<1>2. todo' \in [Workers -> SUBSET (Nis \cup Nodes)]
  BY DEF StoreOK, Release
<1>3. \A v \in Workers : pc'[v] = "idle" \/ (pc'[v] = pc[v] /\ todo'[v] = todo[v] /\ mg'[v] = mg[v])
  BY DEF StoreOK, WorkersOK, Release, Goto
<1>. QED BY <1>1, <1>2, <1>3 DEF StoreOK, Stored

\* A worker that goes on keeps them if its new loop is over what it may be.
LEMMA StepStore ==
  ASSUME WorkersOK, StoreOK, NEW w \in Workers, NEW l, NEW S \in SUBSET (Nis \cup Nodes),
         Goto(w, l), todo' = [todo EXCEPT ![w] = S], mg' = mg, Stored',
         nodeInfo' \in [Workers -> SUBSET Nodes],
         l \in {"create", "collect", "populate"} => S \subseteq mg[w].spec,
         l \in {"remove", "deploy", "destroy"} => S \subseteq Nodes
  PROVE  StoreOK'
<1>1. \A v \in Workers : pc'[v] = IF v = w THEN l ELSE pc[v]
  BY DEF WorkersOK, Goto
<1>2. \A v \in Workers : todo'[v] = IF v = w THEN S ELSE todo[v]
  BY DEF StoreOK
<1>3. todo' \in [Workers -> SUBSET (Nis \cup Nodes)]
  BY DEF StoreOK
<1>. QED BY <1>1, <1>2, <1>3 DEF StoreOK, Stored

\* The steps of populateSchema keep them.
LEMMA StorePopulate ==
  ASSUME WorkersOK, StoreOK, NEW w \in Workers, Populate(w)
  PROVE  StoreOK'
<1>. DEFINE c == key[w]
<1>1. mg[w].spec \in SUBSET Nis
  BY MgFacts DEF StoreOK
<1>2. CASE StartCallback(w) \/ ResetMaps(w)
  BY <1>2, StepStore DEF StartCallback, ResetMaps, Step, apiVars, Stored, StoreOK
<1>3. CASE GetAllocationStrategy(w) \/ CreateDone(w)
  BY <1>1, <1>3, StepStore DEF GetAllocationStrategy, CreateDone, Step, apiVars, Stored, StoreOK
<1>4. CASE CreateNiRegister(w)
  <2>1. PICK ni \in NextOf(todo[w]) :
          /\ registers' = [registers EXCEPT ![c][ni] = IF @ = "none" THEN "pending" ELSE @]
          /\ Step(w, "create", todo[w] \ {ni})
    BY <1>4 DEF CreateNiRegister
  <2>2. registers' \in [Vpcs -> [Nis -> {"none", "pending", "ready"}]]
    BY <2>1 DEF StoreOK
  <2>. QED
    BY <1>1, <1>4, <2>1, <2>2, StepStore DEF CreateNiRegister, Step, Stored, StoreOK
<1>5. CASE GetNiRegister(w)
  <2>1. PICK ni \in NextOf(todo[w]) : Step(w, "collect", todo[w] \ {ni})
    BY <1>5 DEF GetNiRegister
  <2>2. todo[w] \ {ni} \subseteq mg[w].spec
    BY <1>5 DEF GetNiRegister, StoreOK
  <2>3. Goto(w, "collect") /\ todo' = [todo EXCEPT ![w] = todo[w] \ {ni}] /\ mg' = mg
    BY <2>1 DEF Step
  <2>4. nodeInfo' \in [Workers -> SUBSET Nodes]
    BY <2>1 DEF Step, StoreOK
  <2>5. Stored'
    BY <1>5 DEF GetNiRegister, apiVars, Stored, StoreOK
  <2>6. todo[w] \ {ni} \in SUBSET (Nis \cup Nodes)
    BY DEF StoreOK
  <2>. QED BY <2>2, <2>3, <2>4, <2>5, <2>6, StepStore
<1>6. CASE NiRegisterUnavailable(w)
  <2>1. PICK l \in {"final", "timeout", "done"} : FailTo(w, l)
    BY <1>6 DEF NiRegisterUnavailable
  <2>2. Goto(w, l) /\ todo' = [todo EXCEPT ![w] = {}] /\ mg' = mg /\ Stored'
    BY <2>1 DEF FailTo, apiVars, Stored, StoreOK
  <2>3. nodeInfo' \in [Workers -> SUBSET Nodes]
    BY <2>1 DEF FailTo, StoreOK
  <2>. QED BY <2>2, <2>3, StepStore
<1>7. CASE GatherNodeInfo(w)
  <2>1. Goto(w, "populate") /\ todo' = [todo EXCEPT ![w] = mg[w].spec] /\ mg' = mg
    BY <1>7 DEF GatherNodeInfo
  <2>2. nodeInfo' \in [Workers -> SUBSET Nodes]
    BY <1>7 DEF GatherNodeInfo, StoreOK
  <2>3. Stored'
    BY <1>7 DEF GatherNodeInfo, apiVars, Stored, StoreOK
  <2>4. mg[w].spec \in SUBSET (Nis \cup Nodes)
    BY <1>1
  <2>. QED BY <2>1, <2>2, <2>3, <2>4, StepStore
<1>8. CASE PopulateNi(w)
  <2>1. PICK ni \in NextOf(todo[w]) : Step(w, "populate", todo[w] \ {ni})
    BY <1>8 DEF PopulateNi
  <2>2. Goto(w, "populate") /\ todo' = [todo EXCEPT ![w] = todo[w] \ {ni}] /\ mg' = mg
    BY <2>1 DEF Step
  <2>3. nodeInfo' \in [Workers -> SUBSET Nodes]
    BY <2>1 DEF Step, StoreOK
  <2>4. Stored'
    BY <1>8 DEF PopulateNi, apiVars, Stored, StoreOK
  <2>5. todo[w] \ {ni} \subseteq mg[w].spec
    BY <1>8 DEF PopulateNi, StoreOK
  <2>6. todo[w] \ {ni} \in SUBSET (Nis \cup Nodes)
    BY DEF StoreOK
  <2>. QED BY <2>2, <2>3, <2>4, <2>5, <2>6, StepStore
<1>. QED BY <1>2, <1>3, <1>4, <1>5, <1>6, <1>7, <1>8 DEF Populate

\* The steps of Update after populateSchema keep them.
LEMMA StoreUpdate ==
  ASSUME WorkersOK, StoreOK, NEW w \in Workers, Update(w)
  PROVE  StoreOK'
<1>. USE DEF WithChild, Stored, StoreOK
<1>1. CASE ListAndValidate(w) \/ RemoveDone(w) \/ Relist(w)
  BY <1>1, StepStore DEF ListAndValidate, RemoveDone, Relist, Step, apiVars
<1>2. CASE RemoveStale(w) \/ Deploy(w)
  BY <1>2, StepStore DEF RemoveStale, Deploy, Step
<1>3. CASE FinalUpdate(w) \/ TimeoutIncrement(w)
  BY <1>3, StepStore DEF FinalUpdate, TimeoutIncrement, Step, apiVars
<1>4. CASE TimeoutRead(w)
  BY <1>4 DEF TimeoutRead, Goto, apiVars, WorkersOK
<1>. QED BY <1>1, <1>2, <1>3, <1>4 DEF Update

\* The steps of FinalDelete and of the removal of the finalizer keep them.
LEMMA StoreFinalDelete ==
  ASSUME WorkersOK, StoreOK, NEW w \in Workers, FinalDelete(w)
  PROVE  StoreOK'
<1>. USE DEF WithChild, Stored, StoreOK
<1>1. CASE BeginDestroy(w)
  BY <1>1, StepStore DEF BeginDestroy, Step, apiVars
<1>2. CASE Destroy(w)
  BY <1>2, StepStore DEF Destroy, Step
<1>3. CASE ForgetSpeedy(w)
  BY <1>3, StepStore, ReleaseStore DEF ForgetSpeedy, Step, apiVars
<1>4. CASE RemoveFinalizerLast(w)
  BY <1>4, ReleaseStore, CrFacts DEF RemoveFinalizerLast
<1>5. CASE RemoveFinalizerFirst(w)
  <2>1. cr' \in [Vpcs -> CrType] /\ mg' \in [Workers -> MgType]
    BY <1>5, CrFacts, MgFacts DEF RemoveFinalizerFirst
  <2>2. \A v \in Workers : /\ pc'[v] = IF v = w THEN "destroy" ELSE pc[v]
                           /\ v # w => todo'[v] = todo[v] /\ mg'[v] = mg[v]
                           /\ todo'[w] \subseteq Nodes
    BY <1>5 DEF RemoveFinalizerFirst, Goto, WorkersOK
  <2>3. todo' \in [Workers -> SUBSET (Nis \cup Nodes)]
    BY <1>5 DEF RemoveFinalizerFirst
  <2>. QED BY <1>5, <2>1, <2>2, <2>3 DEF RemoveFinalizerFirst
<1>. QED BY <1>1, <1>2, <1>3, <1>4, <1>5 DEF FinalDelete

\* So does every step of a worker.
LEMMA StoreReconcile ==
  ASSUME WorkersOK, QueueOK, StoreOK, NEW w \in Workers, Reconcile(w)
  PROVE  StoreOK'
<1>. DEFINE c == key[w]
<1>. USE DEF StoreOK
<1>1. CASE Dequeue(w)
  BY <1>1 DEF Dequeue, Goto, apiVars, WorkersOK
<1>2. CASE GetAbsent(w) \/ Done(w)
  BY <1>2, ReleaseStore DEF GetAbsent, Done, apiVars, Stored
<1>3. CASE GetManaged(w)
  <2>1. c \in Vpcs
    BY <1>3 DEF GetManaged, WorkersOK
  <2>2. cr' = [cr EXCEPT ![c] = [cr[c] EXCEPT !.finalizer = TRUE]]
    BY <1>3 DEF GetManaged
  <2>3. cr' \in [Vpcs -> CrType]
    BY <2>1, <2>2, CrFacts
  <2>4. mg' = [mg EXCEPT ![w] = [spec |-> cr[c].spec, gone |-> FALSE,
                                 deleting |-> cr[c].phase = "deleting"]]
    BY <1>3 DEF GetManaged
  <2>5. mg' \in [Workers -> MgType]
    BY <2>1, <2>4, CrFacts, MgFacts
  <2>. QED BY <1>3, <2>3, <2>4, <2>5 DEF GetManaged, Goto, WorkersOK
<1>4. CASE Populate(w)
  BY <1>4, StorePopulate
<1>5. CASE Update(w)
  BY <1>5, StoreUpdate
<1>6. CASE FinalDelete(w)
  BY <1>6, StoreFinalDelete
<1>. QED BY <1>1, <1>2, <1>3, <1>4, <1>5, <1>6 DEF Reconcile

\* So does every step.
LEMMA StoreNext == WorkersOK /\ QueueOK /\ StoreOK /\ [Next]_vars => StoreOK'
<1>. SUFFICES ASSUME WorkersOK, QueueOK, StoreOK, [Next]_vars PROVE StoreOK'
  OBVIOUS
<1>. USE DEF StoreOK
<1>1. ASSUME NEW w \in Workers, Reconcile(w) PROVE StoreOK'
  BY <1>1, StoreReconcile
<1>2. ASSUME NEW c \in Vpcs, FireTimer(c) PROVE StoreOK'
  BY <1>2 DEF FireTimer, apiVars, workerVars
<1>3. ASSUME Watch PROVE StoreOK'
  BY <1>3 DEF Watch, WatchList, WatchReset, WatchAdd, workerVars, apiVars
<1>4. ASSUME NEW w \in Workers, ApiError(w) \/ DestroyError(w) PROVE StoreOK'
  <2>1. CASE ApiError(w)
    BY <2>1 DEF ApiError, FailTo, Goto, apiVars, WorkersOK
  <2>2. CASE DestroyError(w)
    BY <2>2 DEF DestroyError, Step, Goto, apiVars, WorkersOK
  <2>. QED BY <1>4, <2>1, <2>2
<1>5. ASSUME WatchListError PROVE StoreOK'
  BY <1>5 DEF WatchListError, workerVars, apiVars
<1>6. ASSUME Restart \/ ConcurrentMapFatal PROVE StoreOK'
  BY <1>6, MgFacts DEF Restart, ConcurrentMapFatal, FreshProcess, apiVars
<1>7. ASSUME Environment PROVE StoreOK'
  <2>1. ASSUME NEW c \in Vpcs, NEW value \in CrType, SaveCr(c, value) PROVE StoreOK'
    BY <2>1 DEF SaveCr, workerVars
  <2>2. ASSUME NEW c \in Vpcs, CreateVpc(c) \/ EditVpc(c) \/ DeleteVpc(c) PROVE StoreOK'
    BY <2>1, <2>2, CrFacts DEF CreateVpc, EditVpc, DeleteVpc
  <2>3. ASSUME NEW n \in Nodes, ChangeTopology(n) PROVE StoreOK'
    BY <2>3 DEF ChangeTopology, workerVars
  <2>4. ASSUME NEW c \in Vpcs, NEW n \in Nodes, LoseDevice(c, n) PROVE StoreOK'
    BY <2>4 DEF LoseDevice, workerVars
  <2>. QED BY <1>7, <2>2, <2>3, <2>4 DEF Environment
<1>8. ASSUME Registry PROVE StoreOK'
  <2>1. PICK c \in Vpcs, ni \in Nis : AllocateNi(c, ni) \/ CollectRegister(c, ni)
    BY <1>8 DEF Registry
  <2>2. PICK v \in {"none", "ready"} : registers' = [registers EXCEPT ![c][ni] = v]
    BY <2>1 DEF AllocateNi, CollectRegister
  <2>3. registers' \in [Vpcs -> [Nis -> {"none", "pending", "ready"}]]
    BY <2>2
  <2>. QED BY <2>1, <2>3 DEF AllocateNi, CollectRegister, workerVars
<1>9. CASE UNCHANGED vars
  BY <1>9 DEF vars, workerVars, apiVars
<1>. QED
  BY <1>1, <1>2, <1>3, <1>4, <1>5, <1>6, <1>7, <1>8, <1>9 DEF Next, Fault

-----------------------------------------------------------------------------
\* The empty intent and the desired one map every node to network instances.
LEMMA ChildrenFacts ==
  /\ NoChildren \in Children
  /\ \A f \in Children : \A n \in Nodes : f[n] \in SUBSET Nis
  /\ \A f \in Children : \A n \in Nodes, v \in SUBSET Nis :
       [f EXCEPT ![n] = v] \in Children
  /\ \A s \in SUBSET Nis : \A N : Desired(s, N) \in Children
BY DEF Children, NoChildren, Desired

\* An empty spec asks for nothing.
LEMMA DesiredEmpty == \A N : Desired({}, N) = NoChildren
BY DEF Desired, NoChildren

\* Devices and intents are empty initially, and no worker relies on an intent.
LEMMA ConfigInit == Init => ConfigOK /\ IntentInv
BY ChildrenFacts DEF Init, ConfigOK, IntentInv, FindsIntent, SpeedyInit, NoEntry

\* A step that leaves the map alone and does not put a worker into a state in
\* which it relies on it.
LEMMA IntentFrame ==
  ASSUME IntentInv, intents' = intents,
         \A v \in Workers :
           \/ /\ pc'[v] = pc[v] /\ key'[v] = key[v] /\ mg'[v] = mg[v]
              /\ nodeInfo'[v] = nodeInfo[v]
              /\ pc[v] = "populate" => todo'[v] = todo[v]
           \/ pc'[v] \notin {"strategy", "create", "collect", "populate", "remove", "deploy"}
  PROVE  IntentInv'
BY DEF IntentInv, FindsIntent

\* A step of w that writes the map under its own key only.
LEMMA IntentOwn ==
  ASSUME IntentInv, WorkersOK, NEW w \in Workers, pc[w] # "idle", NEW x,
         intents' = [intents EXCEPT ![key[w]] = x], intents \in [Vpcs -> Children \cup {Nil}],
         key' = key, mg' = mg, nodeInfo' = nodeInfo,
         \A v \in Workers \ {w} : pc'[v] = pc[v] /\ todo'[v] = todo[v]
  PROVE  /\ intents'[key[w]] = x
         /\ \A v \in Workers \ {w} : FindsIntent(v)'
<1>1. key[w] \in Vpcs /\ \A v \in Workers \ {w} : key[v] # key[w]
  BY DEF WorkersOK
<1>2. \A v \in Workers \ {w} : intents'[key[v]] = intents[key[v]]
  BY <1>1
<1>. QED BY <1>1, <1>2 DEF IntentInv, FindsIntent

\* After the step w relies on the map, and finds in it what it relies on.
LEMMA IntentNextPopulate ==
  ASSUME WorkersOK, StoreOK, ConfigOK, IntentInv, NEW w \in Workers, Populate(w)
  PROVE  IntentInv'
<1>. DEFINE c == key[w]
<1>1. CASE StartCallback(w) \/ NiRegisterUnavailable(w)
  BY <1>1, IntentFrame DEF StartCallback, NiRegisterUnavailable, FailTo, Step, Goto,
     WorkersOK, StoreOK
<1>2. CASE ResetMaps(w)
  <2>1. /\ pc[w] = "reset" /\ pc'[w] = "strategy"
        /\ intents' = [intents EXCEPT ![c] = NoChildren]
        /\ key' = key /\ mg' = mg /\ nodeInfo' = nodeInfo
        /\ \A v \in Workers \ {w} : pc'[v] = pc[v] /\ todo'[v] = todo[v]
    BY <1>2 DEF ResetMaps, Step, Goto, WorkersOK, StoreOK
  <2>2. /\ intents'[c] = NoChildren
        /\ \A v \in Workers \ {w} : FindsIntent(v)'
    BY <2>1, IntentOwn DEF ConfigOK
  <2>3. FindsIntent(w)'
    BY <2>1, <2>2 DEF FindsIntent
  <2>. QED BY <2>2, <2>3 DEF IntentInv
<1>3. CASE GetAllocationStrategy(w) \/ CreateNiRegister(w) \/ CreateDone(w) \/ GetNiRegister(w)
  <2>1. /\ pc[w] \in {"strategy", "create", "collect"}
        /\ pc'[w] \in {"strategy", "create", "collect"}
        /\ UNCHANGED <<intents, key, mg, nodeInfo>>
        /\ \A v \in Workers \ {w} : pc'[v] = pc[v] /\ todo'[v] = todo[v]
    BY <1>3 DEF GetAllocationStrategy, CreateNiRegister, CreateDone, GetNiRegister, Step, Goto,
       WorkersOK, StoreOK
  <2>. QED BY <2>1 DEF IntentInv, FindsIntent
<1>4. CASE GatherNodeInfo(w)
  <2>1. pc[w] = "collect" /\ pc'[w] = "populate" /\ todo'[w] = mg[w].spec
    BY <1>4 DEF GatherNodeInfo, Goto, WorkersOK, StoreOK
  <2>2. UNCHANGED <<intents, key, mg>>
    BY <1>4 DEF GatherNodeInfo
  <2>3. \A v \in Workers \ {w} :
          pc'[v] = pc[v] /\ todo'[v] = todo[v] /\ nodeInfo'[v] = nodeInfo[v]
    BY <1>4 DEF GatherNodeInfo, Goto, WorkersOK, StoreOK
  <2>4. intents'[key'[w]] = Desired(mg'[w].spec \ todo'[w], nodeInfo'[w])
    BY <2>1, <2>2, DesiredEmpty DEF IntentInv, FindsIntent
  <2>. QED BY <2>1, <2>2, <2>3, <2>4 DEF IntentInv, FindsIntent
<1>5. CASE PopulateNi(w)
  <2>. DEFINE x(ni) == [n \in Nodes |-> intents[c][n] \cup ChildrenOf(ni, nodeInfo[w])[n]]
  <2>1. pc[w] = "populate"
    BY <1>5 DEF PopulateNi
  <2>2. PICK ni \in todo[w] : /\ intents' = [intents EXCEPT ![c] = x(ni)]
                              /\ Step(w, "populate", todo[w] \ {ni})
    BY <1>5 DEF PopulateNi, NextOf
  <2>3. /\ pc'[w] = "populate" /\ todo'[w] = todo[w] \ {ni}
        /\ UNCHANGED <<key, mg, nodeInfo>>
        /\ \A v \in Workers \ {w} : pc'[v] = pc[v] /\ todo'[v] = todo[v]
    BY <2>2 DEF Step, Goto, WorkersOK, StoreOK
  <2>4. mg[w].spec \in SUBSET Nis /\ todo[w] \in SUBSET mg[w].spec
    BY <2>1, MgFacts DEF StoreOK
  <2>5. x(ni) = Desired(mg[w].spec \ (todo[w] \ {ni}), nodeInfo[w])
    <3>1. intents[c] = Desired(mg[w].spec \ todo[w], nodeInfo[w])
      BY <2>1 DEF IntentInv, FindsIntent
    <3>2. \A n \in Nodes :
            Desired(mg[w].spec \ (todo[w] \ {ni}), nodeInfo[w])[n]
              = Desired(mg[w].spec \ todo[w], nodeInfo[w])[n] \cup ChildrenOf(ni, nodeInfo[w])[n]
      BY <2>2, <2>4 DEF Desired, ChildrenOf
    <3>. QED BY <3>1, <3>2 DEF Desired
  <2>6. /\ intents'[c] = x(ni)
        /\ \A v \in Workers \ {w} : FindsIntent(v)'
    BY <2>1, <2>2, <2>3, IntentOwn DEF ConfigOK
  <2>. QED BY <2>3, <2>5, <2>6 DEF IntentInv, FindsIntent
<1>. QED BY <1>1, <1>2, <1>3, <1>4, <1>5 DEF Populate

\* Update, FinalUpdate and Timeout leave the intents of the others alone.
LEMMA IntentNextUpdate ==
  ASSUME WorkersOK, StoreOK, ConfigOK, IntentInv, NEW w \in Workers, Update(w)
  PROVE  IntentInv'
<1>1. CASE ListAndValidate(w) \/ RemoveStale(w) \/ RemoveDone(w) \/ Deploy(w)
  <2>1. /\ UNCHANGED <<intents, key, mg, nodeInfo>>
        /\ \A v \in Workers \ {w} : pc'[v] = pc[v] /\ todo'[v] = todo[v]
        /\ pc'[w] \in {"remove", "deploy"}
    BY <1>1 DEF ListAndValidate, RemoveStale, RemoveDone, Deploy, Step, Goto, WorkersOK, StoreOK
  <2>2. intents[key[w]] = Desired(mg[w].spec, nodeInfo[w])
    <3>1. CASE Populated(w)
      <4>1. mg[w].spec \ todo[w] = mg[w].spec
        BY <3>1 DEF Populated
      <4>. QED BY <3>1, <4>1 DEF Populated, IntentInv, FindsIntent
    <3>2. CASE pc[w] \in {"remove", "deploy"}
      BY <3>2 DEF IntentInv, FindsIntent
    <3>. QED BY <1>1, <3>1, <3>2 DEF ListAndValidate, RemoveStale, RemoveDone, Deploy
  <2>. QED BY <2>1, <2>2 DEF IntentInv, FindsIntent
<1>2. CASE FinalUpdate(w)
  <2>1. /\ pc[w] # "idle" /\ pc'[w] = "timeout" /\ UNCHANGED <<key, mg, nodeInfo>>
        /\ intents' = [intents EXCEPT ![key[w]] = Nil]
        /\ \A v \in Workers \ {w} : pc'[v] = pc[v] /\ todo'[v] = todo[v]
    BY <1>2 DEF FinalUpdate, Step, Goto, WorkersOK, StoreOK
  <2>2. \A v \in Workers \ {w} : FindsIntent(v)'
    BY <2>1, IntentOwn DEF ConfigOK
  <2>. QED BY <2>1, <2>2 DEF IntentInv, FindsIntent
<1>3. CASE Relist(w) \/ TimeoutRead(w) \/ TimeoutIncrement(w)
  BY <1>3, IntentFrame DEF Relist, TimeoutRead, TimeoutIncrement, Step, Goto, WorkersOK, StoreOK
<1>. QED BY <1>1, <1>2, <1>3 DEF Update

\* Every step keeps what every worker finds in the intents map.
LEMMA IntentNext ==
  WorkersOK /\ StoreOK /\ ConfigOK /\ IntentInv /\ [Next]_vars => IntentInv'
<1>. SUFFICES ASSUME WorkersOK, StoreOK, ConfigOK, IntentInv, [Next]_vars PROVE IntentInv'
  OBVIOUS
<1>1. ASSUME NEW w \in Workers, Reconcile(w) PROVE IntentInv'
  <2>1. CASE Dequeue(w) \/ GetAbsent(w) \/ GetManaged(w) \/ Done(w)
    BY <2>1, IntentFrame DEF Dequeue, GetAbsent, GetManaged, Done, Release, Goto, WorkersOK, StoreOK
  <2>2. CASE Populate(w)
    BY <2>2, IntentNextPopulate
  <2>3. CASE Update(w)
    BY <2>3, IntentNextUpdate
  <2>4. CASE FinalDelete(w)
    BY <2>4, IntentFrame DEF FinalDelete, BeginDestroy, Destroy, ForgetSpeedy,
       RemoveFinalizerFirst, RemoveFinalizerLast, Step, Release, Goto, WorkersOK, StoreOK
  <2>. QED BY <1>1, <2>1, <2>2, <2>3, <2>4 DEF Reconcile
<1>2. ASSUME NEW w \in Workers, ApiError(w) \/ DestroyError(w) PROVE IntentInv'
  BY <1>2, IntentFrame DEF ApiError, DestroyError, FailTo, Step, Goto, WorkersOK, StoreOK
<1>3. ASSUME Restart \/ ConcurrentMapFatal PROVE IntentInv'
  BY <1>3 DEF Restart, ConcurrentMapFatal, FreshProcess, IntentInv, FindsIntent
<1>4. ASSUME UNCHANGED <<intents, workerVars>> PROVE IntentInv'
  BY <1>4 DEF workerVars, IntentInv, FindsIntent
<1>5. (\E c \in Vpcs : FireTimer(c)) \/ Watch \/ WatchListError \/ Environment \/ Registry
        \/ UNCHANGED vars => UNCHANGED <<intents, workerVars>>
  BY DEF FireTimer, Watch, WatchList, WatchReset, WatchAdd, WatchListError, Environment,
     CreateVpc, EditVpc, DeleteVpc, SaveCr, ChangeTopology, LoseDevice, Registry, AllocateNi,
     CollectRegister, vars
<1>. QED BY <1>1, <1>2, <1>3, <1>4, <1>5 DEF Next, Fault

\* A write of the device keeps the type if what is written has it.
LEMMA SaveDeviceType ==
  ASSUME ConfigOK, NEW c \in Vpcs, NEW n \in Nodes, NEW value \in SUBSET Nis,
         SaveDevice(c, n, value)
  PROVE  device' \in [Vpcs -> Children]
<1>1. device' = [device EXCEPT ![c] = [device[c] EXCEPT ![n] = value]]
  BY DEF SaveDevice
<1>2. [device[c] EXCEPT ![n] = value] \in Children
  BY ChildrenFacts DEF ConfigOK
<1>. QED BY <1>1, <1>2 DEF ConfigOK

\* What a worker deletes or deploys is in the range of the intent.
LEMMA ConfigReconcile ==
  ASSUME WorkersOK, StoreOK, ConfigOK, IntentInv, NEW w \in Workers, Reconcile(w)
  PROVE  ConfigOK'
<1>. DEFINE c == key[w]
<1>1. pc[w] # "idle" => c \in Vpcs
  BY DEF WorkersOK
<1>2. CASE Dequeue(w) \/ GetAbsent(w) \/ GetManaged(w) \/ Done(w)
  BY <1>2 DEF Dequeue, GetAbsent, GetManaged, Done, apiVars, ConfigOK
<1>3. CASE StartCallback(w) \/ TimeoutIncrement(w) \/ ForgetSpeedy(w)
  <2>1. speedy' \in [Vpcs -> Int]
    BY <1>1, <1>3 DEF StartCallback, TimeoutIncrement, ForgetSpeedy, InitSpeedy,
       IncrementSpeedy, DeleteSpeedy, NoEntry, ConfigOK
  <2>. QED BY <1>3, <2>1 DEF StartCallback, TimeoutIncrement, ForgetSpeedy, apiVars, ConfigOK
<1>4. CASE ResetMaps(w) \/ FinalUpdate(w)
  BY <1>1, <1>4, ChildrenFacts DEF ResetMaps, FinalUpdate, apiVars, ConfigOK
<1>5. CASE PopulateNi(w)
  <2>1. PICK ni \in todo[w] : intents' = [intents EXCEPT ![c] =
            [n \in Nodes |-> intents[c][n] \cup ChildrenOf(ni, nodeInfo[w])[n]]]
    BY <1>5 DEF PopulateNi, NextOf
  <2>2. ni \in Nis
    BY <1>5, <2>1, MgFacts DEF PopulateNi, StoreOK
  <2>3. intents[c] \in Children
    <3>1. mg[w].spec \ todo[w] \in SUBSET Nis
      BY MgFacts DEF StoreOK
    <3>2. intents[c] = Desired(mg[w].spec \ todo[w], nodeInfo[w])
      BY <1>5 DEF PopulateNi, IntentInv, FindsIntent
    <3>. QED BY <3>1, <3>2, ChildrenFacts
  <2>4. [n \in Nodes |-> intents[c][n] \cup ChildrenOf(ni, nodeInfo[w])[n]] \in Children
    BY <2>2, <2>3 DEF Children, ChildrenOf
  <2>. QED BY <1>5, <2>1, <2>4 DEF PopulateNi, apiVars, ConfigOK
<1>6. CASE RemoveStale(w) \/ Destroy(w)
  <2>1. PICK n \in todo[w] : SaveDevice(c, n, {})
    BY <1>6 DEF RemoveStale, Destroy
  <2>2. c \in Vpcs /\ n \in Nodes
    BY <1>1, <1>6, <2>1 DEF RemoveStale, Destroy, StoreOK
  <2>. QED BY <1>6, <2>1, <2>2, SaveDeviceType DEF RemoveStale, Destroy, ConfigOK
<1>7. CASE Deploy(w)
  <2>1. PICK n \in todo[w] : SaveDevice(c, n, intents[c][n])
    BY <1>7 DEF Deploy
  <2>2. c \in Vpcs /\ n \in Nodes
    BY <1>1, <1>7, <2>1 DEF Deploy, StoreOK
  <2>3. intents[c][n] \in SUBSET Nis
    BY <1>7, <2>2, MgFacts, ChildrenFacts DEF Deploy, IntentInv, FindsIntent, StoreOK
  <2>. QED BY <1>7, <2>1, <2>2, <2>3, SaveDeviceType DEF Deploy, ConfigOK
<1>8. UNCHANGED <<device, intents, speedy>> => ConfigOK'
  BY DEF ConfigOK
<1>. QED
  BY <1>2, <1>3, <1>4, <1>5, <1>6, <1>7, <1>8 DEF Reconcile, Populate, Update, FinalDelete,
     GetAllocationStrategy, CreateNiRegister, CreateDone, GetNiRegister,
     NiRegisterUnavailable, GatherNodeInfo, FailTo, ListAndValidate, RemoveDone, Relist,
     TimeoutRead, BeginDestroy, RemoveFinalizerFirst, RemoveFinalizerLast, apiVars

\* Every step keeps the types of devices, intents and stages.
LEMMA ConfigNext ==
  WorkersOK /\ QueueOK /\ StoreOK /\ ConfigOK /\ IntentInv /\ [Next]_vars => ConfigOK'
<1>. SUFFICES ASSUME WorkersOK, QueueOK, StoreOK, ConfigOK, IntentInv, [Next]_vars
     PROVE  ConfigOK'
  OBVIOUS
<1>1. ASSUME NEW w \in Workers, Reconcile(w) PROVE ConfigOK'
  BY <1>1, ConfigReconcile
<1>2. ASSUME NEW c \in Vpcs, WatchReset(c) PROVE ConfigOK'
  BY <1>2 DEF WatchReset, ResetSpeedy, NoEntry, apiVars, ConfigOK
<1>3. ASSUME Restart \/ ConcurrentMapFatal PROVE ConfigOK'
  BY <1>3 DEF Restart, ConcurrentMapFatal, FreshProcess, NoEntry, apiVars, ConfigOK
<1>4. ASSUME NEW c \in Vpcs, NEW n \in Nodes, LoseDevice(c, n) PROVE ConfigOK'
  BY <1>4, SaveDeviceType DEF LoseDevice, ConfigOK
<1>5. UNCHANGED <<device, intents, speedy>> => ConfigOK'
  BY DEF ConfigOK
<1>. QED
  BY <1>1, <1>2, <1>3, <1>4, <1>5 DEF Next, FireTimer, Watch, WatchList, WatchAdd, Fault,
     ApiError, DestroyError, FailTo, WatchListError, Environment, CreateVpc, EditVpc,
     DeleteVpc, SaveCr, ChangeTopology, Registry, AllocateNi, CollectRegister, vars, apiVars

-----------------------------------------------------------------------------
\* Every variable holds what the code can store in it, and every worker finds
\* its own intent in the shared map; the two are inductive together.
LEMMA TypeAndIntent == Spec => [](TypeOK /\ IntentInv)
<1>1. Init => TypeOK /\ IntentInv
  BY WorkersInit, QueueInit, StoreInit, ConfigInit DEF TypeOK
<1>2. TypeOK /\ IntentInv /\ [Next]_vars => (TypeOK /\ IntentInv)'
  BY WorkersNext, QueueNext, StoreNext, ConfigNext, IntentNext DEF TypeOK
<1>. QED BY <1>1, <1>2, PTL DEF Spec

\* Type correctness of the controller, for every set of vpcs, workers and nodes.
THEOREM TypeCorrect == Spec => []TypeOK
BY TypeAndIntent, PTL

\* Where the shared intents map is read, every worker finds the complete intent
\* of its own spec and nodes, for any number of workers.
THEOREM IntentCorrect == Spec => []IntentIsOwn
<1>1. TypeOK /\ IntentInv => IntentIsOwn
  <2>. SUFFICES ASSUME TypeOK, IntentInv, NEW w \in Workers,
                       Populated(w) \/ pc[w] \in {"remove", "deploy"}
       PROVE  intents[key[w]] = Desired(mg[w].spec, nodeInfo[w])
    BY DEF IntentIsOwn
  <2>1. todo[w] = {} => mg[w].spec \ todo[w] = mg[w].spec
    OBVIOUS
  <2>. QED BY <2>1 DEF IntentInv, FindsIntent, Populated
<1>. QED BY <1>1, TypeAndIntent, PTL

-----------------------------------------------------------------------------
\* A step of w that does not touch the stages of the keys of the other workers.
LEMMA StageStep ==
  ASSUME WorkersOK, StageInv, NEW w \in Workers, pc[w] # "idle",
         NEW s \in NoEntry..3, speedy' = [speedy EXCEPT ![key[w]] = s], speedy \in [Vpcs -> Int],
         \A v \in Workers \ {w} : pc'[v] = pc[v] /\ key'[v] = key[v],
         pc'[w] # "increment"
  PROVE  StageInv'
<1>1. key[w] \in Vpcs /\ \A v \in Workers \ {w} : key[v] # key[w]
  BY DEF WorkersOK
<1>2. \A v \in Workers \ {w} : pc'[v] = "increment" => speedy'[key'[v]] = speedy[key[v]]
  BY <1>1
<1>. QED BY <1>1, <1>2 DEF StageInv

\* The steps of a worker keep the stages within 3.
LEMMA StageReconcile ==
  ASSUME WorkersOK, StoreOK, ConfigOK, StageInv, NEW w \in Workers, Reconcile(w)
  PROVE  StageInv'
<1>. DEFINE c == key[w]
<1>1. pc[w] # "idle" => c \in Vpcs /\ speedy[c] \in NoEntry..3
  BY DEF WorkersOK, StageInv
<1>2. CASE StartCallback(w)
  <2>1. /\ pc[w] # "idle" /\ pc'[w] # "increment"
        /\ speedy' = [speedy EXCEPT ![c] = IF speedy[c] = NoEntry THEN 0 ELSE speedy[c]]
        /\ \A v \in Workers \ {w} : pc'[v] = pc[v] /\ key'[v] = key[v]
    BY <1>2 DEF StartCallback, InitSpeedy, Step, Goto, WorkersOK
  <2>2. (IF speedy[c] = NoEntry THEN 0 ELSE speedy[c]) \in NoEntry..3
    BY <1>1, <2>1 DEF NoEntry
  <2>. QED BY <2>1, <2>2, StageStep DEF ConfigOK
<1>3. CASE TimeoutIncrement(w)
  <2>1. /\ pc[w] = "increment" /\ pc'[w] # "increment"
        /\ speedy' = [speedy EXCEPT ![c] = IF speedy[c] = NoEntry THEN NoEntry
                                           ELSE speedy[c] + 1]
        /\ \A v \in Workers \ {w} : pc'[v] = pc[v] /\ key'[v] = key[v]
    BY <1>3 DEF TimeoutIncrement, IncrementSpeedy, Step, Goto, WorkersOK
  <2>2. (IF speedy[c] = NoEntry THEN NoEntry ELSE speedy[c] + 1) \in NoEntry..3
    BY <1>1, <2>1 DEF NoEntry, StageInv
  <2>. QED BY <2>1, <2>2, StageStep DEF ConfigOK
<1>4. CASE ForgetSpeedy(w)
  <2>1. /\ pc[w] # "idle" /\ pc'[w] # "increment"
        /\ speedy' = [speedy EXCEPT ![c] = NoEntry]
        /\ \A v \in Workers \ {w} : pc'[v] = pc[v] /\ key'[v] = key[v]
    BY <1>4 DEF ForgetSpeedy, DeleteSpeedy, Step, Release, Goto, WorkersOK
  <2>2. NoEntry \in NoEntry..3
    BY DEF NoEntry
  <2>. QED BY <2>1, <2>2, StageStep DEF ConfigOK
<1>5. CASE TimeoutRead(w)
  <2>1. pc'[w] = "increment" => speedy[c] <= 2
    BY <1>1, <1>5 DEF TimeoutRead, Goto, GetSpeedy, NoEntry, WorkersOK
  <2>. QED BY <1>5, <2>1 DEF TimeoutRead, Goto, WorkersOK, StageInv
<1>6. ASSUME UNCHANGED speedy, pc'[w] # "increment",
             \A v \in Workers \ {w} : pc'[v] = pc[v] /\ key'[v] = key[v]
      PROVE  StageInv'
  BY <1>6 DEF StageInv
<1>7. CASE Dequeue(w) \/ GetAbsent(w) \/ GetManaged(w) \/ Done(w)
  BY <1>6, <1>7 DEF Dequeue, GetAbsent, GetManaged, Done, Release, Goto, WorkersOK
<1>8. CASE Populate(w) /\ ~StartCallback(w)
  BY <1>6, <1>8 DEF Populate, ResetMaps, GetAllocationStrategy, CreateNiRegister,
     CreateDone, GetNiRegister, NiRegisterUnavailable, GatherNodeInfo, PopulateNi, FailTo,
     Step, Goto, WorkersOK
<1>9. CASE Update(w) /\ ~TimeoutRead(w) /\ ~TimeoutIncrement(w)
  BY <1>6, <1>9 DEF Update, ListAndValidate, RemoveStale, RemoveDone, Deploy, Relist,
     FinalUpdate, Step, Goto, WorkersOK
<1>10. CASE FinalDelete(w) /\ ~ForgetSpeedy(w)
  BY <1>6, <1>10 DEF FinalDelete, BeginDestroy, Destroy, RemoveFinalizerFirst,
     RemoveFinalizerLast, Release, Step, Goto, WorkersOK
<1>. QED BY <1>2, <1>3, <1>4, <1>5, <1>7, <1>8, <1>9, <1>10 DEF Reconcile, Populate, Update, FinalDelete

\* Every step does: the watch only lowers a stage.
LEMMA StageNext ==
  WorkersOK /\ StoreOK /\ ConfigOK /\ StageInv /\ [Next]_vars => StageInv'
<1>. SUFFICES ASSUME WorkersOK, StoreOK, ConfigOK, StageInv, [Next]_vars PROVE StageInv'
  OBVIOUS
<1>1. ASSUME NEW w \in Workers, Reconcile(w) PROVE StageInv'
  BY <1>1, StageReconcile
<1>2. ASSUME NEW w \in Workers, ApiError(w) \/ DestroyError(w) PROVE StageInv'
  BY <1>2 DEF ApiError, DestroyError, FailTo, Step, Goto, WorkersOK, StageInv
<1>3. ASSUME NEW c \in Vpcs, WatchReset(c) PROVE StageInv'
  BY <1>3 DEF WatchReset, ResetSpeedy, workerVars, NoEntry, ConfigOK, WorkersOK, StageInv
<1>4. ASSUME Restart \/ ConcurrentMapFatal PROVE StageInv'
  BY <1>4 DEF Restart, ConcurrentMapFatal, FreshProcess, NoEntry, StageInv
<1>5. UNCHANGED <<speedy, workerVars>> => StageInv'
  BY DEF workerVars, StageInv
<1>. QED
  BY <1>1, <1>2, <1>3, <1>4, <1>5 DEF Next, FireTimer, Watch, WatchList, WatchAdd, Fault,
     WatchListError, Environment, CreateVpc, EditVpc, DeleteVpc, SaveCr, ChangeTopology,
     LoseDevice, Registry, AllocateNi, CollectRegister, vars

\* The stage never passes 3, although Timeout reads and increments it in two
\* critical sections.
THEOREM SpeedyCorrect == Spec => []SpeedyBounded
<1>1. Init => StageInv
  BY DEF Init, SpeedyInit, NoEntry, StageInv
<1>2. TypeOK /\ StageInv /\ [Next]_vars => StageInv'
  BY StageNext DEF TypeOK
<1>3. StageInv => SpeedyBounded
  <2>. \A x \in NoEntry..3 : x <= 3
    BY DEF NoEntry
  <2>. QED BY DEF StageInv, SpeedyBounded
<1>. QED BY <1>1, <1>2, <1>3, TypeCorrect, PTL DEF Spec

-----------------------------------------------------------------------------
\* What w relies on is left alone by a step that changes neither its position nor,
\* under its key, the intent, and that changes its devices only by emptying one.
LEMMA CleansUpFrame ==
  ASSUME NEW w \in Workers, CleansUp(w),
         pc'[w] = pc[w], key'[w] = key[w], todo'[w] = todo[w],
         pc[w] \in {"remove", "deploy"} =>
           /\ intents'[key[w]] = intents[key[w]]
           /\ \A n \in Nodes : device'[key[w]][n] \in {{}, device[key[w]][n]}
  PROVE  CleansUp(w)'
BY DEF CleansUp

\* The other workers do not notice a step of w.
LEMMA CleansUpOthers ==
  ASSUME WorkersOK, StaleInv, NEW w \in Workers, pc[w] # "idle",
         \A c \in Vpcs \ {key[w]} : intents'[c] = intents[c] /\ device'[c] = device[c],
         NEW v \in Workers \ {w}, pc'[v] = pc[v], key'[v] = key[v], todo'[v] = todo[v]
  PROVE  CleansUp(v)'
<1>1. CleansUp(v)
  BY DEF StaleInv
<1>2. pc[v] \in {"remove", "deploy"} => key[v] \in Vpcs \ {key[w]}
  <2>1. v \in Workers /\ v # w
    OBVIOUS
  <2>. QED BY <2>1 DEF WorkersOK
<1>3. pc[v] \in {"remove", "deploy"} =>
        intents'[key[v]] = intents[key[v]] /\ device'[key[v]] = device[key[v]]
  BY <1>2
<1>4. pc[v] \in {"remove", "deploy"} =>
        /\ intents'[key[v]] = intents[key[v]]
        /\ \A n \in Nodes : device'[key[v]][n] \in {{}, device[key[v]][n]}
  BY <1>3
<1>. QED BY <1>1, <1>4, CleansUpFrame

\* The loops of Update empty what the intent does not name and write what it does.
LEMMA StaleUpdate ==
  ASSUME WorkersOK, StoreOK, ConfigOK, StaleInv, NEW w \in Workers,
         ListAndValidate(w) \/ RemoveStale(w) \/ RemoveDone(w) \/ Deploy(w)
  PROVE  CleansUp(w)'
<1>. DEFINE c == key[w]
<1>1. c \in Vpcs /\ CleansUp(w)
  BY DEF WorkersOK, StaleInv, ListAndValidate, RemoveStale, RemoveDone, Deploy, Populated
<1>2. CASE ListAndValidate(w)
  <2>1. /\ pc'[w] = "remove" /\ UNCHANGED <<key, intents, device>>
        /\ todo'[w] = WithChild(device[c]) \ WithChild(intents[c])
    BY <1>2 DEF ListAndValidate, Step, Goto, apiVars, WorkersOK, StoreOK
  <2>. QED BY <2>1 DEF CleansUp, WithChild
<1>3. CASE RemoveStale(w)
  <2>1. PICK n \in todo[w] : SaveDevice(c, n, {}) /\ Step(w, "remove", todo[w] \ {n})
    BY <1>3 DEF RemoveStale
  <2>2. /\ pc[w] = "remove" /\ pc'[w] = "remove" /\ UNCHANGED <<key, intents>>
        /\ todo'[w] = todo[w] \ {n}
    BY <1>3, <2>1 DEF RemoveStale, Step, Goto, WorkersOK, StoreOK
  <2>3. \A m \in Nodes : device'[c][m] = IF m = n THEN {} ELSE device[c][m]
    BY <1>1, <2>1 DEF SaveDevice, ConfigOK, Children
  <2>. QED BY <1>1, <2>2, <2>3 DEF CleansUp
<1>4. CASE RemoveDone(w)
  <2>1. /\ pc[w] = "remove" /\ todo[w] = {} /\ pc'[w] = "deploy"
        /\ UNCHANGED <<key, intents, device>>
        /\ todo'[w] = WithChild(intents[c])
    BY <1>4 DEF RemoveDone, Step, Goto, apiVars, WorkersOK, StoreOK
  <2>. QED BY <1>1, <2>1 DEF CleansUp, WithChild
<1>5. CASE Deploy(w)
  <2>1. PICK n \in todo[w] :
          SaveDevice(c, n, intents[c][n]) /\ Step(w, "deploy", todo[w] \ {n})
    BY <1>5 DEF Deploy
  <2>2. /\ pc[w] = "deploy" /\ pc'[w] = "deploy" /\ UNCHANGED <<key, intents>>
        /\ todo'[w] = todo[w] \ {n}
    BY <1>5, <2>1 DEF Deploy, Step, Goto, WorkersOK, StoreOK
  <2>3. \A m \in Nodes : device'[c][m] = IF m = n THEN intents[c][n] ELSE device[c][m]
    BY <1>1, <2>1 DEF SaveDevice, ConfigOK, Children
  <2>. QED BY <1>1, <2>2, <2>3 DEF CleansUp
<1>. QED BY <1>2, <1>3, <1>4, <1>5

\* The steps of a worker keep this for all workers.
LEMMA StaleReconcile ==
  ASSUME WorkersOK, StoreOK, ConfigOK, StaleInv, NEW w \in Workers, Reconcile(w)
  PROVE  StaleInv'
<1>1. \A v \in Workers \ {w} : pc'[v] = pc[v] /\ key'[v] = key[v] /\ todo'[v] = todo[v]
  <2>. USE DEF Step, Goto, WorkersOK, StoreOK
  <2>1. CASE Dequeue(w) \/ GetAbsent(w) \/ GetManaged(w) \/ Done(w)
    BY <2>1 DEF Dequeue, GetAbsent, GetManaged, Done, Release
  <2>2. CASE Populate(w)
    BY <2>2 DEF Populate, StartCallback, ResetMaps, GetAllocationStrategy, CreateNiRegister,
       CreateDone, GetNiRegister, NiRegisterUnavailable, GatherNodeInfo, PopulateNi, FailTo
  <2>3. CASE Update(w)
    BY <2>3 DEF Update, ListAndValidate, RemoveStale, RemoveDone, Deploy, Relist,
       FinalUpdate, TimeoutRead, TimeoutIncrement
  <2>4. CASE FinalDelete(w)
    BY <2>4 DEF FinalDelete, BeginDestroy, Destroy, ForgetSpeedy, RemoveFinalizerFirst,
       RemoveFinalizerLast, Release
  <2>. QED BY <2>1, <2>2, <2>3, <2>4 DEF Reconcile
<1>2. \A c \in Vpcs \ {key[w]} : intents'[c] = intents[c] /\ device'[c] = device[c]
  BY DEF Reconcile, Dequeue, GetAbsent, GetManaged, Done, Populate, StartCallback,
     ResetMaps, GetAllocationStrategy, CreateNiRegister, CreateDone, GetNiRegister,
     NiRegisterUnavailable, GatherNodeInfo, PopulateNi, FailTo, Update, ListAndValidate,
     RemoveStale, RemoveDone, Deploy, Relist, FinalUpdate, TimeoutRead, TimeoutIncrement,
     FinalDelete, BeginDestroy, Destroy, ForgetSpeedy, RemoveFinalizerFirst,
     RemoveFinalizerLast, SaveDevice, apiVars, ConfigOK
<1>3. CASE Dequeue(w)
  BY <1>1, <1>3 DEF Dequeue, Goto, apiVars, WorkersOK, StaleInv, CleansUp
<1>4. CASE ~Dequeue(w)
  <2>1. pc[w] # "idle"
    BY <1>4 DEF Reconcile, Dequeue, GetAbsent, GetManaged, Done, Populate, StartCallback,
       ResetMaps, GetAllocationStrategy, CreateNiRegister, CreateDone, GetNiRegister,
       NiRegisterUnavailable, GatherNodeInfo, PopulateNi, Update, ListAndValidate,
       RemoveStale, RemoveDone, Deploy, Relist, FinalUpdate, TimeoutRead, TimeoutIncrement,
       FinalDelete, BeginDestroy, Destroy, ForgetSpeedy, RemoveFinalizerFirst,
       RemoveFinalizerLast, Populated
  <2>2. CleansUp(w)'
    <3>1. CASE ListAndValidate(w) \/ RemoveStale(w) \/ RemoveDone(w) \/ Deploy(w)
      BY <3>1, StaleUpdate
    <3>2. CASE pc'[w] \notin {"remove", "deploy"}
      BY <3>2 DEF CleansUp
    <3>. QED
      BY <1>4, <3>1, <3>2 DEF Reconcile, GetAbsent, GetManaged, Done, Release,
         Populate, StartCallback, ResetMaps, GetAllocationStrategy, CreateNiRegister,
         CreateDone, GetNiRegister, NiRegisterUnavailable, GatherNodeInfo, PopulateNi,
         FailTo, Update, Relist, FinalUpdate, TimeoutRead, TimeoutIncrement, FinalDelete,
         BeginDestroy, Destroy, ForgetSpeedy, RemoveFinalizerFirst, RemoveFinalizerLast,
         Step, Goto, WorkersOK
  <2>. QED BY <1>1, <1>2, <2>1, <2>2, CleansUpOthers DEF StaleInv
<1>. QED BY <1>3, <1>4

\* So does every step: others change a device of this vpc only by emptying it.
LEMMA StaleNext ==
  WorkersOK /\ StoreOK /\ ConfigOK /\ StaleInv /\ [Next]_vars => StaleInv'
<1>. SUFFICES ASSUME WorkersOK, StoreOK, ConfigOK, StaleInv, [Next]_vars PROVE StaleInv'
  OBVIOUS
<1>1. ASSUME NEW w \in Workers, Reconcile(w) PROVE StaleInv'
  BY <1>1, StaleReconcile
<1>2. ASSUME NEW w \in Workers, ApiError(w) \/ DestroyError(w) PROVE StaleInv'
  <2>1. /\ UNCHANGED <<intents, device, key>>
        /\ \A v \in Workers \ {w} : pc'[v] = pc[v] /\ todo'[v] = todo[v]
    BY <1>2 DEF ApiError, DestroyError, FailTo, Step, Goto, apiVars, WorkersOK, StoreOK
  <2>2. pc'[w] \notin {"remove", "deploy"}
    BY <1>2 DEF ApiError, DestroyError, FailTo, Step, Goto, WorkersOK
  <2>. QED BY <2>1, <2>2 DEF StaleInv, CleansUp
<1>3. ASSUME Restart \/ ConcurrentMapFatal PROVE StaleInv'
  BY <1>3 DEF Restart, ConcurrentMapFatal, FreshProcess, StaleInv, CleansUp
<1>4. ASSUME NEW c \in Vpcs, NEW n \in Nodes, LoseDevice(c, n) PROVE StaleInv'
  <2>1. \A b \in Vpcs, m \in Nodes : device'[b][m] \in {{}, device[b][m]}
    BY <1>4 DEF LoseDevice, SaveDevice, ConfigOK, Children
  <2>2. \A w \in Workers : pc[w] \in {"remove", "deploy"} => key[w] \in Vpcs
    BY DEF WorkersOK
  <2>. QED BY <1>4, <2>1, <2>2, CleansUpFrame DEF LoseDevice, workerVars, StaleInv
<1>5. UNCHANGED <<intents, device, workerVars>> => StaleInv'
  BY DEF workerVars, StaleInv, CleansUp
<1>. QED
  BY <1>1, <1>2, <1>3, <1>4, <1>5 DEF Next, FireTimer, Watch, WatchList, WatchReset, WatchAdd,
     Fault, WatchListError, Environment, CreateVpc, EditVpc, DeleteVpc, SaveCr,
     ChangeTopology, Registry, AllocateNi, CollectRegister, vars, apiVars

\* The loops of Update clean up in every state.
LEMMA StaleInvariant == Spec => []StaleInv
<1>1. Init => StaleInv
  BY DEF Init, StaleInv, CleansUp
<1>2. TypeOK /\ StaleInv /\ [Next]_vars => StaleInv'
  BY StaleNext DEF TypeOK
<1>. QED BY <1>1, <1>2, TypeCorrect, PTL DEF Spec

\* An Update that reaches its last List has left nothing of an earlier spec or an
\* earlier topology on any node.
THEOREM NoStaleCorrect == Spec => []NoStaleConfig
<1>1. StaleInv => NoStaleConfig
  BY DEF StaleInv, CleansUp, NoStaleConfig
<1>. QED BY <1>1, StaleInvariant, PTL
=============================================================================
