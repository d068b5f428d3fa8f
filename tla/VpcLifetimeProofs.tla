------------------------- MODULE VpcLifetimeProofs -------------------------
(***************************************************************************)
(* What VpcController guarantees over the life of a vpc, from its creation *)
(* to what its deletion leaves behind, for every set of vpcs, workers,     *)
(* network instances and nodes and every bound.                            *)
(*                                                                         *)
(* All rests on KeptInv: the finalizer keeps a resource in the store until *)
(* the worker that holds its key takes it out.  So the registry keeps the  *)
(* registers (IndexInv), a stage is in use or forgotten (LeakInv), a reset *)
(* of the stage is not slept through (WakeInv), and nobody writes a device *)
(* that FinalDelete has removed (DestroyInv).                              *)
(***************************************************************************)
EXTENDS VpcControllerProofs

-----------------------------------------------------------------------------
(* The workers do not meddle with each other                                *)

WorkerStep(w) == Reconcile(w) \/ ApiError(w) \/ DestroyError(w)

\* What a step of w leaves of the others.
OthersWait(w) ==
  \A v \in Workers \ {w} :
    /\ pc'[v] = pc[v] /\ key'[v] = key[v] /\ mg'[v] = mg[v]
    /\ nodeInfo'[v] = nodeInfo[v] /\ todo'[v] = todo[v] /\ wait'[v] = wait[v]

\* No step of a worker moves another one.
LEMMA WorkersApart ==
  ASSUME TypeOK, NEW w \in Workers, WorkerStep(w)
  PROVE  OthersWait(w)
<1>. USE DEF TypeOK, WorkersOK, StoreOK, QueueOK, OthersWait, Step, Goto
<1>1. CASE Dequeue(w) \/ GetAbsent(w) \/ GetManaged(w) \/ Done(w)
  BY <1>1 DEF Dequeue, GetAbsent, GetManaged, Done, Release
<1>2. CASE Populate(w)
  BY <1>2 DEF Populate, StartCallback, ResetMaps, GetAllocationStrategy, CreateNiRegister,
     CreateDone, GetNiRegister, NiRegisterUnavailable, GatherNodeInfo, PopulateNi, FailTo
<1>3. CASE Update(w)
  BY <1>3 DEF Update, ListAndValidate, RemoveStale, RemoveDone, Deploy, Relist,
     FinalUpdate, TimeoutRead, TimeoutIncrement
<1>4. CASE FinalDelete(w)
  BY <1>4 DEF FinalDelete, BeginDestroy, Destroy, ForgetSpeedy, RemoveFinalizerFirst,
     RemoveFinalizerLast, Release
<1>5. CASE ApiError(w) \/ DestroyError(w)
  BY <1>5 DEF ApiError, DestroyError, FailTo
<1>. QED BY <1>1, <1>2, <1>3, <1>4, <1>5 DEF WorkerStep, Reconcile

\* A worker touches nothing that belongs to another vpc, and nothing without a key.
LEMMA OwnVpc ==
  ASSUME TypeOK, NEW w \in Workers, WorkerStep(w), ~Dequeue(w)
  PROVE  /\ pc[w] # "idle" /\ key[w] \in Vpcs
         /\ \A v \in Workers \ {w} : key[v] # key[w]
         /\ \A c \in Vpcs \ {key[w]} :
              /\ cr'[c] = cr[c] /\ registers'[c] = registers[c] /\ device'[c] = device[c]
              /\ intents'[c] = intents[c] /\ speedy'[c] = speedy[c]
              /\ delayed'[c] = delayed[c]
         /\ UNCHANGED <<dirty, notify, current>>
<1>1. pc[w] # "idle"
  BY DEF WorkerStep, ApiCalls, Reconcile, GetAbsent, GetManaged, Done, Populate,
     StartCallback, ResetMaps, GetAllocationStrategy, CreateNiRegister, CreateDone,
     GetNiRegister, NiRegisterUnavailable, GatherNodeInfo, PopulateNi, Update,
     ListAndValidate, RemoveStale, RemoveDone, Deploy, Relist, FinalUpdate, TimeoutRead,
     TimeoutIncrement, FinalDelete, BeginDestroy, Destroy, ForgetSpeedy, Populated,
     RemoveFinalizerFirst, RemoveFinalizerLast, ApiError, DestroyError
<1>2. key[w] \in Vpcs /\ \A v \in Workers \ {w} : key[v] # key[w]
  BY <1>1, ConstantsAssumption DEF TypeOK, WorkersOK
<1>3. \A c \in Vpcs \ {key[w]} :
        /\ cr'[c] = cr[c] /\ registers'[c] = registers[c] /\ device'[c] = device[c]
        /\ intents'[c] = intents[c]
  BY DEF TypeOK, StoreOK, ConfigOK, WorkerStep, Reconcile, GetAbsent, GetManaged, Done,
     Populate, StartCallback, ResetMaps, GetAllocationStrategy, CreateNiRegister, CreateDone,
     GetNiRegister, NiRegisterUnavailable, GatherNodeInfo, PopulateNi, FailTo, Update,
     ListAndValidate, RemoveStale, RemoveDone, Deploy, Relist, FinalUpdate, TimeoutRead,
     TimeoutIncrement, FinalDelete, BeginDestroy, Destroy, ForgetSpeedy, SaveDevice,
     RemoveFinalizerFirst, RemoveFinalizerLast, ApiError, DestroyError, apiVars
<1>4. /\ \A c \in Vpcs \ {key[w]} : speedy'[c] = speedy[c] /\ delayed'[c] = delayed[c]
      /\ UNCHANGED <<dirty, notify, current>>
  BY DEF TypeOK, QueueOK, ConfigOK, WorkerStep, Reconcile, GetAbsent, GetManaged, Done,
     Populate, StartCallback, ResetMaps, GetAllocationStrategy, CreateNiRegister, CreateDone,
     GetNiRegister, NiRegisterUnavailable, GatherNodeInfo, PopulateNi, FailTo, Update,
     ListAndValidate, RemoveStale, RemoveDone, Deploy, Relist, FinalUpdate, TimeoutRead,
     TimeoutIncrement, FinalDelete, BeginDestroy, Destroy, ForgetSpeedy, InitSpeedy,
     IncrementSpeedy, DeleteSpeedy, RemoveFinalizerFirst, RemoveFinalizerLast, ApiError,
     DestroyError, queueVars, watchVars
<1>. QED BY <1>1, <1>2, <1>3, <1>4

-----------------------------------------------------------------------------
(* The finalizer                                                            *)

\* A step that does not touch the resource, of a worker that already was to keep it.
LEMMA KeptStep ==
  ASSUME NEW w \in Workers, IsKept(w), UNCHANGED <<cr, key, mg>>,
         mg[w].gone => pc'[w] = "destroy",
         pc[w] \in {"idle", "get", "done"} => pc'[w] \in {"idle", "get", "done"}
  PROVE  IsKept(w)'
BY DEF IsKept

\* The worker that gets a resource or takes it out keeps track of it.
LEMMA KeptWorker ==
  ASSUME TypeOK, KeptInv, NEW w \in Workers, WorkerStep(w)
  PROVE  /\ IsKept(w)'
         /\ \A c \in Vpcs : cr'[c].finalizer => cr'[c].phase # "absent"
<1>. DEFINE c == key[w]
            Present == \A b \in Vpcs : cr'[b].finalizer => cr'[b].phase # "absent"
<1>1. IsKept(w) /\ (cr' = cr => Present) /\ cr \in [Vpcs -> CrType]
  BY DEF KeptInv, TypeOK, StoreOK
<1>2. CASE GetManaged(w)
  <2>1. /\ c \in Vpcs /\ pc'[w] = "start" /\ key' = key /\ ~mg'[w].gone
        /\ cr[c].phase # "absent" /\ cr' = [cr EXCEPT ![c].finalizer = TRUE]
    BY <1>2 DEF GetManaged, Goto, TypeOK, WorkersOK, StoreOK
  <2>2. cr'[c].phase = cr[c].phase /\ cr'[c].finalizer
    BY <1>1, <2>1 DEF CrType
  <2>. QED BY <1>1, <2>1, <2>2 DEF IsKept, KeptInv
<1>3. CASE RemoveFinalizerFirst(w) \/ RemoveFinalizerLast(w)
  <2>1. /\ c \in Vpcs /\ cr' = [cr EXCEPT ![c] = AbsentCr]
        /\ pc'[w] = "destroy" \/ pc'[w] = "idle"
    BY <1>3 DEF RemoveFinalizerFirst, RemoveFinalizerLast, Populated, Release, Goto, TypeOK,
       WorkersOK
  <2>2. Present
    BY <1>1, <2>1 DEF AbsentCr, KeptInv
  <2>3. IF pc'[w] = "destroy" THEN mg'[w].gone ELSE ~mg'[w].gone
    <3>1. CASE RemoveFinalizerFirst(w)
      BY <3>1 DEF RemoveFinalizerFirst, Goto, TypeOK, WorkersOK, StoreOK, MgType
    <3>2. CASE RemoveFinalizerLast(w)
      BY <3>2 DEF RemoveFinalizerLast, Release, Goto, TypeOK, WorkersOK, StoreOK, NoMg
    <3>. QED BY <1>3, <3>1, <3>2
  <2>. QED BY <2>1, <2>2, <2>3 DEF IsKept
<1>4. CASE GetAbsent(w) \/ Done(w) \/ (ForgetSpeedy(w) /\ mg[w].gone)
  <2>1. pc'[w] = "idle" /\ ~mg'[w].gone /\ cr' = cr
    BY <1>4 DEF GetAbsent, Done, ForgetSpeedy, Release, Goto, apiVars, TypeOK, WorkersOK,
       StoreOK, NoMg
  <2>. QED BY <1>1, <2>1 DEF IsKept
<1>5. CASE Dequeue(w)
  <2>1. pc[w] = "idle" /\ pc'[w] = "get" /\ cr' = cr /\ mg' = mg
    BY <1>5 DEF Dequeue, Goto, apiVars, TypeOK, WorkersOK
  <2>. QED BY <1>1, <2>1 DEF IsKept
<1>6. CASE \/ Populate(w) \/ Update(w) \/ BeginDestroy(w) \/ Destroy(w) \/ ApiError(w)
           \/ DestroyError(w) \/ (ForgetSpeedy(w) /\ ~mg[w].gone)
  <2>1. UNCHANGED <<cr, key, mg>>
    BY <1>6 DEF Populate, StartCallback, ResetMaps, GetAllocationStrategy, CreateNiRegister,
       CreateDone, GetNiRegister, NiRegisterUnavailable, GatherNodeInfo, PopulateNi, FailTo,
       Update, ListAndValidate, RemoveStale, RemoveDone, Deploy, Relist, FinalUpdate,
       TimeoutRead, TimeoutIncrement, BeginDestroy, Destroy, ForgetSpeedy, ApiError,
       DestroyError, Step, apiVars
  <2>2. /\ pc[w] = "destroy" /\ mg[w].gone => pc'[w] = "destroy"
        /\ pc[w] \in {"idle", "get", "done"} => pc'[w] \in {"idle", "get", "done"}
    BY <1>6 DEF ApiCalls, Populate, StartCallback, ResetMaps, GetAllocationStrategy,
       CreateNiRegister, CreateDone, GetNiRegister, NiRegisterUnavailable, GatherNodeInfo,
       PopulateNi, FailTo, Update, ListAndValidate, RemoveStale, RemoveDone, Deploy, Relist,
       FinalUpdate, TimeoutRead, TimeoutIncrement, BeginDestroy, Destroy, ForgetSpeedy,
       Populated, ApiError, DestroyError, Step, Goto, TypeOK, WorkersOK
  <2>3. IsKept(w)'
    BY <1>1, <2>1, <2>2, KeptStep DEF IsKept
  <2>. QED BY <1>1, <2>1, <2>3
<1>. QED BY <1>2, <1>3, <1>4, <1>5, <1>6 DEF WorkerStep, Reconcile, FinalDelete

\* Users neither add nor remove a finalizer, and take no resource that has one.
LEMMA UsersKeep ==
  ASSUME TypeOK, KeptInv, Environment
  PROVE  \A c \in Vpcs : /\ cr'[c].finalizer = cr[c].finalizer
                         /\ cr'[c].finalizer => cr'[c].phase # "absent"
<1>. DEFINE Keeps(c) == /\ cr'[c].finalizer = cr[c].finalizer
                        /\ cr'[c].finalizer => cr'[c].phase # "absent"
<1>1. cr \in [Vpcs -> CrType] /\ \A c \in Vpcs : cr[c].finalizer => cr[c].phase # "absent"
  BY DEF TypeOK, StoreOK, KeptInv
<1>2. ASSUME NEW b \in Vpcs, CreateVpc(b) \/ EditVpc(b) \/ DeleteVpc(b)
      PROVE  \A c \in Vpcs : Keeps(c)
  <2>. DEFINE old == cr[b]
  <2>1. old \in CrType /\ (old.finalizer => old.phase # "absent")
    BY <1>1
  <2>2. CASE CreateVpc(b)
    <3>1. PICK s \in SUBSET Nis : cr' = [cr EXCEPT ![b] = LiveCr(s)] /\ old.phase = "absent"
      BY <2>2 DEF CreateVpc, SaveCr
    <3>2. ~old.finalizer
      BY <2>1, <3>1
    <3>3. old.finalizer = FALSE
      BY <2>1, <3>2 DEF CrType
    <3>. QED BY <1>1, <3>1, <3>3 DEF LiveCr
  <2>3. CASE EditVpc(b)
    <3>1. PICK s \in SUBSET Nis : cr' = [cr EXCEPT ![b] = [old EXCEPT !.spec = s]]
      BY <2>3 DEF EditVpc, SaveCr
    <3>. QED BY <1>1, <2>1, <3>1 DEF CrType
  <2>4. CASE DeleteVpc(b) /\ old.finalizer
    <3>1. cr' = [cr EXCEPT ![b] = [old EXCEPT !.phase = "deleting"]]
      BY <2>4 DEF DeleteVpc, SaveCr
    <3>. QED BY <1>1, <2>1, <3>1 DEF CrType
  <2>5. CASE DeleteVpc(b) /\ ~old.finalizer
    <3>1. cr' = [cr EXCEPT ![b] = AbsentCr]
      BY <2>5 DEF DeleteVpc, SaveCr
    <3>2. old.finalizer = FALSE
      BY <2>1, <2>5 DEF CrType
    <3>. QED BY <1>1, <3>1, <3>2 DEF AbsentCr
  <2>. QED BY <1>2, <2>2, <2>3, <2>4, <2>5
<1>3. cr' = cr => \A c \in Vpcs : Keeps(c)
  BY <1>1
<1>. QED BY <1>2, <1>3 DEF Environment, ChangeTopology, LoseDevice

\* No step of others moves a worker.
LEMMA EnvironmentApart == ASSUME Environment PROVE UNCHANGED workerVars
BY DEF Environment, CreateVpc, EditVpc, DeleteVpc, SaveCr, ChangeTopology, LoseDevice,
   workerVars

\* Where no worker moves and no finalizer or resource with one changes, KeptInv holds on.
LEMMA KeptFrame ==
  ASSUME WorkersOK, KeptInv, UNCHANGED workerVars,
         \A c \in Vpcs : /\ cr'[c].finalizer = cr[c].finalizer
                         /\ cr'[c].finalizer => cr'[c].phase # "absent"
  PROVE  KeptInv'
<1>1. ASSUME NEW w \in Workers PROVE IsKept(w)'
  <2>1. pc[w] # "idle" => key[w] \in Vpcs
    BY DEF WorkersOK
  <2>. QED BY <2>1 DEF KeptInv, IsKept, workerVars
<1>. QED BY <1>1 DEF KeptInv

\* Every step keeps the finalizer until the worker of the key removes the resource.
LEMMA KeptNext == TypeOK /\ KeptInv /\ [Next]_vars => KeptInv'
<1>. SUFFICES ASSUME TypeOK, KeptInv, [Next]_vars PROVE KeptInv'
  OBVIOUS
<1>1. ASSUME NEW w \in Workers, WorkerStep(w) PROVE KeptInv'
  <2>1. OthersWait(w) /\ IsKept(w)' /\ \A c \in Vpcs : cr'[c].finalizer => cr'[c].phase # "absent"
    BY <1>1, WorkersApart, KeptWorker
  <2>2. ASSUME NEW v \in Workers \ {w} PROVE IsKept(v)'
    <3>1. pc[v] # "idle" => cr'[key[v]] = cr[key[v]]
      <4>1. CASE Dequeue(w)
        BY <4>1 DEF Dequeue, apiVars
      <4>2. CASE ~Dequeue(w)
        <5>1. pc[v] # "idle" => key[v] \in Vpcs \ {key[w]}
          BY <1>1, <4>2, OwnVpc DEF TypeOK, WorkersOK
        <5>. QED BY <1>1, <4>2, <5>1, OwnVpc
      <4>. QED BY <4>1, <4>2
    <3>. QED BY <2>1, <3>1 DEF OthersWait, KeptInv, IsKept
  <2>. QED BY <2>1, <2>2 DEF KeptInv
<1>2. ASSUME Restart \/ ConcurrentMapFatal PROVE KeptInv'
  BY <1>2 DEF Restart, ConcurrentMapFatal, FreshProcess, apiVars, KeptInv, IsKept, NoMg
<1>3. Environment => KeptInv'
  BY UsersKeep, EnvironmentApart, KeptFrame DEF TypeOK
<1>4. UNCHANGED <<cr, workerVars>> => KeptInv'
  BY KeptFrame DEF TypeOK, KeptInv
<1>. QED
  BY <1>1, <1>2, <1>3, <1>4 DEF Next, WorkerStep, FireTimer, Watch, WatchList, WatchReset,
     WatchAdd, Fault, WatchListError, Registry, AllocateNi, CollectRegister, vars, apiVars

\* The finalizer is where it must be in every state.
LEMMA KeptInvariant == Spec => [](TypeOK /\ IntentInv /\ KeptInv)
<1>1. Init => KeptInv
  <2>1. \A r \in StoredCrs : r.finalizer => r.phase # "absent"
    BY DEF StoredCrs, AbsentCr, LiveCr
  <2>. QED BY <2>1 DEF Init, KeptInv, IsKept, NoMg
<1>. QED BY <1>1, KeptNext, TypeAndIntent, PTL DEF Spec

-----------------------------------------------------------------------------
(* The indexes of the network instances                                     *)

\* A worker that has seen the indexes it needs, or does not need them yet.
Seen(w) == pc[w] = "collect" \/ Writing(w) => HasIndexes(w)

\* A step keeps what a worker has seen if it takes no index from that vpc, and the worker
\* looks up nothing new, or stops to need it.
LEMMA SeenFrame ==
  ASSUME NEW w \in Workers, Seen(w), UNCHANGED <<key, mg>>,
         \A ni \in mg[w].spec : registers[key[w]][ni] = "ready" =>
                                registers'[key[w]][ni] = "ready",
         \/ pc'[w] = pc[w] /\ todo'[w] = todo[w]
         \/ Writing(w) /\ pc'[w] # "collect"
         \/ ~Writing(w)' /\ pc'[w] # "collect"
  PROVE  Seen(w)'
BY DEF Seen, HasIndexes, Writing

\* The steps of a worker.
LEMMA SeenWorker ==
  ASSUME TypeOK, NEW w \in Workers, Seen(w), WorkerStep(w)
  PROVE  Seen(w)'
<1>. DEFINE c == key[w]
<1>1. CASE GetNiRegister(w)
  <2>1. PICK ni \in todo[w] : /\ registers[c][ni] = "ready"
                              /\ Step(w, "collect", todo[w] \ {ni})
    BY <1>1 DEF GetNiRegister, NextOf
  <2>2. /\ pc[w] = "collect" /\ pc'[w] = "collect" /\ todo'[w] = todo[w] \ {ni}
        /\ UNCHANGED <<registers, key, mg>>
    BY <1>1, <2>1 DEF GetNiRegister, Step, Goto, apiVars, TypeOK, WorkersOK, StoreOK
  <2>. QED BY <2>1, <2>2 DEF Seen, HasIndexes, Writing
<1>2. CASE CreateDone(w)
  <2>1. pc'[w] = "collect" /\ todo'[w] = mg'[w].spec
    BY <1>2 DEF CreateDone, Step, Goto, TypeOK, WorkersOK, StoreOK
  <2>. QED BY <2>1 DEF Seen, HasIndexes, Writing
<1>3. CASE GatherNodeInfo(w)
  <2>1. /\ pc[w] = "collect" /\ todo[w] = {} /\ pc'[w] = "populate"
        /\ UNCHANGED <<registers, key, mg>>
    BY <1>3 DEF GatherNodeInfo, Goto, apiVars, TypeOK, WorkersOK
  <2>. QED BY <2>1 DEF Seen, HasIndexes, Writing
<1>4. CASE \/ PopulateNi(w) \/ ListAndValidate(w) \/ RemoveStale(w) \/ RemoveDone(w)
           \/ Deploy(w)
  <2>1. /\ pc[w] \in {"populate", "remove", "deploy"}
        /\ pc'[w] \in {"populate", "remove", "deploy"} /\ UNCHANGED <<registers, key, mg>>
    BY <1>4 DEF PopulateNi, ListAndValidate, RemoveStale, RemoveDone, Deploy, Populated,
       Step, Goto, apiVars, TypeOK, WorkersOK
  <2>. QED BY <2>1, SeenFrame DEF Writing
<1>5. CASE BeginDestroy(w) \/ Destroy(w) \/ DestroyError(w)
  <2>1. /\ pc[w] \in {"populate", "destroy"} /\ pc'[w] = "destroy"
        /\ UNCHANGED <<registers, key, mg>>
    BY <1>5 DEF BeginDestroy, Populated, Destroy, DestroyError, Step, Goto, apiVars, TypeOK,
       WorkersOK
  <2>2. Writing(w) \/ ~Writing(w)'
    BY <2>1 DEF Writing
  <2>. QED BY <2>1, <2>2, SeenFrame
<1>6. CASE RemoveFinalizerFirst(w)
  <2>1. pc'[w] = "destroy" /\ mg'[w].gone
    BY <1>6 DEF RemoveFinalizerFirst, Goto, TypeOK, WorkersOK, StoreOK, MgType
  <2>. QED BY <2>1 DEF Seen, Writing
<1>7. CASE \/ Dequeue(w) \/ GetAbsent(w) \/ GetManaged(w) \/ Done(w) \/ StartCallback(w)
           \/ ResetMaps(w) \/ GetAllocationStrategy(w) \/ CreateNiRegister(w)
           \/ NiRegisterUnavailable(w) \/ Relist(w) \/ FinalUpdate(w) \/ TimeoutRead(w)
           \/ TimeoutIncrement(w) \/ ForgetSpeedy(w) \/ RemoveFinalizerLast(w)
           \/ ApiError(w)
  <2>1. pc'[w] \notin {"collect", "populate", "remove", "deploy", "destroy"}
    BY <1>7 DEF Dequeue, GetAbsent, GetManaged, Done, Release, StartCallback, ResetMaps,
       GetAllocationStrategy, CreateNiRegister, NiRegisterUnavailable, FailTo, Relist,
       FinalUpdate, TimeoutRead, TimeoutIncrement, ForgetSpeedy, RemoveFinalizerLast,
       ApiError, Step, Goto, TypeOK, WorkersOK
  <2>. QED BY <2>1 DEF Seen, Writing
<1>. QED
  BY <1>1, <1>2, <1>3, <1>4, <1>5, <1>6, <1>7 DEF WorkerStep, Reconcile, Populate, Update, FinalDelete

\* Every step: the registry collects no register of a vpc that is being populated.
LEMMA IndexNext == TypeOK /\ KeptInv /\ IndexInv /\ [Next]_vars => IndexInv'
<1>. SUFFICES ASSUME TypeOK, KeptInv, \A w \in Workers : Seen(w), [Next]_vars
     PROVE  \A w \in Workers : Seen(w)'
  BY DEF IndexInv, Seen
<1>1. ASSUME NEW w \in Workers, WorkerStep(w) PROVE \A v \in Workers : Seen(v)'
  <2>1. ASSUME NEW v \in Workers \ {w} PROVE Seen(v)'
    <3>1. CASE pc[v] = "idle"
      BY <1>1, <3>1, WorkersApart DEF OthersWait, Seen, Writing
    <3>2. CASE pc[v] # "idle" /\ ~Dequeue(w)
      <4>1. key[v] \in Vpcs \ {key[w]}
        BY <1>1, <3>2, OwnVpc DEF TypeOK, WorkersOK
      <4>. QED BY <1>1, <3>2, <4>1, OwnVpc, WorkersApart DEF OthersWait, Seen, HasIndexes, Writing
    <3>3. CASE Dequeue(w)
      BY <1>1, <3>3, WorkersApart DEF OthersWait, Seen, HasIndexes, Writing, Dequeue,
         apiVars
    <3>. QED BY <3>1, <3>2, <3>3
  <2>. QED BY <1>1, <2>1, SeenWorker
<1>2. ASSUME NEW b \in Vpcs, NEW i \in Nis, AllocateNi(b, i) \/ CollectRegister(b, i),
             NEW w \in Workers, pc[w] = "collect" \/ Writing(w)
      PROVE  Seen(w)'
  <2>1. key[w] \in Vpcs /\ cr[key[w]].phase # "absent"
    BY <1>2 DEF TypeOK, WorkersOK, KeptInv, IsKept, Writing
  <2>2. \A ni \in Nis : registers[key[w]][ni] = "ready" => registers'[key[w]][ni] = "ready"
    BY <1>2, <2>1 DEF AllocateNi, CollectRegister, TypeOK, StoreOK
  <2>3. mg[w].spec \subseteq Nis
    BY DEF TypeOK, StoreOK, MgType
  <2>. QED BY <1>2, <2>2, <2>3 DEF AllocateNi, CollectRegister, workerVars, Seen, HasIndexes, Writing
<1>3. Registry => \A w \in Workers : Seen(w)'
  BY <1>2 DEF Registry, AllocateNi, CollectRegister, workerVars, Seen, Writing
<1>4. ASSUME Restart \/ ConcurrentMapFatal PROVE \A w \in Workers : Seen(w)'
  BY <1>4 DEF Restart, ConcurrentMapFatal, FreshProcess, Seen, Writing
<1>5. UNCHANGED <<registers, workerVars>> => \A w \in Workers : Seen(w)'
  BY DEF workerVars, Seen, HasIndexes, Writing
<1>. QED
  BY <1>1, <1>3, <1>4, <1>5 DEF Next, WorkerStep, FireTimer, Watch, WatchList, WatchReset,
     WatchAdd, Fault, WatchListError, Environment, CreateVpc, EditVpc, DeleteVpc, SaveCr,
     ChangeTopology, LoseDevice, vars, apiVars, workerVars

\* Nothing is populated, written or, while the finalizer is there, destroyed for a network
\* instance without an index, for any number of vpcs and workers: populate-srl.go may use
\* the index of every register.
THEOREM IndexCorrect == Spec => []IndexBeforeWrite
<1>1. Init => IndexInv
  BY DEF Init, IndexInv, Writing
<1>2. IndexInv => IndexBeforeWrite
  BY DEF IndexInv, HasIndexes, IndexBeforeWrite, Writing
<1>. QED BY <1>1, <1>2, IndexNext, KeptInvariant, PTL DEF Spec

-----------------------------------------------------------------------------
(* The stage of a vpc that is gone                                          *)

\* A worker that has just taken a key, or has dealt with it, destroys nothing.
LEMMA NotGone ==
  ASSUME TypeOK, KeptInv, NEW w \in Workers, pc[w] # "idle", ~mg[w].gone
  PROVE  ~Gone(key[w])
BY DEF TypeOK, WorkersOK, Gone

\* A step of w leaves the other vpcs as destroyed, or not, as they were.
LEMMA GoneApart ==
  ASSUME TypeOK, KeptInv, NEW w \in Workers, WorkerStep(w), NEW c \in Vpcs,
         Dequeue(w) \/ c # key[w]
  PROVE  Gone(c)' <=> Gone(c)
<1>1. OthersWait(w)
  BY WorkersApart
<1>2. CASE Dequeue(w)
  <2>1. pc[w] = "idle" /\ pc'[w] = "get" /\ mg' = mg
    BY <1>2 DEF Dequeue, Goto, TypeOK, WorkersOK
  <2>2. ~mg[w].gone
    BY <2>1 DEF KeptInv, IsKept
  <2>. QED BY <1>1, <2>1, <2>2 DEF Gone, OthersWait
<1>3. CASE ~Dequeue(w)
  <2>1. key'[w] \in {key[w], NoVpc} /\ c # NoVpc
    BY <1>3, ConstantsAssumption DEF WorkerStep, Reconcile, GetAbsent, GetManaged, Done,
       Release, Populate, StartCallback, ResetMaps, GetAllocationStrategy, CreateNiRegister,
       CreateDone, GetNiRegister, NiRegisterUnavailable, GatherNodeInfo, PopulateNi, FailTo,
       Update, ListAndValidate, RemoveStale, RemoveDone, Deploy, Relist, FinalUpdate,
       TimeoutRead, TimeoutIncrement, FinalDelete, BeginDestroy, Destroy, ForgetSpeedy,
       RemoveFinalizerFirst, RemoveFinalizerLast, ApiError, DestroyError, Step, TypeOK,
       WorkersOK
  <2>. QED BY <1>1, <1>3, <2>1 DEF Gone, OthersWait
<1>. QED BY <1>2, <1>3

\* What LeakInv says of one vpc.
Forgotten(c) == ~cr[c].finalizer => speedy[c] = NoEntry \/ Gone(c)

\* The vpc of the worker that moves is forgotten when it is out of the store.
LEMMA LeakWorker ==
  ASSUME TypeOK, KeptInv, LeakInv, NEW w \in Workers, WorkerStep(w), ~Dequeue(w),
         NEW c \in Vpcs, c = key[w]
  PROVE  /\ Forgotten(c)'
         /\ pc'[w] = "unfinalize" => speedy'[key'[w]] = NoEntry
<1>1. pc[w] # "idle" /\ IsKept(w) /\ speedy \in [Vpcs -> Int]
  BY OwnVpc DEF KeptInv, TypeOK, ConfigOK
<1>2. ~mg[w].gone /\ ~cr[c].finalizer => speedy[c] = NoEntry
  <2>1. ~mg[w].gone => ~Gone(c)
    BY <1>1, NotGone
  <2>. QED BY <2>1 DEF LeakInv
<1>3. CASE ForgetSpeedy(w)
  <2>1. speedy'[c] = NoEntry /\ key'[w] \in {c, NoVpc} /\ (pc'[w] = "idle" \/ key'[w] = c)
    BY <1>1, <1>3 DEF ForgetSpeedy, DeleteSpeedy, Release, Step, Goto, TypeOK, WorkersOK
  <2>. QED BY <2>1 DEF Forgotten
<1>4. CASE RemoveFinalizerFirst(w)
  <2>1. key' = key /\ mg'[w].gone /\ pc'[w] = "destroy"
    BY <1>4 DEF RemoveFinalizerFirst, Goto, TypeOK, WorkersOK, StoreOK, MgType
  <2>. QED BY <2>1 DEF Forgotten, Gone
<1>5. CASE RemoveFinalizerLast(w)
  <2>1. pc[w] = "unfinalize" /\ pc'[w] = "idle" /\ speedy' = speedy
    BY <1>5 DEF RemoveFinalizerLast, Release, Goto, TypeOK, WorkersOK
  <2>. QED BY <2>1 DEF Forgotten, LeakInv
<1>6. CASE GetManaged(w)
  <2>1. cr'[c].finalizer /\ pc'[w] = "start"
    BY <1>1, <1>6 DEF GetManaged, Goto, TypeOK, WorkersOK, StoreOK, CrType
  <2>. QED BY <2>1 DEF Forgotten
<1>7. CASE GetAbsent(w) \/ Done(w) \/ ApiError(w)
  <2>1. /\ UNCHANGED <<cr, speedy>> /\ pc'[w] # "unfinalize"
        /\ ~mg[w].gone
    BY <1>1, <1>7 DEF GetAbsent, Done, ApiError, FailTo, ApiCalls, Release, Goto, apiVars,
       IsKept, TypeOK, WorkersOK
  <2>. QED BY <1>2, <2>1 DEF Forgotten
<1>8. CASE Populate(w) \/ Update(w) \/ BeginDestroy(w)
  <2>1. /\ pc[w] \notin {"idle", "get", "done", "destroy"} /\ pc'[w] # "unfinalize"
        /\ cr' = cr
    BY <1>8 DEF Populate, StartCallback, ResetMaps, GetAllocationStrategy, CreateNiRegister,
       CreateDone, GetNiRegister, NiRegisterUnavailable, GatherNodeInfo, PopulateNi, FailTo,
       Update, ListAndValidate, RemoveStale, RemoveDone, Deploy, Relist, FinalUpdate,
       TimeoutRead, TimeoutIncrement, BeginDestroy, Populated, Step, Goto, apiVars, TypeOK,
       WorkersOK
  <2>. QED BY <1>1, <2>1 DEF IsKept, Forgotten
<1>9. CASE Destroy(w) \/ DestroyError(w)
  <2>1. /\ pc[w] = "destroy" /\ pc'[w] = "destroy" /\ UNCHANGED <<cr, key, mg>>
    BY <1>9 DEF Destroy, DestroyError, Step, Goto, apiVars, TypeOK, WorkersOK
  <2>. QED BY <1>1, <2>1 DEF IsKept, Forgotten, Gone
<1>. QED
  BY <1>3, <1>4, <1>5, <1>6, <1>7, <1>8, <1>9 DEF WorkerStep, Reconcile, FinalDelete

\* Every step forgets the stage of a vpc with its resource.
LEMMA LeakNext == TypeOK /\ KeptInv /\ LeakInv /\ [Next]_vars => LeakInv'
<1>. SUFFICES ASSUME TypeOK, KeptInv, LeakInv, [Next]_vars PROVE LeakInv'
  OBVIOUS
<1>1. ASSUME NEW w \in Workers, WorkerStep(w) PROVE LeakInv'
  <2>1. CASE Dequeue(w)
    <3>1. UNCHANGED <<cr, speedy>> /\ pc'[w] = "get"
      BY <2>1 DEF Dequeue, Goto, apiVars, TypeOK, WorkersOK
    <3>2. \A c \in Vpcs : Gone(c)' <=> Gone(c)
      BY <1>1, <2>1, GoneApart
    <3>. QED BY <1>1, <3>1, <3>2, WorkersApart DEF OthersWait, LeakInv
  <2>2. CASE ~Dequeue(w)
    <3>1. \A c \in Vpcs \ {key[w]} : Forgotten(c)'
      BY <1>1, <2>2, OwnVpc, GoneApart DEF Forgotten, LeakInv
    <3>2. ASSUME NEW v \in Workers \ {w}, pc'[v] = "unfinalize" PROVE speedy'[key'[v]] = NoEntry
      <4>1. pc[v] = "unfinalize" /\ key'[v] = key[v]
        BY <1>1, <3>2, WorkersApart DEF OthersWait
      <4>2. key[v] \in Vpcs \ {key[w]}
        BY <1>1, <2>2, <4>1, OwnVpc DEF TypeOK, WorkersOK
      <4>. QED BY <1>1, <2>2, <4>1, <4>2, OwnVpc DEF LeakInv
    <3>3. /\ \A c \in Vpcs : c = key[w] => Forgotten(c)'
          /\ pc'[w] = "unfinalize" => speedy'[key'[w]] = NoEntry
      BY <1>1, <2>2, OwnVpc, LeakWorker
    <3>4. \A c \in Vpcs : Forgotten(c)'
      BY <3>1, <3>3
    <3>. QED BY <3>2, <3>3, <3>4 DEF Forgotten, LeakInv
  <2>. QED BY <2>1, <2>2
<1>2. ASSUME NEW b \in Vpcs, WatchReset(b) PROVE LeakInv'
  <2>1. /\ UNCHANGED <<cr, workerVars>>
        /\ \A c \in Vpcs : speedy[c] = NoEntry => speedy'[c] = NoEntry
    BY <1>2 DEF WatchReset, ResetSpeedy, apiVars, TypeOK, ConfigOK
  <2>2. \A w \in Workers : pc[w] = "unfinalize" => key[w] \in Vpcs
    BY DEF TypeOK, WorkersOK
  <2>. QED BY <2>1, <2>2 DEF LeakInv, Gone, workerVars
<1>3. ASSUME Environment PROVE LeakInv'
  <2>1. UNCHANGED <<speedy, workerVars>> /\ \A c \in Vpcs : cr'[c].finalizer = cr[c].finalizer
    BY <1>3, UsersKeep DEF Environment, CreateVpc, EditVpc, DeleteVpc, SaveCr,
       ChangeTopology, LoseDevice, workerVars
  <2>. QED BY <2>1 DEF LeakInv, Gone, workerVars
<1>4. ASSUME Restart \/ ConcurrentMapFatal PROVE LeakInv'
  BY <1>4 DEF Restart, ConcurrentMapFatal, FreshProcess, LeakInv
<1>5. UNCHANGED <<cr, speedy, workerVars>> => LeakInv'
  BY DEF workerVars, LeakInv, Gone
<1>. QED
  BY <1>1, <1>2, <1>3, <1>4, <1>5 DEF Next, WorkerStep, FireTimer, Watch, WatchList, WatchAdd,
     Fault, WatchListError, Registry, AllocateNi, CollectRegister, vars, apiVars

\* LeakInv with the invariants it rests on.
LEMMA LeakInvariant == Spec => [](TypeOK /\ KeptInv /\ LeakInv)
<1>1. Init => LeakInv
  BY DEF Init, SpeedyInit, LeakInv
<1>. QED BY <1>1, LeakNext, KeptInvariant, PTL DEF Spec

\* No vpc that is gone leaves its stage in the map of the speedy handler, whichever of
\* FinalDelete and the removal of the finalizer comes first (speedy.go Delete).
THEOREM NoLeakCorrect == Spec => []NoSpeedyLeak
<1>1. KeptInv /\ LeakInv => NoSpeedyLeak
  BY DEF KeptInv, LeakInv, Gone, NoSpeedyLeak
<1>. QED BY <1>1, LeakInvariant, PTL

-----------------------------------------------------------------------------
(* The wait after a reset                                                   *)

Queued(c) == c \in dirty \/ current = c

\* What WakeInv says of one vpc and of one worker.
Woken(c) ==
  delayed[c] = 60 /\ speedy[c] \in 0..2 => Queued(c) \/ \E w \in Workers : key[w] = c

Awaits(w) ==
  /\ pc[w] = "increment" => wait[w] # 60
  /\ pc[w] = "done" /\ wait[w] = 60 /\ speedy[key[w]] \in 0..2 => Queued(key[w])

\* WakeInv is what they say together.
LEMMA WakeParts == WakeInv <=> (\A c \in Vpcs : Woken(c)) /\ (\A w \in Workers : Awaits(w))
BY DEF WakeInv, SlowPollWoken, Woken, Awaits, Queued

\* The worker that moves reads the stage and the wait together, and releases a key with
\* the long wait only if the stage was not reset or the key is queued.
LEMMA WakeWorker ==
  ASSUME TypeOK, KeptInv, StageInv, LeakInv, WakeInv, NEW w \in Workers, WorkerStep(w),
         ~Dequeue(w), NEW c \in Vpcs, c = key[w]
  PROVE  Woken(c)' /\ Awaits(w)'
<1>1. /\ pc[w] # "idle" /\ IsKept(w) /\ Awaits(w) /\ UNCHANGED <<dirty, current>>
      /\ speedy[c] \in NoEntry..3 /\ wait[w] \in {0, 1, 5, 60} /\ delayed[c] \in {0, 1, 5, 60}
  BY OwnVpc, WakeParts DEF KeptInv, TypeOK, QueueOK, StageInv
<1>2. ASSUME key' = key PROVE Woken(c)'
  BY <1>2 DEF Woken
<1>3. ASSUME speedy'[c] = NoEntry PROVE Woken(c)'
  <2>1. speedy'[c] \notin 0..2
    BY <1>3 DEF NoEntry
  <2>. QED BY <2>1 DEF Woken
<1>4. CASE GetAbsent(w)
  <2>1. speedy[c] = NoEntry
    <3>1. pc[w] = "get" /\ ~cr[c].finalizer
      BY <1>4 DEF GetAbsent, KeptInv
    <3>. QED BY <1>1, <3>1, NotGone DEF IsKept, LeakInv
  <2>2. speedy' = speedy /\ pc'[w] = "idle"
    BY <1>4 DEF GetAbsent, Release, Goto, TypeOK, WorkersOK
  <2>. QED BY <1>3, <2>1, <2>2 DEF Awaits
<1>5. CASE Done(w)
  <2>1. /\ pc[w] = "done" /\ pc'[w] = "idle" /\ speedy' = speedy
        /\ delayed'[c] = IF delayed[c] = 0 \/ wait[w] < delayed[c] THEN wait[w] ELSE delayed[c]
    BY <1>5 DEF Done, Release, Goto, TypeOK, WorkersOK, QueueOK
  <2>2. delayed'[c] = 60 => wait[w] = 60
    BY <1>1, <2>1
  <2>. QED BY <1>1, <2>1, <2>2 DEF Woken, Awaits, Queued
<1>6. CASE RemoveFinalizerLast(w)
  <2>1. pc[w] = "unfinalize" /\ pc'[w] = "idle" /\ speedy' = speedy
    BY <1>6 DEF RemoveFinalizerLast, Release, Goto, TypeOK, WorkersOK
  <2>. QED BY <1>3, <2>1 DEF LeakInv, Awaits
<1>7. CASE ForgetSpeedy(w)
  <2>1. speedy'[c] = NoEntry /\ pc'[w] \in {"idle", "unfinalize"}
    BY <1>7 DEF ForgetSpeedy, DeleteSpeedy, Release, Step, Goto, TypeOK, WorkersOK, ConfigOK
  <2>. QED BY <1>3, <2>1 DEF Awaits
<1>8. CASE TimeoutRead(w)
  <2>1. /\ key' = key /\ speedy' = speedy /\ wait'[w] = Backoff(GetSpeedy(c))
        /\ pc'[w] = IF GetSpeedy(c) <= 2 THEN "increment" ELSE "done"
    BY <1>8 DEF TimeoutRead, Goto, TypeOK, WorkersOK, QueueOK
  <2>2. CASE speedy[c] \in 0..2
    <3>1. wait'[w] # 60 /\ pc'[w] = "increment"
      BY <2>1, <2>2 DEF GetSpeedy, NoEntry, Backoff
    <3>. QED BY <1>2, <2>1, <3>1 DEF Awaits
  <2>3. CASE speedy[c] \notin 0..2
    <3>1. pc'[w] = "done"
      BY <1>1, <2>1, <2>3 DEF GetSpeedy, NoEntry
    <3>. QED BY <1>2, <2>1, <2>3, <3>1 DEF Awaits
  <2>. QED BY <2>2, <2>3
<1>9. CASE TimeoutIncrement(w)
  <2>1. key' = key /\ pc[w] = "increment" /\ pc'[w] = "done" /\ wait'[w] = wait[w]
    BY <1>9 DEF TimeoutIncrement, Step, Goto, TypeOK, WorkersOK
  <2>. QED BY <1>1, <1>2, <2>1 DEF Awaits
<1>10. CASE NiRegisterUnavailable(w) \/ ApiError(w)
  <2>1. key' = key /\ pc'[w] # "increment" /\ wait'[w] # 60
    BY <1>10 DEF NiRegisterUnavailable, ApiError, FailTo, Goto, TypeOK, WorkersOK, QueueOK
  <2>. QED BY <1>2, <2>1 DEF Awaits
<1>11. CASE \/ GetManaged(w)
            \/ Populate(w) /\ ~NiRegisterUnavailable(w)
            \/ Update(w) /\ ~TimeoutRead(w) /\ ~TimeoutIncrement(w)
            \/ BeginDestroy(w) \/ Destroy(w) \/ RemoveFinalizerFirst(w) \/ DestroyError(w)
  <2>1. key' = key /\ pc'[w] \notin {"increment", "done"}
    BY <1>11 DEF GetManaged, Populate, StartCallback, ResetMaps, GetAllocationStrategy,
       CreateNiRegister, CreateDone, GetNiRegister, GatherNodeInfo, PopulateNi, Update,
       ListAndValidate, RemoveStale, RemoveDone, Deploy, Relist, FinalUpdate, BeginDestroy,
       Destroy, RemoveFinalizerFirst, DestroyError, Step, Goto, TypeOK, WorkersOK
  <2>. QED BY <1>2, <2>1 DEF Awaits
<1>. QED
  BY <1>4, <1>5, <1>6, <1>7, <1>8, <1>9, <1>10, <1>11 DEF WorkerStep, Reconcile, Populate,
     Update, FinalDelete

\* A step that takes no key from the queue, arms no timer, sets no stage and moves no
\* worker.
LEMMA WakeFrame ==
  ASSUME WakeInv, UNCHANGED <<speedy, workerVars>>,
         \A c \in Vpcs : delayed'[c] \in {0, delayed[c]},
         \A c \in Vpcs : Queued(c) => Queued(c)', WorkersOK
  PROVE  WakeInv'
<1>1. \A w \in Workers : pc[w] # "idle" => key[w] \in Vpcs
  BY DEF WorkersOK
<1>2. ASSUME NEW c \in Vpcs PROVE Woken(c)'
  BY <1>2, WakeParts DEF Woken, workerVars
<1>3. ASSUME NEW w \in Workers PROVE Awaits(w)'
  BY <1>1, <1>3, WakeParts DEF Awaits, workerVars, Queued
<1>4. (WakeInv <=> (\A c \in Vpcs : Woken(c)) /\ (\A w \in Workers : Awaits(w)))'
  BY WakeParts, PTL
<1>. QED BY <1>2, <1>3, <1>4

\* Every step wakes up the vpc whose stage it resets.
LEMMA WakeNext ==
  TypeOK /\ KeptInv /\ StageInv /\ LeakInv /\ WakeInv /\ WorkersOK' /\ [Next]_vars => WakeInv'
<1>. SUFFICES ASSUME TypeOK, KeptInv, StageInv, LeakInv, WakeInv, WorkersOK', [Next]_vars
     PROVE  WakeInv'
  OBVIOUS
<1>. DEFINE Wakes == (\A c \in Vpcs : Woken(c)') /\ (\A w \in Workers : Awaits(w)')
<1>1. Wakes => WakeInv'
  <2>1. (WakeInv <=> (\A c \in Vpcs : Woken(c)) /\ (\A w \in Workers : Awaits(w)))'
    BY WakeParts, PTL
  <2>. QED BY <2>1
<1>2. ASSUME NEW w \in Workers, Dequeue(w) PROVE WakeInv'
  <2>1. PICK c \in dirty : dirty' = dirty \ {c} /\ key' = [key EXCEPT ![w] = c]
                           /\ \A v \in Workers : key[v] # c
    BY <1>2 DEF Dequeue
  <2>2. /\ UNCHANGED <<speedy, delayed, current, wait>> /\ pc[w] = "idle" /\ pc'[w] = "get"
        /\ OthersWait(w) /\ c \in Vpcs /\ key'[w] = c
    BY <1>2, <2>1, WorkersApart DEF Dequeue, Goto, watchVars, WorkerStep, Reconcile, TypeOK,
       WorkersOK, QueueOK
  <2>3. ASSUME NEW b \in Vpcs PROVE Woken(b)'
    <3>1. Woken(b)
      BY WakeParts
    <3>2. b # c => (Queued(b) => Queued(b)')
      BY <2>1, <2>2 DEF Queued
    <3>3. ASSUME NEW v \in Workers, key[v] = b PROVE key'[v] = b
      BY <2>2, <3>3, ConstantsAssumption DEF OthersWait, TypeOK, WorkersOK
    <3>. QED BY <2>2, <3>1, <3>2, <3>3 DEF Woken
  <2>4. ASSUME NEW v \in Workers PROVE Awaits(v)'
    <3>1. CASE v = w
      BY <2>2, <3>1 DEF Awaits
    <3>2. CASE v # w
      BY <2>1, <2>2, <3>2, WakeParts DEF Awaits, Queued, OthersWait
    <3>. QED BY <3>1, <3>2
  <2>. QED BY <1>1, <2>3, <2>4
<1>3. ASSUME NEW w \in Workers, WorkerStep(w), ~Dequeue(w) PROVE WakeInv'
  <2>1. OthersWait(w) /\ key[w] \in Vpcs /\ UNCHANGED <<dirty, current>>
    BY <1>3, WorkersApart, OwnVpc
  <2>2. Awaits(w)' /\ \A c \in Vpcs : c = key[w] => Woken(c)'
    BY <1>3, <2>1, WakeWorker
  <2>3. ASSUME NEW b \in Vpcs \ {key[w]} PROVE Woken(b)'
    <3>1. speedy'[b] = speedy[b] /\ delayed'[b] = delayed[b]
      BY <1>3, OwnVpc
    <3>2. ASSUME NEW v \in Workers, key[v] = b PROVE key'[v] = b
      BY <2>1, <3>2 DEF OthersWait
    <3>. QED BY <2>1, <3>1, <3>2, WakeParts DEF Woken, Queued
  <2>4. ASSUME NEW v \in Workers \ {w} PROVE Awaits(v)'
    <3>1. pc[v] # "idle" => speedy'[key[v]] = speedy[key[v]]
      BY <1>3, OwnVpc DEF TypeOK, WorkersOK
    <3>. QED BY <2>1, <3>1, WakeParts DEF Awaits, Queued, OthersWait
  <2>. QED BY <1>1, <2>2, <2>3, <2>4
<1>4. ASSUME NEW b \in Vpcs, WatchReset(b) PROVE WakeInv'
  <2>1. /\ current = NoVpc /\ current' = b /\ b # NoVpc
        /\ UNCHANGED <<dirty, delayed, workerVars>>
        /\ \A c \in Vpcs \ {b} : speedy'[c] = speedy[c]
    BY <1>4, ConstantsAssumption DEF WatchReset, ResetSpeedy, queueVars, TypeOK, ConfigOK
  <2>2. ASSUME NEW c \in Vpcs PROVE Woken(c)'
    BY <2>1, WakeParts, ConstantsAssumption DEF Woken, Queued, workerVars
  <2>3. ASSUME NEW w \in Workers PROVE Awaits(w)'
    <3>1. pc[w] # "idle" => key[w] \in Vpcs
      BY DEF TypeOK, WorkersOK
    <3>. QED BY <2>1, <3>1, WakeParts, ConstantsAssumption DEF Awaits, Queued, workerVars
  <2>. QED BY <1>1, <2>2, <2>3
<1>5. ASSUME Restart \/ ConcurrentMapFatal PROVE WakeInv'
  <2>1. /\ delayed' = [c \in Vpcs |-> 0] /\ pc' = [w \in Workers |-> "idle"]
    BY <1>5 DEF Restart, ConcurrentMapFatal, FreshProcess
  <2>. QED BY <1>1, <2>1 DEF Woken, Awaits
<1>6. ASSUME WatchList \/ WatchAdd \/ WatchListError \/ Environment \/ Registry
             \/ (\E c \in Vpcs : FireTimer(c)) \/ UNCHANGED vars
      PROVE  WakeInv'
  <2>1. /\ UNCHANGED <<speedy, workerVars>>
        /\ \A c \in Vpcs : delayed'[c] \in {0, delayed[c]}
    BY <1>6 DEF WatchList, WatchAdd, WatchListError, Environment, CreateVpc, EditVpc,
       DeleteVpc, SaveCr, ChangeTopology, LoseDevice, Registry, AllocateNi, CollectRegister,
       FireTimer, queueVars, workerVars, vars, TypeOK, QueueOK
  <2>2. \A c \in Vpcs : Queued(c) => Queued(c)'
    BY <1>6, ConstantsAssumption DEF WatchList, WatchAdd, WatchListError, Environment,
       CreateVpc, EditVpc, DeleteVpc, SaveCr, ChangeTopology, LoseDevice, Registry,
       AllocateNi, CollectRegister, FireTimer, queueVars, watchVars, vars, Queued
  <2>. QED BY <2>1, <2>2, WakeFrame DEF TypeOK
<1>. QED
  BY <1>2, <1>3, <1>4, <1>5, <1>6 DEF Next, WorkerStep, Watch, Fault

\* The stages with the invariants of the life of a vpc.
LEMMA StageAndLeak == Spec => [](TypeOK /\ KeptInv /\ LeakInv /\ StageInv)
<1>1. Init => StageInv
  BY DEF Init, SpeedyInit, NoEntry, StageInv
<1>2. TypeOK /\ StageInv /\ [Next]_vars => StageInv'
  BY StageNext DEF TypeOK
<1>. QED BY <1>1, <1>2, LeakInvariant, PTL DEF Spec

\* No vpc sleeps through the reset of its stage: watchnddasrldevices.go:91-95 resets, then
\* adds, between any two of the critical sections of Timeout and of its worker.
THEOREM WokenCorrect == Spec => []SlowPollWoken
<1>1. Init => WakeInv
  BY DEF Init, WakeInv, SlowPollWoken
<1>2. TypeOK /\ KeptInv /\ LeakInv /\ StageInv /\ WakeInv /\ TypeOK' /\ [Next]_vars => WakeInv'
  BY WakeNext DEF TypeOK
<1>3. WakeInv => SlowPollWoken
  BY DEF WakeInv
<1>. QED BY <1>1, <1>2, <1>3, StageAndLeak, PTL DEF Spec

-----------------------------------------------------------------------------
(* What Update leaves on the devices                                        *)

\* A device that is saved takes no event away, and one that is lost raises one.
LEMMA SavePasses ==
  ASSUME TypeOK, NEW c \in Vpcs, NEW n \in Nodes, NEW value, SaveDevice(c, n, value)
  PROVE  /\ passes > 0 => passes' > 0
         /\ device[c][n] # value => passes' > 0
<1>1. passes \in Nat /\ MaxPasses \in Nat \ {0}
  BY ConstantsAssumption DEF TypeOK, QueueOK
<1>2. /\ Calls(device[c][n], value) \in {0, 1, 2}
      /\ device[c][n] # value => Calls(device[c][n], value) # 0
  BY DEF Calls
<1>3. passes' = IF passes + Calls(device[c][n], value) > MaxPasses THEN MaxPasses
                ELSE passes + Calls(device[c][n], value)
  BY DEF SaveDevice
<1>. HIDE DEF Calls
<1>. QED BY <1>1, <1>2, <1>3

\* No step of a worker takes an event away.
LEMMA WorkerPasses ==
  ASSUME TypeOK, NEW w \in Workers, WorkerStep(w), passes > 0
  PROVE  passes' > 0
<1>1. CASE RemoveStale(w) \/ Deploy(w) \/ Destroy(w)
  <2>1. PICK n \in todo[w] : \E value : SaveDevice(key[w], n, value)
    BY <1>1 DEF RemoveStale, Deploy, Destroy
  <2>2. n \in Nodes /\ key[w] \in Vpcs
    BY <1>1 DEF RemoveStale, Deploy, Destroy, TypeOK, StoreOK, WorkersOK
  <2>. QED BY <2>1, <2>2, SavePasses
<1>2. CASE \/ Dequeue(w) \/ GetAbsent(w) \/ GetManaged(w) \/ Done(w) \/ Populate(w)
           \/ ApiError(w) \/ DestroyError(w)
  BY <1>2 DEF Dequeue, GetAbsent, GetManaged, Done, Populate, StartCallback, ResetMaps,
     GetAllocationStrategy, CreateNiRegister, CreateDone, GetNiRegister,
     NiRegisterUnavailable, GatherNodeInfo, PopulateNi, FailTo, ApiError, DestroyError,
     watchVars
<1>3. CASE \/ ListAndValidate(w) \/ RemoveDone(w) \/ Relist(w) \/ FinalUpdate(w)
           \/ TimeoutRead(w) \/ TimeoutIncrement(w)
           \/ BeginDestroy(w) \/ ForgetSpeedy(w) \/ RemoveFinalizerFirst(w)
           \/ RemoveFinalizerLast(w)
  BY <1>3 DEF ListAndValidate, RemoveDone, Relist, FinalUpdate, TimeoutRead,
     TimeoutIncrement, BeginDestroy, ForgetSpeedy, RemoveFinalizerFirst,
     RemoveFinalizerLast, watchVars
<1>. QED BY <1>1, <1>2, <1>3 DEF WorkerStep, Reconcile, Update, FinalDelete

\* A fault is counted.
LEMMA FaultCounted ==
  ASSUME TypeOK, faults' = 0, [Next]_vars
  PROVE  /\ faults = 0 /\ ~Restart /\ ~WatchListError
         /\ \A w \in Workers : ~ApiError(w) /\ ~DestroyError(w)
<1>1. faults \in Nat
  BY ConstantsAssumption DEF TypeOK, QueueOK
<1>2. ~Restart /\ ~WatchListError /\ \A w \in Workers : ~ApiError(w) /\ ~DestroyError(w)
  BY <1>1 DEF Restart, WatchListError, ApiError, DestroyError
<1>3. ASSUME NEW w \in Workers, Reconcile(w) PROVE faults' = faults
  <2>1. CASE Dequeue(w) \/ GetAbsent(w) \/ GetManaged(w) \/ Done(w) \/ Populate(w)
    BY <2>1 DEF Dequeue, GetAbsent, GetManaged, Done, Populate, StartCallback, ResetMaps,
       GetAllocationStrategy, CreateNiRegister, CreateDone, GetNiRegister,
       NiRegisterUnavailable, GatherNodeInfo, PopulateNi, bounds
  <2>2. CASE Update(w)
    BY <2>2 DEF Update, ListAndValidate, RemoveStale, RemoveDone, Deploy, Relist,
       FinalUpdate, TimeoutRead, TimeoutIncrement, bounds
  <2>3. CASE FinalDelete(w)
    BY <2>3 DEF FinalDelete, BeginDestroy, Destroy, ForgetSpeedy, RemoveFinalizerFirst,
       RemoveFinalizerLast, bounds
  <2>. QED BY <1>3, <2>1, <2>2, <2>3 DEF Reconcile
<1>4. Environment => faults' = faults
  BY DEF Environment, CreateVpc, EditVpc, DeleteVpc, SaveCr, ChangeTopology, LoseDevice,
     EnvStep
<1>5. \/ \E c \in Vpcs : FireTimer(c)
      \/ Watch \/ ConcurrentMapFatal \/ Registry \/ UNCHANGED vars
      => faults' = faults
  BY DEF FireTimer, Watch, WatchList, WatchReset, WatchAdd, ConcurrentMapFatal, Registry,
     AllocateNi, CollectRegister, bounds, vars
<1>. QED BY <1>2, <1>3, <1>4, <1>5 DEF Next, Fault

\* A vpc that is to be reconciled again, and that a worker holds, remains so: the watch
\* finds it in the store, and the queue does not hand it out meanwhile.
LEMMA AwakenedStays ==
  ASSUME TypeOK, KeptInv, [Next]_vars, faults' = 0, ~ConcurrentMapFatal,
         NEW w \in Workers, pc[w] = "deploy", Awakened(key[w])
  PROVE  Awakened(key[w])'  \/ key'[w] # key[w]
<1>. SUFFICES ASSUME key'[w] = key[w] PROVE Awakened(key[w])'
  OBVIOUS
<1>. DEFINE c == key[w]
<1>0. c \in Vpcs /\ c # NoVpc /\ c \in Existing /\ current \in Vpcs \cup {NoVpc}
  BY ConstantsAssumption DEF TypeOK, WorkersOK, QueueOK, KeptInv, IsKept, Existing
<1>1. ASSUME NEW v \in Workers, WorkerStep(v) PROVE Awakened(c)'
  <2>1. CASE Dequeue(v)
    <3>1. c \in dirty => c \in dirty'
      BY <2>1 DEF Dequeue
    <3>. QED BY <2>1, <3>1 DEF Dequeue, watchVars, Awakened
  <2>2. CASE ~Dequeue(v)
    <3>1. UNCHANGED <<dirty, notify, current>> /\ (passes > 0 => passes' > 0)
      BY <1>1, <2>2, OwnVpc, WorkerPasses
    <3>. QED BY <3>1 DEF Awakened
  <2>. QED BY <2>1, <2>2
<1>2. CASE WatchList
  BY <1>0, <1>2 DEF WatchList, Awakened
<1>3. ASSUME NEW b \in Vpcs, WatchReset(b) PROVE Awakened(c)'
  BY <1>0, <1>3 DEF WatchReset, queueVars, Awakened
<1>4. CASE WatchAdd
  BY <1>0, <1>4 DEF WatchAdd, Awakened
<1>5. ASSUME NEW b \in Vpcs, NEW n \in Nodes, LoseDevice(b, n) PROVE Awakened(c)'
  <2>1. passes > 0 => passes' > 0
    BY <1>5, SavePasses DEF LoseDevice
  <2>. QED BY <1>5, <2>1 DEF LoseDevice, queueVars, Awakened
<1>6. ASSUME NEW b \in Vpcs, CreateVpc(b) \/ EditVpc(b) \/ DeleteVpc(b) PROVE Awakened(c)'
  BY <1>6 DEF CreateVpc, EditVpc, DeleteVpc, SaveCr, watchVars, Awakened
<1>7. CASE \/ \E b \in Vpcs : FireTimer(b)
           \/ \E n \in Nodes : ChangeTopology(n)
           \/ Registry \/ UNCHANGED vars
  BY <1>7 DEF FireTimer, ChangeTopology, Registry, AllocateNi, CollectRegister, vars,
     watchVars, queueVars, Awakened
<1>. QED BY <1>1, <1>2, <1>3, <1>4, <1>5, <1>6, <1>7, FaultCounted
         DEF Next, WorkerStep, Watch, Fault, Environment

\* What the loop of Deploy has passed is as the intent says, or will be looked at again.
LEMMA CompleteDeploy ==
  ASSUME NEW w \in Workers, TypeOK, KeptInv, StaleInv, Completes(w), [Next]_vars,
         faults' = 0, ~ConcurrentMapFatal, RemoveDone(w) \/ Deploy(w)
  PROVE  Completes(w)'
<1>. DEFINE c == key[w]
<1>1. c \in Vpcs /\ CleansUp(w)
  BY DEF TypeOK, WorkersOK, StaleInv, RemoveDone, Deploy
<1>2. CASE RemoveDone(w)
  <2>1. /\ pc[w] = "remove" /\ todo[w] = {} /\ UNCHANGED <<key, intents, device>>
        /\ todo'[w] = WithChild(intents[c])
    BY <1>2 DEF RemoveDone, Step, Goto, apiVars, TypeOK, StoreOK
  <2>2. \A n \in Nodes \ todo'[w] : intents[c][n] = {}
    BY <2>1 DEF WithChild
  <2>3. \A n \in Nodes \ todo'[w] : device[c][n] = {}
    BY <1>1, <2>1, <2>2 DEF CleansUp
  <2>. QED BY <2>1, <2>2, <2>3 DEF Completes
<1>3. CASE Deploy(w)
  <2>1. PICK n \in todo[w] :
          SaveDevice(c, n, intents[c][n]) /\ Step(w, "deploy", todo[w] \ {n})
    BY <1>3 DEF Deploy
  <2>2. /\ pc[w] = "deploy" /\ UNCHANGED <<key, intents>> /\ todo'[w] = todo[w] \ {n}
    BY <1>3, <2>1 DEF Deploy, Step, Goto, TypeOK, StoreOK
  <2>3. \A m \in Nodes : device'[c][m] = IF m = n THEN intents[c][n] ELSE device[c][m]
    BY <1>1, <2>1 DEF SaveDevice, TypeOK, ConfigOK, Children
  <2>4. Awakened(c) => Awakened(c)'
    BY <2>2, AwakenedStays
  <2>. QED BY <2>2, <2>3, <2>4 DEF Completes
<1>. QED BY <1>2, <1>3

\* Where neither the position of w nor the intent under its key changes, a device that
\* is taken away raises an event.
LEMMA CompleteFrame ==
  ASSUME TypeOK, KeptInv, [Next]_vars, faults' = 0, ~ConcurrentMapFatal,
         NEW w \in Workers, Completes(w),
         pc'[w] = pc[w], key'[w] = key[w], todo'[w] = todo[w],
         pc[w] = "deploy" => /\ intents'[key[w]] = intents[key[w]]
                             /\ \/ device'[key[w]] = device[key[w]]
                                \/ Awakened(key[w])'
  PROVE  Completes(w)'
<1>1. pc[w] = "deploy" => (Awakened(key[w]) => Awakened(key[w])')
  BY AwakenedStays
<1>. QED BY <1>1 DEF Completes

\* Every step keeps this for every worker.
LEMMA CompleteNext ==
  ASSUME TypeOK, KeptInv, StaleInv, CompleteInv, [Next]_vars
  PROVE  CompleteInv'
<1>. SUFFICES ASSUME faults' = 0, NEW w \in Workers PROVE Completes(w)'
  BY DEF CompleteInv
<1>1. Completes(w) /\ ~Restart /\ ~WatchListError
  BY FaultCounted DEF CompleteInv
<1>2. CASE ConcurrentMapFatal
  BY <1>2 DEF ConcurrentMapFatal, FreshProcess, Completes
<1>. SUFFICES ASSUME ~ConcurrentMapFatal PROVE Completes(w)'
  BY <1>2
<1>3. pc[w] = "deploy" => key[w] \in Vpcs
  BY DEF TypeOK, WorkersOK
<1>4. ASSUME NEW v \in Workers \ {w}, WorkerStep(v) PROVE Completes(w)'
  <2>1. pc'[w] = pc[w] /\ key'[w] = key[w] /\ todo'[w] = todo[w]
    BY <1>4, WorkersApart DEF OthersWait
  <2>2. CASE Dequeue(v)
    BY <1>1, <2>1, <2>2, CompleteFrame DEF Dequeue, apiVars
  <2>3. CASE ~Dequeue(v)
    <3>1. pc[w] = "deploy" => key[w] \in Vpcs \ {key[v]}
      BY <1>3, <1>4, <2>3, OwnVpc
    <3>2. \A c \in Vpcs \ {key[v]} : intents'[c] = intents[c] /\ device'[c] = device[c]
      BY <1>4, <2>3, OwnVpc
    <3>. QED BY <1>1, <2>1, <3>1, <3>2, CompleteFrame
  <2>. QED BY <2>2, <2>3
<1>5. CASE RemoveDone(w) \/ Deploy(w)
  BY <1>1, <1>5, CompleteDeploy
<1>6. CASE WorkerStep(w) /\ ~RemoveDone(w) /\ ~Deploy(w)
  <2>1. CASE \/ Dequeue(w) \/ GetAbsent(w) \/ GetManaged(w) \/ Done(w) \/ Populate(w)
             \/ ApiError(w) \/ DestroyError(w)
    <3>1. pc'[w] # "deploy"
      BY <2>1 DEF Dequeue, GetAbsent, GetManaged, Done, Release, Populate, StartCallback,
         ResetMaps, GetAllocationStrategy, CreateNiRegister, CreateDone, GetNiRegister,
         NiRegisterUnavailable, GatherNodeInfo, PopulateNi, FailTo, ApiError, DestroyError,
         Step, Goto, TypeOK, WorkersOK
    <3>. QED BY <3>1 DEF Completes
  <2>2. CASE (Update(w) \/ FinalDelete(w)) /\ ~RemoveDone(w) /\ ~Deploy(w)
    <3>1. pc'[w] # "deploy"
      BY <2>2 DEF Update, ListAndValidate, RemoveStale, Relist, FinalUpdate, TimeoutRead,
         TimeoutIncrement, FinalDelete, BeginDestroy, Destroy, ForgetSpeedy,
         RemoveFinalizerFirst, RemoveFinalizerLast, Release, Step, Goto, TypeOK, WorkersOK
    <3>. QED BY <3>1 DEF Completes
  <2>. QED BY <1>6, <2>1, <2>2 DEF WorkerStep, Reconcile
<1>7. ASSUME NEW b \in Vpcs, NEW n \in Nodes, LoseDevice(b, n) PROVE Completes(w)'
  <2>1. device[b][n] # {} /\ SaveDevice(b, n, {}) /\ UNCHANGED <<intents, workerVars>>
    BY <1>7 DEF LoseDevice
  <2>2. passes' > 0
    BY <2>1, SavePasses
  <2>. QED BY <1>1, <2>1, <2>2, CompleteFrame DEF workerVars, Awakened
<1>8. CASE UNCHANGED <<intents, device, workerVars>>
  BY <1>1, <1>8, CompleteFrame DEF workerVars
<1>9. \/ \E c \in Vpcs : FireTimer(c) \/ CreateVpc(c) \/ EditVpc(c) \/ DeleteVpc(c)
      \/ \E n \in Nodes : ChangeTopology(n)
      \/ Watch \/ Registry \/ UNCHANGED vars
      => UNCHANGED <<intents, device, workerVars>>
  BY DEF FireTimer, CreateVpc, EditVpc, DeleteVpc, SaveCr, ChangeTopology, Watch, WatchList,
     WatchReset, WatchAdd, Registry, AllocateNi, CollectRegister, vars, apiVars
<1>. QED BY <1>1, <1>4, <1>5, <1>6, <1>7, <1>8, <1>9
         DEF Next, WorkerStep, Fault, Environment

\* An Update that reaches its last List has configured all of its intent, or the vpc is
\* certain to be reconciled again: Deploy writes what the intent names
\* (reconciler.go:196-200), and an event that another writer raises behind it is neither
\* lost between the watch and the queue nor consumed by the reconcile that is running.
THEOREM CompleteCorrect == Spec => []UpdateComplete
<1>1. Init => CompleteInv
  BY DEF Init, CompleteInv, Completes
<1>2. TypeOK /\ KeptInv /\ StaleInv /\ CompleteInv /\ [Next]_vars => CompleteInv'
  BY CompleteNext
<1>3. CompleteInv => UpdateComplete
  BY DEF CompleteInv, Completes, UpdateComplete
<1>. QED BY <1>1, <1>2, <1>3, KeptInvariant, StaleInvariant, PTL DEF Spec

-----------------------------------------------------------------------------
(* What FinalDelete leaves on the devices                                   *)

\* What DestroyInv says of one worker and of one vpc.
Empties(w) ==
  /\ pc[w] = "destroy" => EmptyBut(key[w], todo[w])
  /\ pc[w] = "unfinalize" => EmptyBut(key[w], {})

Emptied(c) == ~cr[c].finalizer /\ intents[c] # Nil /\ ~Gone(c) => EmptyBut(c, {})

\* DestroyInv is what they say together.
LEMMA DestroyParts ==
  DestroyInv <=>
    (faults = 0 => (\A w \in Workers : Empties(w)) /\ (\A c \in Vpcs : Emptied(c)))
BY DEF DestroyInv, Empties, Emptied

\* What an emptied node stays if nobody but one who empties nodes writes.
LEMMA EmptyFrame ==
  ASSUME NEW c, NEW S, EmptyBut(c, S), intents'[c] = intents[c],
         \A n \in Nodes : device'[c][n] \in {{}, device[c][n]}
  PROVE  EmptyBut(c, S)'
BY DEF EmptyBut, WithChild

\* The loop of FinalDelete goes on, or the vpc that moves is not out of the store.
LEMMA DestroyWorker ==
  ASSUME TypeOK, KeptInv, DestroyInv, NEW w \in Workers, WorkerStep(w), ~Dequeue(w),
         NEW c \in Vpcs, c = key[w], faults = 0, faults' = 0
  PROVE  Emptied(c)' /\ Empties(w)'
<1>1. /\ pc[w] # "idle" /\ IsKept(w) /\ Empties(w) /\ Emptied(c)
      /\ device \in [Vpcs -> [Nodes -> SUBSET Nis]]
  BY OwnVpc, DestroyParts DEF KeptInv, TypeOK, ConfigOK, Children
<1>2. CASE BeginDestroy(w) \/ RemoveFinalizerFirst(w)
  <2>1. /\ pc'[w] = "destroy" /\ key'[w] = c /\ intents' = intents
        /\ todo'[w] = WithChild(intents[c])
    BY <1>2 DEF BeginDestroy, RemoveFinalizerFirst, Step, Goto, TypeOK, WorkersOK, StoreOK
  <2>2. Empties(w)'
    BY <2>1 DEF Empties, EmptyBut, WithChild
  <2>3. Emptied(c)'
    <3>1. CASE BeginDestroy(w)
      <4>1. pc[w] = "populate" /\ cr' = cr
        BY <3>1 DEF BeginDestroy, Populated, apiVars
      <4>. QED BY <1>1, <4>1 DEF IsKept, Emptied
    <3>2. CASE RemoveFinalizerFirst(w)
      <4>1. mg'[w].gone /\ key'[w] = c
        BY <2>1, <3>2 DEF RemoveFinalizerFirst, TypeOK, StoreOK, MgType
      <4>. QED BY <4>1 DEF Emptied, Gone
    <3>. QED BY <1>2, <3>1, <3>2
  <2>. QED BY <2>2, <2>3
<1>3. CASE Destroy(w)
  <2>1. PICK n \in todo[w] : SaveDevice(c, n, {}) /\ Step(w, "destroy", todo[w] \ {n})
    BY <1>3 DEF Destroy
  <2>2. /\ pc[w] = "destroy" /\ pc'[w] = "destroy" /\ UNCHANGED <<cr, key, mg, intents>>
        /\ todo'[w] = todo[w] \ {n}
    BY <1>3, <2>1 DEF Destroy, Step, Goto, TypeOK, WorkersOK, StoreOK
  <2>3. \A m \in Nodes : device'[c][m] = IF m = n THEN {} ELSE device[c][m]
    BY <1>1, <2>1 DEF SaveDevice
  <2>4. Empties(w)'
    BY <1>1, <2>2, <2>3 DEF Empties, EmptyBut, WithChild
  <2>5. Emptied(c)'
    BY <1>1, <2>2 DEF IsKept, Emptied, Gone
  <2>. QED BY <2>4, <2>5
<1>4. CASE ForgetSpeedy(w)
  <2>1. /\ pc[w] = "destroy" /\ todo[w] = {} /\ UNCHANGED <<cr, intents, device>>
        /\ pc'[w] = IF mg[w].gone THEN "idle" ELSE "unfinalize"
        /\ ~mg[w].gone => key' = key
    BY <1>4 DEF ForgetSpeedy, Release, Step, Goto, apiVars, TypeOK, WorkersOK
  <2>2. EmptyBut(c, {})
    BY <1>1, <2>1 DEF Empties
  <2>3. EmptyBut(c, {})'
    BY <2>1, <2>2 DEF EmptyBut, WithChild
  <2>. QED BY <2>1, <2>3 DEF Empties, Emptied
<1>5. CASE RemoveFinalizerLast(w)
  <2>1. pc[w] = "unfinalize" /\ pc'[w] = "idle" /\ UNCHANGED <<intents, device>>
    BY <1>5 DEF RemoveFinalizerLast, Release, Goto, TypeOK, WorkersOK
  <2>2. EmptyBut(c, {})'
    BY <1>1, <2>1 DEF Empties, EmptyBut, WithChild
  <2>. QED BY <2>1, <2>2 DEF Empties, Emptied
<1>6. CASE ApiError(w) \/ DestroyError(w)
  BY <1>6 DEF ApiError, DestroyError
<1>7. CASE GetAbsent(w) \/ Done(w)
  <2>1. /\ pc[w] \in {"get", "done"} /\ pc'[w] = "idle" /\ UNCHANGED <<cr, intents, device>>
    BY <1>7 DEF GetAbsent, Done, Release, Goto, apiVars, TypeOK, WorkersOK
  <2>2. ~Gone(c)
    BY <1>1, <2>1, NotGone DEF IsKept
  <2>. QED BY <1>1, <2>1, <2>2 DEF Emptied, Empties, EmptyBut, WithChild
<1>8. CASE GetManaged(w)
  <2>1. cr'[c].finalizer /\ pc'[w] = "start"
    BY <1>1, <1>8 DEF GetManaged, Goto, TypeOK, WorkersOK, StoreOK, CrType
  <2>. QED BY <2>1 DEF Emptied, Empties
<1>9. CASE Populate(w) \/ Update(w)
  <2>1. /\ pc[w] \notin {"idle", "get", "done", "destroy"}
        /\ pc'[w] \notin {"destroy", "unfinalize"} /\ cr' = cr
    BY <1>9 DEF Populate, StartCallback, ResetMaps, GetAllocationStrategy, CreateNiRegister,
       CreateDone, GetNiRegister, NiRegisterUnavailable, GatherNodeInfo, PopulateNi, FailTo,
       Update, ListAndValidate, RemoveStale, RemoveDone, Deploy, Relist, FinalUpdate,
       TimeoutRead, TimeoutIncrement, Populated, Step, Goto, apiVars, TypeOK, WorkersOK
  <2>. QED BY <1>1, <2>1 DEF IsKept, Emptied, Empties
<1>. QED
  BY <1>2, <1>3, <1>4, <1>5, <1>6, <1>7, <1>8, <1>9 DEF WorkerStep, Reconcile, FinalDelete

\* Every step keeps what FinalDelete has emptied empty.
LEMMA DestroyNext == TypeOK /\ KeptInv /\ DestroyInv /\ [Next]_vars => DestroyInv'
<1>. SUFFICES ASSUME TypeOK, KeptInv, DestroyInv, [Next]_vars, faults' = 0
     PROVE  (\A w \in Workers : Empties(w)') /\ (\A c \in Vpcs : Emptied(c)')
  <2>1. (DestroyInv <=>
          (faults = 0 => (\A w \in Workers : Empties(w)) /\ (\A c \in Vpcs : Emptied(c))))'
    BY DestroyParts, PTL
  <2>. QED BY <2>1
<1>. DEFINE Goal == (\A w \in Workers : Empties(w)') /\ (\A c \in Vpcs : Emptied(c)')
<1>1. faults = 0
  <2>1. faults \in Nat
    BY DEF TypeOK, QueueOK
  <2>2. ASSUME NEW w \in Workers, Reconcile(w) PROVE faults' = faults
    BY <2>2 DEF Reconcile, Dequeue, GetAbsent, GetManaged, Done, Populate, StartCallback,
       ResetMaps, GetAllocationStrategy, CreateNiRegister, CreateDone, GetNiRegister,
       NiRegisterUnavailable, GatherNodeInfo, PopulateNi, Update, ListAndValidate, RemoveStale,
       RemoveDone, Deploy, Relist, FinalUpdate, TimeoutRead, TimeoutIncrement, FinalDelete,
       BeginDestroy, Destroy, ForgetSpeedy, RemoveFinalizerFirst, RemoveFinalizerLast, bounds
  <2>3. Fault => faults' \in {faults, faults + 1}
    BY DEF Fault, ApiError, DestroyError, WatchListError, Restart, ConcurrentMapFatal, bounds
  <2>4. (\E c \in Vpcs : FireTimer(c)) \/ Watch \/ Environment \/ Registry \/ UNCHANGED vars
          => faults' = faults
    BY DEF FireTimer, Watch, WatchList, WatchReset, WatchAdd, Environment, CreateVpc, EditVpc,
       DeleteVpc, SaveCr, EnvStep, ChangeTopology, LoseDevice, Registry, AllocateNi,
       CollectRegister, vars, bounds
  <2>5. faults' \in {faults, faults + 1}
    BY <2>2, <2>3, <2>4 DEF Next
  <2>. QED BY <2>1, <2>5
<1>2. (\A w \in Workers : Empties(w)) /\ (\A c \in Vpcs : Emptied(c))
  BY <1>1, DestroyParts
<1>3. ASSUME NEW w \in Workers, Dequeue(w) PROVE Goal
  <2>1. /\ pc'[w] = "get" /\ OthersWait(w) /\ UNCHANGED <<cr, intents, device>>
        /\ \A c \in Vpcs : Gone(c)' <=> Gone(c)
    BY <1>3, WorkersApart, GoneApart DEF Dequeue, Goto, apiVars, WorkerStep, Reconcile,
       TypeOK, WorkersOK
  <2>. QED BY <1>2, <2>1 DEF Empties, Emptied, OthersWait, EmptyBut, WithChild
<1>4. ASSUME NEW w \in Workers, WorkerStep(w), ~Dequeue(w) PROVE Goal
  <2>1. OthersWait(w) /\ key[w] \in Vpcs
    BY <1>4, WorkersApart, OwnVpc
  <2>2. Empties(w)' /\ \A c \in Vpcs : c = key[w] => Emptied(c)'
    BY <1>1, <1>4, <2>1, DestroyWorker
  <2>3. ASSUME NEW b \in Vpcs \ {key[w]} PROVE Emptied(b)'
    <3>1. /\ cr'[b] = cr[b] /\ intents'[b] = intents[b] /\ device'[b] = device[b]
          /\ Gone(b)' <=> Gone(b)
      BY <1>4, OwnVpc, GoneApart
    <3>. QED BY <1>2, <3>1 DEF Emptied, EmptyBut, WithChild
  <2>4. ASSUME NEW v \in Workers \ {w} PROVE Empties(v)'
    <3>1. pc'[v] = pc[v] /\ key'[v] = key[v] /\ todo'[v] = todo[v] /\ Empties(v)
      BY <1>2, <2>1 DEF OthersWait
    <3>2. CASE pc[v] = "idle"
      BY <3>1, <3>2 DEF Empties
    <3>3. CASE pc[v] # "idle"
      <4>1. intents'[key[v]] = intents[key[v]] /\ device'[key[v]] = device[key[v]]
        BY <1>4, <3>3, OwnVpc DEF TypeOK, WorkersOK
      <4>2. ASSUME NEW S, EmptyBut(key[v], S) PROVE EmptyBut(key[v], S)'
        BY <3>1, <4>1, <4>2 DEF EmptyBut, WithChild
      <4>. QED BY <3>1, <4>2 DEF Empties, EmptyBut
    <3>. QED BY <3>2, <3>3
  <2>. QED BY <2>2, <2>3, <2>4
<1>5. ASSUME Environment PROVE Goal
  <2>1. /\ UNCHANGED <<intents, workerVars>>
        /\ \A c \in Vpcs : cr'[c].finalizer = cr[c].finalizer
        /\ \A c \in Vpcs, n \in Nodes : device'[c][n] \in {{}, device[c][n]}
    <3>1. UNCHANGED intents /\ (device' = device \/ \E c \in Vpcs, n \in Nodes :
                                  device' = [device EXCEPT ![c][n] = {}])
      BY <1>5 DEF Environment, CreateVpc, EditVpc, DeleteVpc, SaveCr, ChangeTopology,
         LoseDevice, SaveDevice
    <3>2. \A c \in Vpcs, n \in Nodes : device'[c][n] \in {{}, device[c][n]}
      BY <3>1 DEF TypeOK, ConfigOK, Children
    <3>. QED BY <1>5, <3>1, <3>2, UsersKeep, EnvironmentApart
  <2>2. ASSUME NEW c \in Vpcs, NEW S, EmptyBut(c, S) PROVE EmptyBut(c, S)'
    BY <2>1, <2>2 DEF EmptyBut, WithChild
  <2>3. \A w \in Workers : pc[w] # "idle" => key[w] \in Vpcs
    BY DEF TypeOK, WorkersOK
  <2>. QED BY <1>2, <2>1, <2>2, <2>3 DEF Empties, Emptied, Gone, workerVars, EmptyBut, WithChild
<1>6. ASSUME Restart \/ ConcurrentMapFatal PROVE Goal
  BY <1>6 DEF Restart, ConcurrentMapFatal, FreshProcess, Empties, Emptied
<1>7. UNCHANGED <<cr, intents, device, workerVars>> => Goal
  BY <1>2 DEF workerVars, Empties, Emptied, Gone, EmptyBut, WithChild
<1>. QED
  BY <1>3, <1>4, <1>5, <1>6, <1>7 DEF Next, WorkerStep, FireTimer, Watch, WatchList, WatchReset,
     WatchAdd, Fault, WatchListError, Registry, AllocateNi, CollectRegister, vars, apiVars

\* A deletion during which no call failed and no process died leaves no device on any
\* node of the intent it destroyed, whatever users changed (reconciler.go Delete and
\* FinalDelete, in either order with the removal of the finalizer).
THEOREM DestroyCorrect == Spec => []DestroyComplete
<1>1. Init => DestroyInv
  BY DEF Init, DestroyInv
<1>2. KeptInv /\ DestroyInv => DestroyComplete
  BY DEF KeptInv, DestroyInv, Gone, EmptyBut, DestroyComplete
<1>. QED BY <1>1, <1>2, DestroyNext, KeptInvariant, PTL DEF Spec
=============================================================================
