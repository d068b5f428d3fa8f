------------------------ MODULE VpcRefinementProofs ------------------------
(***************************************************************************)
(* VpcController implements VpcIntent, for every set of vpcs, workers,     *)
(* network instances and nodes and every bound.                            *)
(*                                                                         *)
(* PlanInv is inductive together with TypeOK, IntentInv and KeptInv.  The  *)
(* plan of a vpc depends on nothing but the worker that holds its key      *)
(* (PlanOfHolder), so that a step of a worker changes one plan at most     *)
(* (PlanStep): each action of the controller is then a stutter or one      *)
(* action of VpcIntent.                                                    *)
(***************************************************************************)
EXTENDS VpcRefinement, VpcLifetimeProofs

-----------------------------------------------------------------------------
(* PlanInv is an invariant                                                  *)

\* Outside the loops over nodes a worker follows its plan.
LEMMA NoLoop ==
  ASSUME NEW w \in Workers, pc'[w] \notin {"remove", "deploy", "destroy", "unfinalize"}
  PROVE  FollowsPlan(w)'
BY DEF FollowsPlan

\* The plan as its worker finds it in the intents map, node by node.
LEMMA PlannedNodes ==
  ASSUME IntentInv, NEW w \in Workers, Populated(w) \/ pc[w] \in {"remove", "deploy"}
  PROVE  intents[key[w]] = Planned(w)
<1>1. todo[w] = {} => mg[w].spec \ todo[w] = mg[w].spec
  OBVIOUS
<1>. QED BY <1>1 DEF IntentInv, FindsIntent, Populated, Planned

\* Update removes what the plan does not name and deploys what it names.
LEMMA UpdateFollows ==
  ASSUME TypeOK, IntentInv, PlanInv, NEW w \in Workers, Update(w)
  PROVE  FollowsPlan(w)'
<1>1. FollowsPlan(w)
  BY DEF PlanInv
<1>2. CASE ListAndValidate(w)
  <2>1. /\ pc[w] = "populate" /\ pc'[w] = "remove" /\ ~mg[w].deleting
        /\ UNCHANGED <<cr, key, mg, nodeInfo>>
        /\ todo'[w] \subseteq Nodes \ WithChild(Planned(w))
    BY <1>2, PlannedNodes DEF ListAndValidate, Populated, Step, Goto, apiVars, TypeOK,
       WorkersOK, StoreOK, WithChild
  <2>2. Planned(w)' = Planned(w)
    BY <2>1 DEF Planned
  <2>. QED BY <2>1, <2>2 DEF FollowsPlan, WithChild
<1>3. CASE RemoveStale(w)
  <2>1. PICK n \in todo[w] : Step(w, "remove", todo[w] \ {n})
    BY <1>3 DEF RemoveStale
  <2>2. /\ pc[w] = "remove" /\ pc'[w] = "remove" /\ UNCHANGED <<cr, key, mg, nodeInfo>>
        /\ todo'[w] \subseteq todo[w]
    BY <1>3, <2>1 DEF RemoveStale, Step, Goto, TypeOK, WorkersOK, StoreOK
  <2>. QED BY <1>1, <2>2 DEF FollowsPlan, Planned
<1>4. CASE RemoveDone(w)
  <2>1. /\ pc[w] = "remove" /\ pc'[w] = "deploy" /\ UNCHANGED <<cr, key, mg, nodeInfo>>
        /\ todo'[w] = WithChild(Planned(w))
    BY <1>4, PlannedNodes DEF RemoveDone, Step, Goto, apiVars, TypeOK, WorkersOK, StoreOK
  <2>2. Planned(w)' = Planned(w)
    BY <2>1 DEF Planned
  <2>. QED BY <1>1, <2>1, <2>2 DEF FollowsPlan, WithChild
<1>5. CASE Deploy(w)
  <2>1. PICK n \in todo[w] : Step(w, "deploy", todo[w] \ {n})
    BY <1>5 DEF Deploy
  <2>2. /\ pc[w] = "deploy" /\ pc'[w] = "deploy" /\ UNCHANGED <<cr, key, mg, nodeInfo>>
        /\ todo'[w] \subseteq todo[w]
    BY <1>5, <2>1 DEF Deploy, Step, Goto, TypeOK, WorkersOK, StoreOK
  <2>. QED BY <1>1, <2>2 DEF FollowsPlan, Planned
<1>6. CASE Relist(w) \/ FinalUpdate(w) \/ TimeoutRead(w) \/ TimeoutIncrement(w)
  <2>1. /\ pc[w] # "destroy" /\ mg' = mg
        /\ pc'[w] \in {"final", "timeout", "increment", "done"}
    BY <1>6 DEF Relist, FinalUpdate, TimeoutRead, TimeoutIncrement, Step, Goto, TypeOK,
       WorkersOK
  <2>. QED BY <2>1, NoLoop
<1>. QED BY <1>2, <1>3, <1>4, <1>5, <1>6 DEF Update

\* FinalDelete destroys what the plan names, with the resource there or gone.
LEMMA DeleteFollows ==
  ASSUME TypeOK, IntentInv, PlanInv, NEW w \in Workers, FinalDelete(w)
  PROVE  FollowsPlan(w)'
<1>1. FollowsPlan(w)
  BY DEF PlanInv
<1>2. CASE BeginDestroy(w)
  <2>1. /\ pc[w] = "populate" /\ pc'[w] = "destroy" /\ mg[w].deleting
        /\ UNCHANGED <<cr, key, mg, nodeInfo>>
        /\ todo'[w] = WithChild(Planned(w))
    BY <1>2, PlannedNodes DEF BeginDestroy, Populated, Step, Goto, apiVars, TypeOK,
       WorkersOK, StoreOK
  <2>2. Planned(w)' = Planned(w)
    BY <2>1 DEF Planned
  <2>. QED BY <2>1, <2>2 DEF FollowsPlan, WithChild
<1>3. CASE RemoveFinalizerFirst(w)
  <2>1. /\ pc[w] = "populate" /\ pc'[w] = "destroy" /\ mg[w].deleting
        /\ UNCHANGED <<key, nodeInfo>>
        /\ mg' = [mg EXCEPT ![w].gone = TRUE]
        /\ todo'[w] = WithChild(Planned(w))
    BY <1>3, PlannedNodes DEF RemoveFinalizerFirst, Populated, Goto, TypeOK, WorkersOK, StoreOK
  <2>2. mg'[w].spec = mg[w].spec /\ mg'[w].deleting /\ mg'[w].gone
    BY <2>1 DEF TypeOK, StoreOK, MgType
  <2>3. Planned(w)' = Planned(w)
    BY <2>1, <2>2 DEF Planned
  <2>. QED BY <2>1, <2>2, <2>3 DEF FollowsPlan, WithChild
<1>4. CASE Destroy(w)
  <2>1. PICK n \in todo[w] : Step(w, "destroy", todo[w] \ {n})
    BY <1>4 DEF Destroy
  <2>2. /\ pc[w] = "destroy" /\ pc'[w] = "destroy" /\ UNCHANGED <<cr, key, mg, nodeInfo>>
        /\ todo'[w] \subseteq todo[w]
    BY <1>4, <2>1 DEF Destroy, Step, Goto, TypeOK, WorkersOK, StoreOK
  <2>. QED BY <1>1, <2>2 DEF FollowsPlan, Planned
<1>5. CASE ForgetSpeedy(w)
  <2>1. CASE mg[w].gone
    <3>1. pc'[w] = "idle" /\ mg'[w] = NoMg
      BY <1>5, <2>1 DEF ForgetSpeedy, Release, Goto, TypeOK, WorkersOK, StoreOK
    <3>. QED BY <3>1, NoLoop
  <2>2. CASE ~mg[w].gone
    <3>1. /\ pc[w] = "destroy" /\ pc'[w] = "unfinalize" /\ UNCHANGED <<cr, key, mg>>
      BY <1>5, <2>2 DEF ForgetSpeedy, Step, Goto, apiVars, TypeOK, WorkersOK
    <3>. QED BY <1>1, <2>2, <3>1 DEF FollowsPlan
  <2>. QED BY <2>1, <2>2
<1>6. CASE RemoveFinalizerLast(w)
  <2>1. pc'[w] = "idle" /\ mg'[w] = NoMg
    BY <1>6 DEF RemoveFinalizerLast, Release, Goto, TypeOK, WorkersOK, StoreOK
  <2>. QED BY <2>1, NoLoop
<1>. QED BY <1>2, <1>3, <1>4, <1>5, <1>6 DEF FinalDelete

\* Every step keeps PlanInv.
LEMMA PlanInvNext == TypeOK /\ IntentInv /\ PlanInv /\ [Next]_vars => PlanInv'
<1>. SUFFICES ASSUME TypeOK, IntentInv, PlanInv, [Next]_vars PROVE PlanInv'
  OBVIOUS
<1>1. ASSUME NEW w \in Workers, WorkerStep(w) PROVE PlanInv'
  <2>1. \A v \in Workers \ {w} : FollowsPlan(v)'
    BY <1>1, WorkersApart DEF PlanInv, OthersWait, FollowsPlan, Planned
  <2>2. CASE Update(w) \/ FinalDelete(w)
    BY <2>1, <2>2, UpdateFollows, DeleteFollows DEF PlanInv
  <2>3. CASE DestroyError(w)
    <3>1. /\ pc[w] = "destroy" /\ pc'[w] = "destroy" /\ todo'[w] = {}
          /\ UNCHANGED <<key, mg, nodeInfo>>
      BY <2>3 DEF DestroyError, Step, Goto, TypeOK, WorkersOK, StoreOK
    <3>2. FollowsPlan(w)'
      BY <3>1 DEF PlanInv, FollowsPlan
    <3>. QED BY <2>1, <3>2 DEF PlanInv
  <2>4. CASE \/ Dequeue(w) \/ GetAbsent(w) \/ GetManaged(w) \/ Done(w) \/ Populate(w)
             \/ ApiError(w)
    <3>1. pc'[w] \notin {"remove", "deploy", "destroy", "unfinalize"}
      BY <2>4 DEF Dequeue, GetAbsent, GetManaged, Done, Release, Populate, StartCallback,
         ResetMaps, GetAllocationStrategy, CreateNiRegister, CreateDone, GetNiRegister,
         NiRegisterUnavailable, GatherNodeInfo, PopulateNi, FailTo, ApiError, ApiCalls, Step,
         Goto, TypeOK, WorkersOK
    <3>. QED BY <2>1, <3>1, NoLoop DEF PlanInv
  <2>. QED BY <1>1, <2>2, <2>3, <2>4 DEF WorkerStep, Reconcile
<1>2. ASSUME Restart \/ ConcurrentMapFatal PROVE PlanInv'
  BY <1>2 DEF Restart, ConcurrentMapFatal, FreshProcess, PlanInv, FollowsPlan
<1>3. UNCHANGED workerVars => PlanInv'
  BY DEF PlanInv, FollowsPlan, Planned, workerVars
<1>. QED
  BY <1>1, <1>2, <1>3, EnvironmentApart DEF Next, WorkerStep, FireTimer, Watch, WatchList,
     WatchReset, WatchAdd, Fault, WatchListError, Registry, AllocateNi, CollectRegister, vars

\* The invariants the refinement rests on.
LEMMA PlanInvariant == Spec => [](TypeOK /\ IntentInv /\ KeptInv /\ PlanInv)
<1>1. Init => PlanInv
  BY DEF Init, PlanInv, FollowsPlan
<1>. QED BY <1>1, PlanInvNext, KeptInvariant, PTL DEF Spec

-----------------------------------------------------------------------------
(* The plan of every vpc                                                    *)

Intends(w) == IF Planning(w) THEN PlanOf(w) ELSE Idle

\* The plan of a vpc is that of the worker that holds its key; without one it is Idle.
LEMMA PlanOfHolder ==
  WorkersOK =>
    /\ \A w \in Workers : pc[w] # "idle" => currentPlan[key[w]] = Intends(w)
    /\ \A c \in Vpcs : (\A w \in Workers : key[w] # c) => currentPlan[c] = Idle
<1>. SUFFICES ASSUME WorkersOK
     PROVE  /\ \A w \in Workers : pc[w] # "idle" => currentPlan[key[w]] = Intends(w)
            /\ \A c \in Vpcs : (\A w \in Workers : key[w] # c) => currentPlan[c] = Idle
  OBVIOUS
<1>1. ASSUME NEW w \in Workers, pc[w] # "idle" PROVE currentPlan[key[w]] = Intends(w)
  <2>1. key[w] \in Vpcs /\ \A v \in Workers : key[v] = key[w] => v = w
    BY <1>1 DEF WorkersOK
  <2>2. CASE Planning(w)
    <3>1. {v \in Workers : key[v] = key[w] /\ Planning(v)} = {w}
      BY <2>1, <2>2
    <3>. QED BY <2>1, <2>2, <3>1 DEF currentPlan, Intends
  <2>3. CASE ~Planning(w)
    <3>1. {v \in Workers : key[v] = key[w] /\ Planning(v)} = {}
      BY <2>1, <2>3
    <3>. QED BY <2>1, <2>3, <3>1 DEF currentPlan, Intends
  <2>. QED BY <2>2, <2>3
<1>2. ASSUME NEW c \in Vpcs, \A w \in Workers : key[w] # c PROVE currentPlan[c] = Idle
  <2>1. {v \in Workers : key[v] = c /\ Planning(v)} = {}
    BY <1>2
  <2>. QED BY <2>1 DEF currentPlan
<1>. QED BY <1>1, <1>2

\* The same of the next state.
LEMMA PlanOfNextHolder ==
  WorkersOK' =>
    /\ \A w \in Workers : pc'[w] # "idle" => currentPlan'[key'[w]] = Intends(w)'
    /\ \A c \in Vpcs : (\A w \in Workers : key'[w] # c) => currentPlan'[c] = Idle
<1>1. (WorkersOK =>
        /\ \A w \in Workers : pc[w] # "idle" => currentPlan[key[w]] = Intends(w)
        /\ \A c \in Vpcs : (\A w \in Workers : key[w] # c) => currentPlan[c] = Idle)'
  BY PlanOfHolder, PTL
<1>. QED BY <1>1

\* currentPlan is a function, so that it is determined by the plan of every vpc.
LEMMA PlanFunction ==
  /\ currentPlan = [c \in Vpcs |-> currentPlan[c]]
  /\ currentPlan' = [c \in Vpcs |-> currentPlan'[c]]
BY DEF currentPlan

\* A step of w changes the plan of the vpc it holds only.
LEMMA PlanStep ==
  ASSUME WorkersOK, WorkersOK', NEW w \in Workers, OthersWait(w), pc[w] # "idle",
         IF pc'[w] = "idle" THEN key'[w] = NoVpc ELSE key'[w] = key[w]
  PROVE  /\ key[w] \in Vpcs /\ currentPlan[key[w]] = Intends(w)
         /\ currentPlan' = [currentPlan EXCEPT ![key[w]] = Intends(w)']
<1>. DEFINE c == key[w]
<1>1. c \in Vpcs /\ c # NoVpc /\ \A v \in Workers \ {w} : key[v] # c
  BY ConstantsAssumption DEF WorkersOK
<1>2. currentPlan[c] = Intends(w)
  BY PlanOfHolder
<1>3. currentPlan'[c] = Intends(w)'
  <2>1. CASE pc'[w] = "idle"
    <3>1. \A v \in Workers : key'[v] # c
      BY <1>1, <2>1 DEF OthersWait
    <3>2. currentPlan'[c] = Idle
      BY <1>1, <3>1, PlanOfNextHolder
    <3>. QED BY <2>1, <3>2 DEF Intends, Planning
  <2>2. CASE pc'[w] # "idle"
    BY <2>2, PlanOfNextHolder
  <2>. QED BY <2>1, <2>2
<1>4. ASSUME NEW d \in Vpcs \ {c} PROVE currentPlan'[d] = currentPlan[d]
  <2>1. CASE \E v \in Workers : key[v] = d
    <3>1. PICK v \in Workers \ {w} : key[v] = d
      BY <2>1
    <3>2. pc[v] # "idle" /\ pc'[v] = pc[v] /\ key'[v] = key[v]
      BY <3>1, ConstantsAssumption DEF OthersWait, WorkersOK
    <3>3. currentPlan[d] = Intends(v) /\ currentPlan'[d] = Intends(v)'
      BY <3>1, <3>2, PlanOfHolder, PlanOfNextHolder
    <3>4. Intends(v)' = Intends(v)
      BY <3>1 DEF OthersWait, Intends, Planning, PlanOf, HasSurveyed
    <3>. QED BY <3>3, <3>4
  <2>2. CASE \A v \in Workers : key[v] # d
    <3>1. \A v \in Workers : key'[v] # d
      BY <2>2, ConstantsAssumption DEF OthersWait
    <3>. QED BY <2>2, <3>1, PlanOfHolder, PlanOfNextHolder
  <2>. QED BY <2>1, <2>2
<1>5. currentPlan' = [currentPlan EXCEPT ![c] = Intends(w)']
  BY <1>1, <1>3, <1>4, PlanFunction
<1>. QED BY <1>1, <1>2, <1>5

\* Nothing changes in the plans if no worker moves.
LEMMA PlanStays == ASSUME UNCHANGED workerVars PROVE currentPlan' = currentPlan
BY DEF workerVars, currentPlan, PlanOf, Planning, HasSurveyed

-----------------------------------------------------------------------------
(* Every step is one of VpcIntent or a stutter                              *)

\* The plan of a worker that has one is not Idle, and has nodes exactly when the
\* worker has read the topology.
LEMMA PlanFacts ==
  ASSUME TypeOK, NEW w \in Workers
  PROVE  /\ PlanOf(w) # Idle
         /\ PlanOf(w).nodes # Unread <=> HasSurveyed(w)
         /\ HasSurveyed(w) => Intent!Content(PlanOf(w)) = Planned(w)
<1>1. /\ mg[w].spec \in SUBSET Nis /\ mg[w].deleting \in BOOLEAN
      /\ nodeInfo[w] \in SUBSET Nodes
  BY DEF TypeOK, StoreOK, MgType
<1>2. PlanOf(w) \in Plans
  BY <1>1 DEF PlanOf, Plans
<1>3. nodeInfo[w] # Unread
  BY <1>1, PlanAssumption
<1>4. PlanOf(w) # Idle
  BY <1>2, PlanAssumption
<1>. QED BY <1>3, <1>4 DEF PlanOf, Planned, Intent!Content

\* Init implies the initial states of VpcIntent.
LEMMA IntentInit == Init => Intent!Init
<1>. SUFFICES ASSUME Init PROVE Intent!Init
  OBVIOUS
<1>1. currentPlan = [c \in Vpcs |-> Idle]
  BY DEF Init, currentPlan, Planning
<1>2. cr \in [Vpcs -> Intent!StoredCr]
  BY StoredCrsType DEF Init, CrType, Intent!StoredCr
<1>. QED BY <1>1, <1>2 DEF Init, Intent!Init, NoChildren, Intent!NoChildren

\* A step of the reconcile that leaves the resources, the topology, the devices and
\* the plan of its vpc is a stutter, one that drops the plan is its end.
LEMMA QuietStep ==
  ASSUME TypeOK, WorkersOK', NEW w \in Workers, OthersWait(w), pc[w] # "idle",
         IF pc'[w] = "idle" THEN key'[w] = NoVpc ELSE key'[w] = key[w],
         UNCHANGED <<cr, topo, device, env>>,
         Intends(w)' \in {Intends(w), Idle}
  PROVE  [Intent!Next]_(Intent!vars)
<1>1. /\ key[w] \in Vpcs /\ currentPlan[key[w]] = Intends(w)
      /\ currentPlan' = [currentPlan EXCEPT ![key[w]] = Intends(w)']
  BY PlanStep DEF TypeOK
<1>2. CASE Intends(w)' = Intends(w)
  <2>1. currentPlan' = currentPlan
    BY <1>1, <1>2, PlanFunction
  <2>. QED BY <2>1 DEF Intent!vars
<1>3. CASE Intends(w)' = Idle
  <2>1. Intent!End(key[w])
    BY <1>1, <1>3 DEF Intent!End
  <2>. QED BY <1>1, <2>1 DEF Intent!Next
<1>. QED BY <1>2, <1>3

\* GetManaged begins a plan, whatever comes before or after it has none.
LEMMA ManagedStep ==
  ASSUME TypeOK, WorkersOK', NEW w \in Workers, OthersWait(w),
         Dequeue(w) \/ GetAbsent(w) \/ GetManaged(w) \/ Done(w)
  PROVE  [Intent!Next]_(Intent!vars)
<1>. DEFINE c == key[w]
<1>1. CASE Dequeue(w)
  <2>1. /\ pc[w] = "idle" /\ pc'[w] = "get" /\ UNCHANGED <<cr, topo, device, env>>
        /\ \A v \in Workers \ {w} : key'[v] = key[v] /\ Intends(v)' = Intends(v)
    BY <1>1 DEF Dequeue, Goto, apiVars, bounds, TypeOK, WorkersOK, OthersWait, Intends,
       Planning, PlanOf, HasSurveyed
  <2>2. ASSUME NEW d \in Vpcs PROVE currentPlan'[d] = currentPlan[d]
    <3>1. CASE key'[w] = d
      <4>1. currentPlan'[d] = Idle
        BY <2>1, <3>1, PlanOfNextHolder DEF Intends, Planning
      <4>2. \A v \in Workers : key[v] # d
        BY <1>1, <2>1, <3>1, ConstantsAssumption DEF Dequeue, TypeOK, WorkersOK, QueueOK
      <4>. QED BY <4>1, <4>2, PlanOfHolder DEF TypeOK
    <3>2. ASSUME key'[w] # d, NEW v \in Workers, key'[v] = d
          PROVE  currentPlan'[d] = currentPlan[d]
      <4>1. v # w /\ key[v] = d /\ pc[v] # "idle" /\ pc'[v] # "idle"
        BY <2>1, <3>2, ConstantsAssumption DEF OthersWait, TypeOK, WorkersOK
      <4>. QED BY <2>1, <4>1, PlanOfHolder, PlanOfNextHolder DEF OthersWait, TypeOK
    <3>3. ASSUME \A v \in Workers : key'[v] # d PROVE currentPlan'[d] = currentPlan[d]
      <4>1. \A v \in Workers : key[v] # d
        BY <2>1, <3>3, ConstantsAssumption DEF TypeOK, WorkersOK
      <4>. QED BY <3>3, <4>1, PlanOfHolder, PlanOfNextHolder DEF TypeOK
    <3>. QED BY <3>1, <3>2, <3>3
  <2>3. currentPlan' = currentPlan
    BY <2>2, PlanFunction
  <2>. QED BY <2>1, <2>3 DEF Intent!vars
<1>2. CASE GetManaged(w)
  <2>1. /\ pc[w] = "get" /\ pc'[w] = "start" /\ key' = key /\ cr[c].phase # "absent"
        /\ cr' = [cr EXCEPT ![c].finalizer = TRUE] /\ UNCHANGED <<topo, device, env>>
        /\ mg'[w] = [spec |-> cr[c].spec, gone |-> FALSE, deleting |-> cr[c].phase = "deleting"]
    BY <1>2 DEF GetManaged, Goto, bounds, TypeOK, WorkersOK, StoreOK
  <2>2. /\ c \in Vpcs /\ currentPlan[c] = Idle
        /\ currentPlan' = [currentPlan EXCEPT ![c] = PlanOf(w)']
    BY <2>1, PlanStep DEF TypeOK, Intends, Planning
  <2>3. PlanOf(w)' = [spec |-> cr[c].spec, nodes |-> Unread, deleting |-> cr[c].phase = "deleting"]
    BY <2>1 DEF PlanOf, HasSurveyed
  <2>4. Intent!Begin(c)
    BY <2>1, <2>2, <2>3 DEF Intent!Begin
  <2>. QED BY <2>2, <2>4 DEF Intent!Next
<1>3. CASE GetAbsent(w) \/ Done(w)
  <2>1. /\ pc[w] \in {"get", "done"} /\ pc'[w] = "idle" /\ key'[w] = NoVpc
        /\ UNCHANGED <<cr, topo, device, env>>
    BY <1>3 DEF GetAbsent, Done, Release, Goto, apiVars, bounds, TypeOK, WorkersOK
  <2>. QED BY <2>1, QuietStep DEF Intends, Planning
<1>. QED BY <1>1, <1>2, <1>3

\* GatherNodeInfo surveys; the rest of populateSchema is quiet, or ends in an error.
LEMMA PopulateStep ==
  ASSUME TypeOK, WorkersOK', NEW w \in Workers, OthersWait(w), Populate(w)
  PROVE  [Intent!Next]_(Intent!vars)
<1>. DEFINE c == key[w]
<1>1. CASE NiRegisterUnavailable(w)
  <2>1. /\ pc[w] = "collect" /\ pc'[w] \in {"final", "timeout", "done"} /\ key' = key
        /\ UNCHANGED <<cr, topo, device, env>>
    BY <1>1 DEF NiRegisterUnavailable, FailTo, Goto, apiVars, bounds, TypeOK, WorkersOK
  <2>. QED BY <2>1, QuietStep DEF Intends, Planning
<1>2. CASE GatherNodeInfo(w)
  <2>1. /\ pc[w] = "collect" /\ pc'[w] = "populate" /\ nodeInfo'[w] = topo
        /\ UNCHANGED <<cr, topo, device, env, key, mg>>
    BY <1>2 DEF GatherNodeInfo, Goto, apiVars, bounds, TypeOK, WorkersOK, StoreOK
  <2>2. /\ c \in Vpcs /\ currentPlan[c] = PlanOf(w)
        /\ currentPlan' = [currentPlan EXCEPT ![c] = PlanOf(w)']
    BY <2>1, PlanStep DEF TypeOK, Intends, Planning
  <2>3. PlanOf(w) # Idle /\ PlanOf(w).nodes = Unread
    BY <2>1, PlanFacts DEF HasSurveyed
  <2>4. PlanOf(w)' = [PlanOf(w) EXCEPT !.nodes = topo]
    BY <2>1 DEF PlanOf, HasSurveyed
  <2>5. currentPlan' = [currentPlan EXCEPT ![c].nodes = topo]
    BY <2>2, <2>4
  <2>6. Intent!Survey(c)
    BY <2>1, <2>2, <2>3, <2>5 DEF Intent!Survey
  <2>. QED BY <2>2, <2>6 DEF Intent!Next
<1>3. CASE ~NiRegisterUnavailable(w) /\ ~GatherNodeInfo(w)
  <2>1. /\ \/ /\ pc[w] \in {"start", "reset", "strategy", "create", "collect"}
              /\ pc'[w] \in {"reset", "strategy", "create", "collect"}
           \/ pc[w] = "populate" /\ pc'[w] = "populate"
        /\ UNCHANGED <<cr, topo, device, env, key, mg, nodeInfo>>
    BY <1>3 DEF Populate, StartCallback, ResetMaps, GetAllocationStrategy, CreateNiRegister,
       CreateDone, GetNiRegister, PopulateNi, Step, Goto, apiVars, bounds, TypeOK, WorkersOK
  <2>2. Intends(w)' = Intends(w)
    BY <2>1 DEF Intends, Planning, PlanOf, HasSurveyed
  <2>. QED BY <2>1, <2>2, QuietStep
<1>. QED BY <1>1, <1>2, <1>3

\* Every write of Update is that of the plan for one node.
LEMMA UpdateStep ==
  ASSUME TypeOK, IntentInv, KeptInv, PlanInv, WorkersOK', NEW w \in Workers, OthersWait(w),
         Update(w)
  PROVE  [Intent!Next]_(Intent!vars)
<1>. DEFINE c == key[w]
<1>1. FollowsPlan(w)
  BY DEF PlanInv
<1>2. CASE RemoveStale(w)
  <2>1. PICK n \in todo[w] : SaveDevice(c, n, {}) /\ Step(w, "remove", todo[w] \ {n})
    BY <1>2 DEF RemoveStale
  <2>2. /\ pc[w] = "remove" /\ pc'[w] = "remove" /\ n \in Nodes
        /\ device' = [device EXCEPT ![c][n] = {}]
        /\ UNCHANGED <<cr, topo, env, key, mg, nodeInfo>>
    BY <1>2, <2>1 DEF RemoveStale, SaveDevice, Step, Goto, bounds, TypeOK, WorkersOK, StoreOK
  <2>3. Intends(w)' = Intends(w) /\ Intends(w) = PlanOf(w) /\ HasSurveyed(w)
    BY <2>2 DEF Intends, Planning, PlanOf, HasSurveyed
  <2>4. c \in Vpcs /\ currentPlan[c] = PlanOf(w) /\ currentPlan' = currentPlan
    BY <2>2, <2>3, PlanStep, PlanFunction DEF TypeOK
  <2>5. Intent!Surveyed(c) /\ Intent!Content(currentPlan[c]) = Planned(w)
    BY <2>3, <2>4, PlanFacts DEF Intent!Surveyed
  <2>6. ~currentPlan[c].deleting /\ Planned(w)[n] = {}
    BY <1>1, <2>2, <2>4 DEF FollowsPlan, PlanOf
  <2>7. Intent!Remove(c, n)
    BY <2>2, <2>4, <2>5, <2>6 DEF Intent!Remove
  <2>. QED BY <2>2, <2>4, <2>7 DEF Intent!Next
<1>3. CASE Deploy(w)
  <2>1. PICK n \in todo[w] :
          SaveDevice(c, n, intents[c][n]) /\ Step(w, "deploy", todo[w] \ {n})
    BY <1>3 DEF Deploy
  <2>2. /\ pc[w] = "deploy" /\ pc'[w] = "deploy" /\ n \in Nodes
        /\ device' = [device EXCEPT ![c][n] = Planned(w)[n]]
        /\ UNCHANGED <<cr, topo, env, key, mg, nodeInfo>>
    BY <1>3, <2>1, PlannedNodes DEF Deploy, SaveDevice, Step, Goto, bounds, TypeOK,
       WorkersOK, StoreOK
  <2>3. Intends(w)' = Intends(w) /\ Intends(w) = PlanOf(w) /\ HasSurveyed(w)
    BY <2>2 DEF Intends, Planning, PlanOf, HasSurveyed
  <2>4. c \in Vpcs /\ currentPlan[c] = PlanOf(w) /\ currentPlan' = currentPlan
    BY <2>2, <2>3, PlanStep, PlanFunction DEF TypeOK
  <2>5. Intent!Surveyed(c) /\ Intent!Content(currentPlan[c]) = Planned(w)
    BY <2>3, <2>4, PlanFacts DEF Intent!Surveyed
  <2>6. /\ ~currentPlan[c].deleting /\ Planned(w)[n] # {}
        /\ cr[c].phase # "absent"
    BY <1>1, <2>2, <2>4 DEF FollowsPlan, KeptInv, IsKept, PlanOf
  <2>7. Intent!Write(c, n)
    BY <2>2, <2>4, <2>5, <2>6 DEF Intent!Write
  <2>. QED BY <2>2, <2>4, <2>7 DEF Intent!Next
<1>4. CASE ListAndValidate(w) \/ RemoveDone(w)
  <2>1. /\ pc[w] \in {"populate", "remove"} /\ pc'[w] \in {"remove", "deploy"}
        /\ UNCHANGED <<cr, topo, device, env, key, mg, nodeInfo>>
    BY <1>4 DEF ListAndValidate, RemoveDone, Populated, Step, Goto, apiVars, bounds, TypeOK,
       WorkersOK
  <2>2. Intends(w)' = Intends(w)
    BY <2>1 DEF Intends, Planning, PlanOf, HasSurveyed
  <2>. QED BY <2>1, <2>2, QuietStep
<1>5. CASE Relist(w) \/ FinalUpdate(w) \/ TimeoutRead(w) \/ TimeoutIncrement(w)
  <2>1. /\ pc[w] # "idle" /\ pc'[w] \in {"final", "timeout", "increment", "done"}
        /\ UNCHANGED <<cr, topo, device, env, key>>
    BY <1>5 DEF Relist, FinalUpdate, TimeoutRead, TimeoutIncrement, Step, Goto, apiVars,
       bounds, TypeOK, WorkersOK
  <2>. QED BY <2>1, QuietStep DEF Intends, Planning
<1>. QED BY <1>2, <1>3, <1>4, <1>5 DEF Update

\* Every removal of FinalDelete is one of the plan, and the resource goes once.
LEMMA DeleteStep ==
  ASSUME TypeOK, IntentInv, PlanInv, WorkersOK', NEW w \in Workers, OthersWait(w),
         FinalDelete(w)
  PROVE  [Intent!Next]_(Intent!vars)
<1>. DEFINE c == key[w]
<1>1. FollowsPlan(w)
  BY DEF PlanInv
<1>2. CASE Destroy(w)
  <2>1. PICK n \in todo[w] : SaveDevice(c, n, {}) /\ Step(w, "destroy", todo[w] \ {n})
    BY <1>2 DEF Destroy
  <2>2. /\ pc[w] = "destroy" /\ pc'[w] = "destroy" /\ n \in Nodes
        /\ device' = [device EXCEPT ![c][n] = {}]
        /\ UNCHANGED <<cr, topo, env, key, mg, nodeInfo>>
    BY <1>2, <2>1 DEF Destroy, SaveDevice, Step, Goto, bounds, TypeOK, WorkersOK, StoreOK
  <2>3. Intends(w)' = Intends(w) /\ Intends(w) = PlanOf(w) /\ HasSurveyed(w)
    BY <2>2 DEF Intends, Planning, PlanOf, HasSurveyed
  <2>4. c \in Vpcs /\ currentPlan[c] = PlanOf(w) /\ currentPlan' = currentPlan
    BY <2>2, <2>3, PlanStep, PlanFunction DEF TypeOK
  <2>5. Intent!Surveyed(c) /\ Intent!Content(currentPlan[c]) = Planned(w)
    BY <2>3, <2>4, PlanFacts DEF Intent!Surveyed
  <2>6. currentPlan[c].deleting /\ Planned(w)[n] # {}
    BY <1>1, <2>2, <2>4 DEF FollowsPlan, PlanOf
  <2>7. Intent!Remove(c, n)
    BY <2>2, <2>4, <2>5, <2>6 DEF Intent!Remove
  <2>. QED BY <2>2, <2>4, <2>7 DEF Intent!Next
<1>3. CASE RemoveFinalizerFirst(w) \/ RemoveFinalizerLast(w)
  <2>1. /\ cr' = [cr EXCEPT ![c] = AbsentCr] /\ UNCHANGED <<topo, device, env>>
        /\ HasSurveyed(w) /\ Planning(w) /\ mg[w].deleting
    BY <1>1, <1>3 DEF RemoveFinalizerFirst, RemoveFinalizerLast, Populated, bounds,
       HasSurveyed, Planning, FollowsPlan
  <2>2. Intends(w)' \in {Intends(w), Idle}
    <3>1. CASE RemoveFinalizerFirst(w)
      <4>1. /\ pc[w] = "populate" /\ pc'[w] = "destroy" /\ nodeInfo' = nodeInfo
            /\ mg' = [mg EXCEPT ![w].gone = TRUE]
        BY <3>1 DEF RemoveFinalizerFirst, Populated, Goto, TypeOK, WorkersOK
      <4>2. mg'[w].spec = mg[w].spec /\ mg'[w].deleting = mg[w].deleting
        BY <4>1 DEF TypeOK, StoreOK, MgType
      <4>. QED BY <4>1, <4>2 DEF Intends, Planning, PlanOf, HasSurveyed
    <3>2. CASE RemoveFinalizerLast(w)
      BY <3>2 DEF RemoveFinalizerLast, Release, Goto, TypeOK, WorkersOK, Intends, Planning
    <3>. QED BY <1>3, <3>1, <3>2
  <2>3. IF pc'[w] = "idle" THEN key'[w] = NoVpc ELSE key'[w] = key[w]
    BY <1>3 DEF RemoveFinalizerFirst, RemoveFinalizerLast, Release, Goto, TypeOK, WorkersOK
  <2>4. /\ c \in Vpcs /\ currentPlan[c] = PlanOf(w)
        /\ currentPlan' = [currentPlan EXCEPT ![c] = Intends(w)']
    BY <2>1, <2>3, PlanStep DEF TypeOK, Intends, Planning
  <2>5. Intent!Surveyed(c) /\ currentPlan[c].deleting
    <3>1. PlanOf(w) # Idle /\ PlanOf(w).nodes # Unread
      BY <2>1, PlanFacts
    <3>2. PlanOf(w).deleting
      BY <2>1 DEF PlanOf
    <3>. QED BY <2>4, <3>1, <3>2 DEF Intent!Surveyed
  <2>6. UNCHANGED currentPlan \/ currentPlan' = [currentPlan EXCEPT ![c] = Idle]
    BY <2>1, <2>2, <2>4, PlanFunction DEF Intends
  <2>7. Intent!Finish(c)
    BY <2>1, <2>5, <2>6 DEF Intent!Finish, AbsentCr, Intent!AbsentCr
  <2>. QED BY <2>4, <2>7 DEF Intent!Next
<1>4. CASE BeginDestroy(w)
  <2>1. /\ pc[w] = "populate" /\ pc'[w] = "destroy"
        /\ UNCHANGED <<cr, topo, device, env, key, mg, nodeInfo>>
    BY <1>4 DEF BeginDestroy, Populated, Step, Goto, apiVars, bounds, TypeOK, WorkersOK
  <2>2. Intends(w)' = Intends(w)
    BY <2>1 DEF Intends, Planning, PlanOf, HasSurveyed
  <2>. QED BY <2>1, <2>2, QuietStep
<1>5. CASE ForgetSpeedy(w)
  <2>1. CASE mg[w].gone
    <3>1. /\ pc[w] = "destroy" /\ pc'[w] = "idle" /\ key'[w] = NoVpc
          /\ UNCHANGED <<cr, topo, device, env>>
      BY <1>5, <2>1 DEF ForgetSpeedy, Release, Goto, apiVars, bounds, TypeOK, WorkersOK
    <3>. QED BY <3>1, QuietStep DEF Intends, Planning
  <2>2. CASE ~mg[w].gone
    <3>1. /\ pc[w] = "destroy" /\ pc'[w] = "unfinalize"
          /\ UNCHANGED <<cr, topo, device, env, key, mg, nodeInfo>>
      BY <1>5, <2>2 DEF ForgetSpeedy, Step, Goto, apiVars, bounds, TypeOK, WorkersOK
    <3>2. Intends(w)' = Intends(w)
      BY <3>1 DEF Intends, Planning, PlanOf, HasSurveyed
    <3>. QED BY <3>1, <3>2, QuietStep
  <2>. QED BY <2>1, <2>2
<1>. QED BY <1>2, <1>3, <1>4, <1>5 DEF FinalDelete

\* A failed call, of a loop or of another step, is quiet or ends the plan.
LEMMA ErrorStep ==
  ASSUME TypeOK, WorkersOK', NEW w \in Workers, OthersWait(w),
         ApiError(w) \/ DestroyError(w)
  PROVE  [Intent!Next]_(Intent!vars)
<1>1. CASE ApiError(w)
  <2>1. /\ pc[w] # "idle" /\ pc'[w] \in {"final", "timeout", "done"} /\ key' = key
        /\ UNCHANGED <<cr, topo, device, env>>
    BY <1>1 DEF ApiError, ApiCalls, FailTo, Goto, apiVars, TypeOK, WorkersOK
  <2>. QED BY <2>1, QuietStep DEF Intends, Planning
<1>2. CASE DestroyError(w)
  <2>1. /\ pc[w] = "destroy" /\ pc'[w] = "destroy"
        /\ UNCHANGED <<cr, topo, device, env, key, mg, nodeInfo>>
    BY <1>2 DEF DestroyError, Step, Goto, apiVars, TypeOK, WorkersOK
  <2>2. Intends(w)' = Intends(w)
    BY <2>1 DEF Intends, Planning, PlanOf, HasSurveyed
  <2>. QED BY <2>1, <2>2, QuietStep
<1>. QED BY <1>1, <1>2

\* Users, the topology and the writers of devices are those of VpcIntent.
LEMMA EnvironmentStep == ASSUME TypeOK, Environment PROVE Intent!Next
<1>1. ASSUME NEW c \in Vpcs, CreateVpc(c) \/ EditVpc(c) \/ DeleteVpc(c) PROVE Intent!Next
  <2>1. currentPlan' = currentPlan
    BY <1>1, PlanStays DEF CreateVpc, EditVpc, DeleteVpc, SaveCr, workerVars
  <2>2. ASSUME NEW value, SaveCr(c, value) PROVE Intent!UserSave(c, value)
    BY <2>1, <2>2 DEF SaveCr, EnvStep, Intent!UserSave, Intent!Others
  <2>3. CASE CreateVpc(c)
    <3>1. PICK s \in SUBSET Nis : SaveCr(c, LiveCr(s))
      BY <2>3 DEF CreateVpc
    <3>2. cr[c].phase = "absent" /\ Intent!UserSave(c, LiveCr(s))
      BY <2>2, <2>3, <3>1 DEF CreateVpc
    <3>3. Intent!User(c)
      BY <3>2 DEF Intent!User, LiveCr
    <3>. QED BY <3>3 DEF Intent!Next
  <2>4. CASE EditVpc(c)
    <3>1. PICK s \in SUBSET Nis : SaveCr(c, [cr[c] EXCEPT !.spec = s])
      BY <2>4 DEF EditVpc
    <3>2. cr[c].phase # "absent" /\ Intent!UserSave(c, [cr[c] EXCEPT !.spec = s])
      BY <2>2, <2>4, <3>1 DEF EditVpc
    <3>3. Intent!User(c)
      BY <3>2 DEF Intent!User
    <3>. QED BY <3>3 DEF Intent!Next
  <2>5. CASE DeleteVpc(c)
    <3>1. /\ cr[c].phase = "live"
          /\ Intent!UserSave(c, IF cr[c].finalizer THEN [cr[c] EXCEPT !.phase = "deleting"]
                                ELSE AbsentCr)
      BY <2>2, <2>5 DEF DeleteVpc
    <3>2. Intent!User(c)
      BY <3>1 DEF Intent!User, AbsentCr, Intent!AbsentCr
    <3>. QED BY <3>2 DEF Intent!Next
  <2>. QED BY <1>1, <2>3, <2>4, <2>5
<1>2. ASSUME NEW n \in Nodes, ChangeTopology(n) PROVE Intent!Next
  <2>1. currentPlan' = currentPlan
    BY <1>2, PlanStays DEF ChangeTopology, workerVars
  <2>2. Intent!ChangeTopology
    BY <1>2, <2>1 DEF ChangeTopology, EnvStep, Intent!ChangeTopology, Intent!Others,
       TypeOK, StoreOK
  <2>. QED BY <2>2 DEF Intent!Next
<1>3. ASSUME NEW c \in Vpcs, NEW n \in Nodes, LoseDevice(c, n) PROVE Intent!Next
  <2>1. currentPlan' = currentPlan
    BY <1>3, PlanStays DEF LoseDevice, workerVars
  <2>2. Intent!Lose(c, n)
    BY <1>3, <2>1 DEF LoseDevice, SaveDevice, EnvStep, Intent!Lose, Intent!Others
  <2>. QED BY <2>2 DEF Intent!Next
<1>. QED BY <1>1, <1>2, <1>3 DEF Environment

\* A new process has no plans.
LEMMA CrashStep == ASSUME Restart \/ ConcurrentMapFatal PROVE Intent!Next
<1>1. currentPlan' = [c \in Vpcs |-> Idle]
  BY DEF Restart, ConcurrentMapFatal, FreshProcess, currentPlan, Planning
<1>2. UNCHANGED <<cr, topo, device, env>>
  BY DEF Restart, ConcurrentMapFatal, FreshProcess, apiVars, bounds
<1>3. Intent!Crash
  BY <1>1, <1>2 DEF Intent!Crash
<1>. QED BY <1>3 DEF Intent!Next

\* Every step of the controller is one of VpcIntent or leaves its state alone.
LEMMA StepImplements ==
  TypeOK /\ IntentInv /\ KeptInv /\ PlanInv /\ WorkersOK' /\ [Next]_vars
    => [Intent!Next]_(Intent!vars)
<1>. SUFFICES ASSUME TypeOK, IntentInv, KeptInv, PlanInv, WorkersOK', [Next]_vars
     PROVE  [Intent!Next]_(Intent!vars)
  OBVIOUS
<1>1. ASSUME NEW w \in Workers, WorkerStep(w) PROVE [Intent!Next]_(Intent!vars)
  <2>1. OthersWait(w)
    BY <1>1, WorkersApart
  <2>. QED
    BY <1>1, <2>1, ManagedStep, PopulateStep, UpdateStep, DeleteStep, ErrorStep
    DEF WorkerStep, Reconcile
<1>2. UNCHANGED <<apiVars, workerVars, env>> => [Intent!Next]_(Intent!vars)
  BY PlanStays DEF apiVars, Intent!vars
<1>3. ASSUME Registry PROVE [Intent!Next]_(Intent!vars)
  <2>1. UNCHANGED <<cr, topo, device, env, workerVars>>
    BY <1>3 DEF Registry, AllocateNi, CollectRegister, bounds
  <2>. QED BY <2>1, PlanStays DEF Intent!vars
<1>4. ASSUME Watch \/ WatchListError \/ (\E c \in Vpcs : FireTimer(c))
      PROVE  UNCHANGED <<apiVars, workerVars, env>>
  BY <1>4 DEF Watch, WatchList, WatchReset, WatchAdd, WatchListError, FireTimer, bounds
<1>5. UNCHANGED vars => UNCHANGED <<apiVars, workerVars, env>>
  BY DEF vars, bounds
<1>. QED
  BY <1>1, <1>2, <1>3, <1>4, <1>5, EnvironmentStep, CrashStep DEF Next, WorkerStep,
     Fault

\* Whatever the number of vpcs, workers, network instances, nodes, changes and faults:
\* every behaviour of the controller is one of VpcIntent, so that a device of a vpc
\* only ever gets what a complete plan says of it, never half a plan, two mixed ones,
\* or one of a vpc that is gone (reconciler.go Update, Delete and FinalDelete).
THEOREM RefinementCorrect == Spec => ImplementsIntent
<1>1. TypeOK /\ IntentInv /\ KeptInv /\ PlanInv /\ TypeOK' /\ [Next]_vars
        => [Intent!Next]_(Intent!vars)
  BY StepImplements DEF TypeOK
<1>. QED BY <1>1, IntentInit, PlanInvariant, PTL DEF Spec, ImplementsIntent, Intent!Spec
=============================================================================
