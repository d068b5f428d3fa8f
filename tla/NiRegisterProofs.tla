-------------------------- MODULE NiRegisterProofs --------------------------
(***************************************************************************)
(* Theorems about NiRegister, for every number of vpcs, network instances, *)
(* indexes, users' changes and faults.                                     *)
(*                                                                         *)
(* What a lagging cache can break is IndexHeld alone: as long as no worker *)
(* uses an index that its register has lost meanwhile, what is configured  *)
(* stays allocated (IndexKept) and is configured once (IndexExclusive),    *)
(* for every lag. It takes a cache more than three changes behind to break *)
(* it: up to that lag no assumption is left.                               *)
(***************************************************************************)
EXTENDS NiRefinement, TLAPS

-----------------------------------------------------------------------------
(* Types                                                                    *)

CrType ==
  [phase : {"absent", "live", "deleting"}, finalizer : BOOLEAN, spec : SUBSET Nis]

\* A change of a register reaches the API server and, later, the cache.
LEMMA SaveTypes ==
  ASSUME TypeOK, NEW c \in Vpcs, NEW ni \in Nis, NEW value \in RegisterValue,
         SaveRegister(c, ni, value)
  PROVE  /\ register' \in [Vpcs -> [Nis -> RegisterValue]]
         /\ news' \in [Vpcs -> [Nis -> Seq(RegisterValue)]]
         /\ \A d \in Vpcs, mi \in Nis : Len(news'[d][mi]) <= MaxLag
BY NiRegisterAssumption DEF SaveRegister, TypeOK

\* A step of a worker keeps the types.
LEMMA ReconcileTypes ==
  ASSUME TypeOK, NEW c \in Vpcs, Reconcile(c)
  PROVE  TypeOK'
<1>. USE NiRegisterAssumption DEF RegisterValue, IndexMap
<1>1. CASE Begin(c)
  <2>1. cr[c] \in CrType /\ cr[c].spec \in SUBSET Nis
    BY DEF TypeOK, CrType
  <2>2. [cr[c] EXCEPT !.finalizer = TRUE] \in CrType
    BY <2>1 DEF CrType
  <2>3. cr' \in [Vpcs -> CrType]
    BY <1>1, <2>2 DEF Begin, TypeOK, CrType
  <2>4. /\ pc' \in [Vpcs -> {"idle", "create", "collect", "destroy", "unfinalize"}]
        /\ todo' \in [Vpcs -> SUBSET Nis] /\ plan' \in [Vpcs -> SUBSET Nis]
        /\ deleting' \in [Vpcs -> BOOLEAN]
    BY <1>1, <2>1 DEF Begin, Goto, TypeOK
  <2>. QED BY <1>1, <2>3, <2>4 DEF Begin, TypeOK, CrType
<1>2. CASE CreateNiRegister(c)
  <2>1. PICK ni \in todo[c] :
          /\ IF seen[c][ni] = None
             THEN register[c][ni] = None /\ SaveRegister(c, ni, Pending)
             ELSE register[c][ni] # None /\ UNCHANGED <<register, news>>
          /\ owned' = [owned EXCEPT ![c] = @ \cup {ni}]
          /\ Goto(c, "create", todo[c] \ {ni})
    BY <1>2 DEF CreateNiRegister
  <2>2. ni \in Nis
    BY DEF TypeOK
  <2>3. /\ register' \in [Vpcs -> [Nis -> RegisterValue]]
        /\ news' \in [Vpcs -> [Nis -> Seq(RegisterValue)]]
        /\ \A d \in Vpcs, mi \in Nis : Len(news'[d][mi]) <= MaxLag
    <3>1. CASE SaveRegister(c, ni, Pending)
      BY <2>2, <3>1, SaveTypes
    <3>2. CASE UNCHANGED <<register, news>>
      BY <3>2 DEF TypeOK
    <3>. QED BY <2>1, <3>1, <3>2
  <2>4. /\ owned' \in [Vpcs -> SUBSET Nis] /\ todo' \in [Vpcs -> SUBSET Nis]
        /\ pc' \in [Vpcs -> {"idle", "create", "collect", "destroy", "unfinalize"}]
    BY <2>1, <2>2 DEF Goto, TypeOK
  <2>. QED BY <1>2, <2>3, <2>4 DEF CreateNiRegister, TypeOK
<1>3. CASE CreateNiRegisterFails(c)
  BY <1>3 DEF CreateNiRegisterFails, Goto, Fail, Nothing, apiVars, TypeOK
<1>4. CASE CreateDone(c)
  BY <1>4 DEF CreateDone, Goto, apiVars, TypeOK
<1>5. CASE GetNiRegister(c)
  BY <1>5 DEF GetNiRegister, Goto, apiVars, TypeOK
<1>6. CASE NiRegisterUnavailable(c)
  BY <1>6 DEF NiRegisterUnavailable, Goto, Fail, Nothing, apiVars, TypeOK
<1>7. CASE Deploy(c)
  BY <1>7 DEF Deploy, Goto, AllCollected, Nothing, apiVars, TypeOK
<1>8. CASE BeginDestroy(c)
  BY <1>8 DEF BeginDestroy, Goto, AllCollected, apiVars, TypeOK
<1>9. CASE RemoveFinalizerFirst(c)
  BY <1>9 DEF RemoveFinalizerFirst, Goto, AllCollected, RemoveCr, AbsentCr, TypeOK
<1>10. CASE Destroy(c)
  <2>1. /\ UNCHANGED <<apiVars, plan, deleting, env, faults>>
        /\ AfterDestroy(c)
    BY <1>10 DEF Destroy, AfterDestroy
  <2>2. /\ device' \in {device, [device EXCEPT ![c] = Nothing]}
        /\ inherited' \in {inherited, inherited \ {c}}
    BY <1>10 DEF Destroy
  <2>3. device' \in [Vpcs -> IndexMap] /\ inherited' \subseteq Vpcs
    <3>1. Nothing \in IndexMap
      BY DEF Nothing, IndexMap
    <3>2. device \in [Vpcs -> IndexMap] /\ inherited \subseteq Vpcs
      BY DEF TypeOK
    <3>. HIDE DEF IndexMap
    <3>. QED BY ONLY <2>2, <3>1, <3>2
  <2>4. /\ pc' \in [Vpcs -> {"idle", "create", "collect", "destroy", "unfinalize"}]
        /\ todo' \in [Vpcs -> SUBSET Nis] /\ gone' \in [Vpcs -> BOOLEAN]
    BY <2>1 DEF AfterDestroy, Goto, TypeOK
  <2>5. niInfos' \in [Vpcs -> IndexMap]
    BY <2>1 DEF AfterDestroy, Nothing, TypeOK
  <2>. QED BY <2>1, <2>3, <2>4, <2>5 DEF apiVars, TypeOK
<1>11. CASE RemoveFinalizerLast(c)
  BY <1>11 DEF RemoveFinalizerLast, Goto, RemoveCr, AbsentCr, TypeOK
<1>. QED BY <1>1, <1>2, <1>3, <1>4, <1>5, <1>6, <1>7, <1>8, <1>9, <1>10, <1>11 DEF Reconcile

\* So does everything around the workers.
LEMMA EnvironmentTypes ==
  ASSUME TypeOK, NEW c \in Vpcs,
         DestroyError(c) \/ Abort(c) \/ CreateVpc(c) \/ EditVpc(c) \/ DeleteVpc(c)
  PROVE  TypeOK'
<1>. USE NiRegisterAssumption DEF RegisterValue, IndexMap
<1>1. CASE DestroyError(c)
  BY <1>1 DEF DestroyError, AfterDestroy, Goto, Nothing, apiVars, TypeOK
<1>2. CASE Abort(c)
  BY <1>2 DEF Abort, Fail, Goto, Nothing, apiVars, TypeOK
<1>3. ASSUME NEW value \in CrType, SaveCr(c, value), owned' \in [Vpcs -> SUBSET Nis],
             inherited' \subseteq Vpcs
      PROVE  TypeOK'
  BY <1>3 DEF SaveCr, CrType, workerVars, TypeOK
<1>0. cr[c] \in CrType
  BY DEF TypeOK, CrType
<1>4. CASE CreateVpc(c)
  <2>1. PICK s \in SUBSET Nis :
          SaveCr(c, [phase |-> "live", finalizer |-> FALSE, spec |-> s])
    BY <1>4 DEF CreateVpc
  <2>2. [phase |-> "live", finalizer |-> FALSE, spec |-> s] \in CrType
    BY DEF CrType
  <2>. QED BY <1>3, <1>4, <2>1, <2>2 DEF CreateVpc, TypeOK
<1>5. CASE EditVpc(c)
  <2>1. PICK s \in SUBSET Nis : SaveCr(c, [cr[c] EXCEPT !.spec = s])
    BY <1>5 DEF EditVpc
  <2>2. [cr[c] EXCEPT !.spec = s] \in CrType
    BY <1>0 DEF CrType
  <2>. QED BY <1>3, <1>5, <2>1, <2>2 DEF EditVpc, TypeOK
<1>6. CASE DeleteVpc(c)
  <2>1. [cr[c] EXCEPT !.phase = "deleting"] \in CrType /\ AbsentCr \in CrType
    BY <1>0 DEF CrType, AbsentCr
  <2>2. owned' \in [Vpcs -> SUBSET Nis] /\ inherited' \subseteq Vpcs
    BY <1>6 DEF DeleteVpc, TypeOK
  <2>. QED BY <1>3, <1>6, <2>1, <2>2 DEF DeleteVpc
<1>. QED BY <1>1, <1>2, <1>4, <1>5, <1>6

\* And so do the cache, the registry and the garbage collector.
LEMMA RegistryTypes ==
  ASSUME TypeOK, NEW c \in Vpcs, NEW ni \in Nis,
         Deliver(c, ni) \/ AllocateNi(c, ni) \/ CollectRegister(c, ni)
  PROVE  TypeOK'
<1>. USE NiRegisterAssumption DEF RegisterValue, IndexMap
<1>1. CASE Deliver(c, ni)
  BY <1>1 DEF Deliver, apiVars, workerVars, TypeOK
<1>2. CASE AllocateNi(c, ni)
  BY <1>2 DEF AllocateNi, SaveRegister, workerVars, TypeOK
<1>3. CASE CollectRegister(c, ni)
  BY <1>3 DEF CollectRegister, SaveRegister, workerVars, TypeOK
<1>. QED BY <1>1, <1>2, <1>3

\* So does every step.
LEMMA TypesStep ==
  ASSUME TypeOK, [Next]_vars
  PROVE  TypeOK'
<1>1. CASE UNCHANGED vars
  BY <1>1 DEF vars, apiVars, workerVars, TypeOK
<1>. QED BY <1>1, ReconcileTypes, EnvironmentTypes, RegistryTypes DEF Next

\* Every variable keeps its type.
THEOREM TypeCorrect == Spec => []TypeOK
<1>1. Init => TypeOK
  BY NiRegisterAssumption DEF Init, TypeOK, Nothing, AbsentCr, RegisterValue, IndexMap
<1>2. TypeOK /\ [Next]_vars => TypeOK'
  BY TypesStep
<1>. QED BY <1>1, <1>2, PTL DEF Spec

-----------------------------------------------------------------------------
(* Indexes                                                                  *)

\* What a worker has collected stands while neither it nor its vpc changes.
LEMMA CollectingSame ==
  ASSUME NEW d \in Vpcs, Collecting(d),
         pc'[d] = pc[d], todo'[d] = todo[d], plan'[d] = plan[d], niInfos'[d] = niInfos[d],
         pc[d] \in {"create", "collect"} =>
           (cr[d].finalizer => cr'[d].finalizer) /\ owned[d] \subseteq owned'[d]
  PROVE  Collecting(d)'
BY DEF Collecting

\* What a vpc has configured stays allocated while its registers stay.
LEMMA KeepsSame ==
  ASSUME NEW d \in Vpcs, Keeps(d), device'[d] = device[d],
         Settled(d)' => /\ Settled(d) /\ owned[d] \subseteq owned'[d]
                        /\ \A ni \in Nis : ni \in owned[d] /\ register[d][ni] = device[d][ni]
                             => register'[d][ni] = register[d][ni]
  PROVE  Keeps(d)'
BY DEF Keeps

\* A register that changes to an index nobody holds, or to none, stays distinct.
LEMMA DistinctStep ==
  ASSUME TypeOK, Distinct, NEW c \in Vpcs, NEW ni \in Nis,
         NEW value \in RegisterValue \ Held, SaveRegister(c, ni, value)
  PROVE  Distinct'
<1>1. \A d \in Vpcs, mi \in Nis :
        register'[d][mi] = IF d = c /\ mi = ni THEN value ELSE register[d][mi]
  BY DEF SaveRegister, TypeOK
<1>2. \A d \in Vpcs, mi \in Nis : register[d][mi] # value \/ value \notin Indexes
  BY DEF Held
<1>. QED BY <1>1, <1>2 DEF Distinct

\* A step that changes no resource, no register and no device.
LEMMA QuietStep ==
  ASSUME IndexInv, UNCHANGED <<cr, register, owned, device, inherited>>,
         \A d \in Vpcs : Collecting(d)'
  PROVE  IndexInv'
<1>1. Distinct'
  BY DEF IndexInv, Distinct
<1>2. ASSUME NEW d \in Vpcs  PROVE Finalized(d)' /\ Keeps(d)'
  BY KeepsSame DEF IndexInv, Finalized, Settled
<1>. QED BY <1>1, <1>2 DEF IndexInv

\* The other vpcs do not notice a step of the worker of c, nor of users on c.
LEMMA OthersKeep ==
  ASSUME IndexInv, NEW c \in Vpcs, NEW d \in Vpcs \ {c},
         UNCHANGED <<cr[d], register[d], owned[d], device[d], pc[d], todo[d], plan[d], niInfos[d]>>,
         d \in inherited <=> d \in inherited'
  PROVE  (Finalized(d) /\ Collecting(d) /\ Keeps(d))'
<1>1. Collecting(d)'
  BY CollectingSame DEF IndexInv
<1>2. Keeps(d)'
  BY KeepsSame DEF IndexInv, Settled
<1>. QED BY <1>1, <1>2 DEF IndexInv, Finalized

\* Steps of a worker that leave resource, registers and device alone.
LEMMA QuietReconcile ==
  ASSUME TypeOK, IndexInv, NEW c \in Vpcs,
         \/ CreateNiRegisterFails(c) \/ CreateDone(c) \/ GetNiRegister(c)
         \/ NiRegisterUnavailable(c) \/ BeginDestroy(c) \/ Abort(c)
  PROVE  IndexInv'
<1>. USE DEF TypeOK
<1>1. Collecting(c)
  BY DEF IndexInv
<1>2. ASSUME \A d \in Vpcs \ {c} : UNCHANGED <<pc[d], todo[d], plan[d], niInfos[d]>>,
             UNCHANGED <<cr, register, owned, device, inherited>>, Collecting(c)'
      PROVE  IndexInv'
  <2>1. ASSUME NEW d \in Vpcs \ {c}  PROVE Collecting(d)'
    BY <1>2, <2>1, CollectingSame DEF IndexInv
  <2>. QED BY <1>2, <2>1, QuietStep
<1>3. CASE Fail(c)
  BY <1>2, <1>3 DEF Fail, Goto, Collecting, Nothing, apiVars
<1>4. CASE CreateDone(c)
  BY <1>1, <1>2, <1>4 DEF CreateDone, Goto, Collecting, apiVars
<1>5. CASE GetNiRegister(c)
  BY <1>1, <1>2, <1>5 DEF GetNiRegister, Goto, Collecting, apiVars
<1>6. CASE BeginDestroy(c)
  BY <1>1, <1>2, <1>6 DEF BeginDestroy, AllCollected, Goto, Collecting, apiVars
<1>. QED BY <1>3, <1>4, <1>5, <1>6
         DEF CreateNiRegisterFails, NiRegisterUnavailable, Abort

\* Steps of a worker that change its resource, its registers or its device.
LEMMA LoudReconcile ==
  ASSUME TypeOK, TypeOK', IndexInv, IndexHeld, NEW c \in Vpcs,
         \/ Begin(c) \/ CreateNiRegister(c) \/ Deploy(c) \/ RemoveFinalizerFirst(c)
         \/ Destroy(c) \/ DestroyError(c) \/ RemoveFinalizerLast(c)
  PROVE  IndexInv'
<1>. USE NiRegisterAssumption DEF TypeOK
<1>1. Finalized(c) /\ Collecting(c) /\ Keeps(c) /\ Distinct
  BY DEF IndexInv
<1>2. ASSUME (Finalized(c) /\ Collecting(c) /\ Keeps(c) /\ Distinct)',
             \A d \in Vpcs \ {c} :
               /\ UNCHANGED <<cr[d], register[d], owned[d], device[d],
                              pc[d], todo[d], plan[d], niInfos[d]>>
               /\ d \in inherited <=> d \in inherited'
      PROVE  IndexInv'
  <2>1. ASSUME NEW d \in Vpcs \ {c}  PROVE (Finalized(d) /\ Collecting(d) /\ Keeps(d))'
    BY <1>2, <2>1, OthersKeep
  <2>. QED BY <1>2, <2>1 DEF IndexInv
<1>3. CASE Begin(c)
  <2>1. cr'[c].finalizer /\ cr'[c].phase = cr[c].phase /\ cr[c].phase # "absent"
    BY <1>3 DEF Begin
  <2>2. /\ UNCHANGED <<register, owned, device, inherited, niInfos>> /\ pc[c] = "idle"
        /\ pc'[c] = "create" /\ todo'[c] = cr[c].spec /\ plan'[c] = cr[c].spec
    BY <1>3 DEF Begin, Goto
  <2>3. Collecting(c)' /\ Finalized(c)'
    BY <1>1, <2>1, <2>2 DEF Collecting, Finalized
  <2>4. Keeps(c)' /\ Distinct'
    BY <1>1, <2>1, <2>2 DEF Keeps, Settled, Distinct
  <2>. QED BY <1>2, <1>3, <2>3, <2>4 DEF Begin, Goto
<1>4. CASE CreateNiRegister(c)
  <2>1. PICK ni \in todo[c] :
          /\ IF seen[c][ni] = None
             THEN register[c][ni] = None /\ SaveRegister(c, ni, Pending)
             ELSE register[c][ni] # None /\ UNCHANGED <<register, news>>
          /\ owned' = [owned EXCEPT ![c] = @ \cup {ni}]
          /\ Goto(c, "create", todo[c] \ {ni})
    BY <1>4 DEF CreateNiRegister
  <2>2. /\ ni \in Nis /\ pc[c] = "create" /\ pc'[c] = "create"
        /\ UNCHANGED <<cr, plan, niInfos, device, inherited>>
        /\ owned'[c] = owned[c] \cup {ni} /\ todo'[c] = todo[c] \ {ni}
    BY <1>4, <2>1 DEF CreateNiRegister, Goto
  <2>3. Finalized(c)' /\ Collecting(c)'
    BY <1>1, <2>2 DEF Finalized, Collecting
  <2>4. Distinct'
    <3>1. CASE SaveRegister(c, ni, Pending)
      <4>1. Pending \in RegisterValue \ Held
        BY DEF Held, RegisterValue
      <4>2. TypeOK
        OBVIOUS
      <4>. QED BY ONLY <1>1, <2>2, <3>1, <4>1, <4>2, DistinctStep, c \in Vpcs
    <3>2. CASE UNCHANGED register
      BY <1>1, <3>2 DEF Distinct
    <3>. QED BY <2>1, <3>1, <3>2
  <2>5. \A mi \in Nis : register[c][mi] # None => register'[c][mi] = register[c][mi]
    BY <2>1, <2>2 DEF SaveRegister
  <2>6. Keeps(c)'
    BY <1>1, <2>2, <2>5 DEF Keeps, Settled
  <2>7. \A d \in Vpcs \ {c} : register'[d] = register[d] /\ owned'[d] = owned[d]
                              /\ pc'[d] = pc[d] /\ todo'[d] = todo[d]
    BY <2>1, <2>2 DEF SaveRegister, Goto
  <2>. QED BY <1>2, <2>2, <2>3, <2>4, <2>6, <2>7
<1>5. CASE Deploy(c)
  <2>1. /\ pc[c] = "collect" /\ pc'[c] = "idle" /\ device'[c] = niInfos[c]
        /\ niInfos'[c] = Nothing /\ UNCHANGED <<cr, register, owned>>
    BY <1>5 DEF Deploy, AllCollected, Goto, apiVars
  <2>2. Finalized(c)' /\ Collecting(c)' /\ Distinct'
    BY <1>1, <2>1 DEF Finalized, Collecting, Distinct, Nothing
  <2>3. Keeps(c)'
    BY <1>1, <2>1 DEF Keeps, Collecting, IndexHeld
  <2>. QED BY <1>2, <1>5, <2>2, <2>3 DEF Deploy, Goto, apiVars
<1>6. ASSUME RemoveCr(c), UNCHANGED register, device'[c] = device[c],
             pc'[c] \in {"destroy", "idle"}, niInfos'[c] = niInfos[c], plan'[c] = plan[c],
             pc'[c] = "idle" => \A ni \in Nis : niInfos[c][ni] = None
      PROVE  (Finalized(c) /\ Collecting(c) /\ Keeps(c) /\ Distinct)'
  <2>1. cr'[c].phase = "absent" /\ ~cr'[c].finalizer
    BY <1>6 DEF RemoveCr, AbsentCr
  <2>. QED BY <1>1, <1>6, <2>1
           DEF Finalized, Collecting, Keeps, Settled, Distinct, Nothing
<1>7. CASE RemoveFinalizerFirst(c)
  BY <1>2, <1>6, <1>7 DEF RemoveFinalizerFirst, AllCollected, RemoveCr, Goto
<1>8. CASE RemoveFinalizerLast(c)
  <2>1. pc[c] = "unfinalize" /\ pc'[c] = "idle" /\ RemoveCr(c)
        /\ UNCHANGED <<register, plan, niInfos, device, inherited>>
    BY <1>8 DEF RemoveFinalizerLast, Goto
  <2>2. \A ni \in Nis : niInfos[c][ni] = None
    BY <1>1, <2>1 DEF Collecting
  <2>3. (Finalized(c) /\ Collecting(c) /\ Keeps(c) /\ Distinct)'
    BY <1>6, <2>1, <2>2
  <2>. QED BY <1>2, <1>8, <2>3 DEF RemoveFinalizerLast, RemoveCr, Goto
<1>9. CASE Destroy(c) \/ DestroyError(c)
  <2>1. /\ pc'[c] \in {"idle", "unfinalize"} /\ niInfos'[c] = Nothing
        /\ UNCHANGED <<cr, register, owned, plan>>
        /\ device'[c] = Nothing \/ UNCHANGED <<device, inherited>>
    BY <1>9 DEF Destroy, DestroyError, AfterDestroy, Goto, apiVars
  <2>2. Finalized(c)' /\ Collecting(c)' /\ Distinct'
    BY <1>1, <2>1 DEF Finalized, Collecting, Distinct, Nothing
  <2>3. Keeps(c)'
    BY <1>1, <2>1 DEF Keeps, Settled, Nothing
  <2>4. \A d \in Vpcs \ {c} :
          /\ UNCHANGED <<device[d], pc[d], todo[d], niInfos[d]>>
          /\ d \in inherited <=> d \in inherited'
    BY <1>9 DEF Destroy, DestroyError, AfterDestroy, Goto
  <2>. QED BY <1>2, <2>1, <2>2, <2>3, <2>4
<1>. QED BY <1>3, <1>4, <1>5, <1>7, <1>8, <1>9

\* Users create, edit and delete a vpc.
LEMMA UserStep ==
  ASSUME TypeOK, IndexInv, NEW c \in Vpcs, CreateVpc(c) \/ EditVpc(c) \/ DeleteVpc(c)
  PROVE  IndexInv'
<1>. USE DEF TypeOK
<1>1. Finalized(c) /\ Collecting(c) /\ Keeps(c) /\ Distinct
  BY DEF IndexInv
<1>2. /\ UNCHANGED <<register, device, pc, todo, plan, niInfos>>
      /\ \A d \in Vpcs \ {c} :
           /\ UNCHANGED <<cr[d], owned[d]>>
           /\ d \in inherited <=> d \in inherited'
  BY DEF CreateVpc, EditVpc, DeleteVpc, SaveCr, workerVars
<1>3. ASSUME Finalized(c)', Collecting(c)', Keeps(c)'
      PROVE  IndexInv'
  <2>1. Distinct'
    BY <1>1, <1>2 DEF Distinct
  <2>2. ASSUME NEW d \in Vpcs \ {c}  PROVE (Finalized(d) /\ Collecting(d) /\ Keeps(d))'
    BY <1>2, <2>2, OthersKeep
  <2>. QED BY <1>3, <2>1, <2>2 DEF IndexInv
<1>4. CASE CreateVpc(c)
  <2>1. /\ cr[c].phase = "absent" /\ cr'[c].phase = "live" /\ ~cr'[c].finalizer
        /\ owned' = owned /\ (device[c] # Nothing => c \in inherited')
    BY <1>4 DEF CreateVpc, SaveCr
  <2>2. Finalized(c)' /\ Collecting(c)'
    BY <1>1, <1>2, <2>1 DEF Finalized, Collecting
  <2>3. Keeps(c)'
    BY <1>2, <2>1 DEF Keeps, Settled, Nothing
  <2>. QED BY <1>3, <2>2, <2>3
<1>5. CASE EditVpc(c)
  <2>1. /\ cr'[c].phase = cr[c].phase /\ cr'[c].finalizer = cr[c].finalizer
        /\ UNCHANGED <<owned, inherited>>
    BY <1>5 DEF EditVpc, SaveCr
  <2>. QED BY <1>1, <1>2, <1>3, <2>1 DEF Finalized, Collecting, Keeps, Settled
<1>6. CASE DeleteVpc(c)
  <2>1. CASE cr[c].finalizer
    <3>1. /\ cr' = [cr EXCEPT ![c] = [cr[c] EXCEPT !.phase = "deleting"]]
          /\ UNCHANGED <<owned, inherited>>
      BY <1>6, <2>1, Zenon DEF DeleteVpc, SaveCr
    <3>2. cr'[c].phase = "deleting" /\ cr'[c].finalizer = cr[c].finalizer
      BY <3>1
    <3>3. cr[c].phase = "live"
      BY <1>6 DEF DeleteVpc
    <3>. QED BY <1>1, <1>2, <1>3, <2>1, <3>1, <3>2, <3>3
             DEF Finalized, Collecting, Keeps, Settled
  <2>2. CASE ~cr[c].finalizer
    <3>1. cr' = [cr EXCEPT ![c] = AbsentCr]
      BY <1>6, <2>2, Zenon DEF DeleteVpc, SaveCr
    <3>2. cr'[c].phase = "absent" /\ cr'[c].finalizer = FALSE
      BY <3>1 DEF AbsentCr
    <3>. QED BY <1>1, <1>2, <1>3, <2>2, <3>2 DEF Finalized, Collecting, Keeps, Settled
  <2>. QED BY <2>1, <2>2
<1>. QED BY <1>4, <1>5, <1>6

\* The registry gives out what nobody holds, the collector takes what nobody owns.
LEMMA RegistryStep ==
  ASSUME TypeOK, IndexInv, NEW c \in Vpcs, NEW ni \in Nis,
         Deliver(c, ni) \/ AllocateNi(c, ni) \/ CollectRegister(c, ni)
  PROVE  IndexInv'
<1>. USE NiRegisterAssumption DEF TypeOK, RegisterValue, IndexMap
<1>1. Distinct /\ \A d \in Vpcs : Finalized(d) /\ Collecting(d) /\ Keeps(d)
  BY DEF IndexInv
<1>2. UNCHANGED <<cr, owned, device, inherited, pc, todo, plan, niInfos>>
  BY DEF Deliver, AllocateNi, CollectRegister, workerVars
<1>3. \A d \in Vpcs : Collecting(d)'
  BY <1>1, <1>2, CollectingSame
<1>4. CASE Deliver(c, ni)
  BY <1>2, <1>3, <1>4, QuietStep DEF Deliver
<1>5. ASSUME NEW value \in RegisterValue \ Held, SaveRegister(c, ni, value),
             ni \in owned[c] => register[c][ni] \notin Indexes
      PROVE  IndexInv'
  <2>1. Distinct'
    BY <1>1, <1>5, DistinctStep
  <2>2. \A d \in Vpcs, mi \in Nis :
          d # c \/ mi # ni => register'[d][mi] = register[d][mi]
    BY <1>5 DEF SaveRegister
  <2>3. ASSUME NEW d \in Vpcs  PROVE Keeps(d)'
    BY <1>1, <1>2, <1>5, <2>2 DEF Keeps, Settled
  <2>4. \A d \in Vpcs : Finalized(d)'
    BY <1>1, <1>2 DEF Finalized
  <2>. QED BY <1>3, <2>1, <2>3, <2>4 DEF IndexInv
<1>6. CASE AllocateNi(c, ni)
  BY <1>5, <1>6 DEF AllocateNi
<1>7. CASE CollectRegister(c, ni)
  BY <1>5, <1>7 DEF CollectRegister, Held
<1>. QED BY <1>4, <1>6, <1>7

\* While no worker uses an index that its register has lost, every step keeps IndexInv.
LEMMA IndexStep ==
  ASSUME TypeOK, TypeOK', IndexHeld, IndexInv, [Next]_vars
  PROVE  IndexInv'
<1>1. CASE UNCHANGED vars
  BY <1>1, CollectingSame, QuietStep DEF vars, apiVars, workerVars, IndexInv
<1>2. ASSUME NEW c \in Vpcs, Reconcile(c) \/ DestroyError(c) \/ Abort(c)
      PROVE  IndexInv'
  BY <1>2, QuietReconcile, LoudReconcile DEF Reconcile
<1>3. ASSUME NEW c \in Vpcs, CreateVpc(c) \/ EditVpc(c) \/ DeleteVpc(c)
      PROVE  IndexInv'
  BY <1>3, UserStep
<1>4. ASSUME NEW c \in Vpcs, NEW ni \in Nis,
             Deliver(c, ni) \/ AllocateNi(c, ni) \/ CollectRegister(c, ni)
      PROVE  IndexInv'
  BY <1>4, RegistryStep
<1>. QED BY <1>1, <1>2, <1>3, <1>4 DEF Next

\* Hence it is an invariant.
LEMMA IndexInvariant == Spec /\ []IndexHeld => []IndexInv
<1>1. Init => IndexInv
  BY NiRegisterAssumption
     DEF Init, IndexInv, Finalized, Collecting, Keeps, Settled, Distinct, Nothing, AbsentCr
<1>2. TypeOK /\ TypeOK' /\ IndexHeld /\ IndexInv /\ [Next]_vars => IndexInv'
  BY IndexStep
<1>. QED BY <1>1, <1>2, TypeCorrect, PTL DEF Spec

\* Were the cache never so stale that a worker uses an index its register has lost,
\* what a vpc has configured would stay allocated to it for as long as it exists,
\* with any number of vpcs, edits, deletions and crashes: nothing else can break it.
THEOREM KeptCorrect == Spec /\ []IndexHeld => []IndexKept
<1>1. IndexInv => IndexKept
  BY DEF IndexInv, Keeps, IndexKept
<1>. QED BY <1>1, IndexInvariant, PTL

\* Under the same condition no two network instances, of one vpc or of two, are
\* ever configured with the same index.
THEOREM ExclusiveCorrect == Spec /\ []IndexHeld => []IndexExclusive
<1>1. TypeOK /\ IndexInv => IndexExclusive
  BY DEF TypeOK, IndexMap, IndexInv, Keeps, Distinct, IndexExclusive
<1>. QED BY <1>1, IndexInvariant, TypeCorrect, PTL

-----------------------------------------------------------------------------
(* The lag                                                                  *)

\* What a register and its history say while neither changes.
LEMMA OneLifeSame ==
  ASSUME NEW d \in Vpcs, NEW mi \in Nis, OneLife(d, mi),
         register'[d][mi] = register[d][mi], seen'[d][mi] = seen[d][mi],
         news'[d][mi] = news[d][mi]
  PROVE  OneLife(d, mi)'
BY DEF OneLife, Change

\* A change of one register leaves the others.
LEMMA SaveElsewhere ==
  ASSUME TypeOK, NEW c \in Vpcs, NEW ni \in Nis, NEW value, SaveRegister(c, ni, value)
  PROVE  \A d \in Vpcs, mi \in Nis : d # c \/ mi # ni =>
           register'[d][mi] = register[d][mi] /\ news'[d][mi] = news[d][mi]
<1>1. /\ register' = [register EXCEPT ![c][ni] = value]
      /\ news' = [news EXCEPT ![c][ni] = Append(news[c][ni], value)]
  BY DEF SaveRegister
<1>2. /\ register \in [Vpcs -> [Nis -> RegisterValue]]
      /\ news \in [Vpcs -> [Nis -> Seq(RegisterValue)]]
  BY DEF TypeOK
<1>. QED BY ONLY <1>1, <1>2

\* A change of a register is appended to its history.
LEMMA SaveHistory ==
  ASSUME TypeOK, NEW c \in Vpcs, NEW ni \in Nis, NEW value \in RegisterValue,
         SaveRegister(c, ni, value), UNCHANGED seen, NEW n, n = Len(news[c][ni])
  PROVE  /\ register'[c][ni] = value
         /\ n \in Nat /\ n < MaxLag /\ Len(news'[c][ni]) = n + 1
         /\ \A k \in 0..n : Change(c, ni, k)' = Change(c, ni, k)
         /\ Change(c, ni, n + 1)' = value
         /\ \A d \in Vpcs, mi \in Nis : d # c \/ mi # ni =>
              register'[d][mi] = register[d][mi] /\ news'[d][mi] = news[d][mi]
<1>1. /\ register' = [register EXCEPT ![c][ni] = value]
      /\ news' = [news EXCEPT ![c][ni] = Append(news[c][ni], value)]
      /\ n < MaxLag
  BY DEF SaveRegister
<1>2. news[c][ni] \in Seq(RegisterValue) /\ n \in Nat
  BY DEF TypeOK
<1>3. /\ register'[c][ni] = value /\ news'[c][ni] = Append(news[c][ni], value)
      /\ \A d \in Vpcs, mi \in Nis : d # c \/ mi # ni =>
           register'[d][mi] = register[d][mi] /\ news'[d][mi] = news[d][mi]
  BY <1>1 DEF TypeOK
<1>4. /\ Len(news'[c][ni]) = n + 1
      /\ news'[c][ni][n + 1] = value
      /\ \A k \in 1..n : news'[c][ni][k] = news[c][ni][k]
  BY <1>2, <1>3
<1>5. \A k \in 0..n : Change(c, ni, k)' = Change(c, ni, k)
  BY <1>2, <1>4 DEF Change
<1>6. Change(c, ni, n + 1)' = value
  BY <1>2, <1>4 DEF Change
<1>. QED BY <1>1, <1>2, <1>3, <1>4, <1>5, <1>6

\* An index, a register without one, or none may follow what the history ends with, if
\* an index follows Pending, and if Pending follows None in a history without an index.
LEMMA OneLifeSave ==
  ASSUME TypeOK, NEW c \in Vpcs, NEW ni \in Nis, NEW value \in RegisterValue,
         SaveRegister(c, ni, value), UNCHANGED seen, OneLife(c, ni),
         \/ register[c][ni] = Pending /\ value \in Indexes
         \/ register[c][ni] # None /\ value = None
         \/ /\ value = Pending
            /\ \A k \in 0..Len(news[c][ni]) : Change(c, ni, k) \notin Indexes
  PROVE  OneLife(c, ni)'
<1>0. PICK n : n = Len(news[c][ni])
  OBVIOUS
<1>1. /\ register'[c][ni] = value /\ n \in Nat /\ Len(news'[c][ni]) = n + 1
      /\ \A k \in 0..n : Change(c, ni, k)' = Change(c, ni, k)
      /\ Change(c, ni, n + 1)' = value
  BY <1>0, SaveHistory
<1>2. /\ register[c][ni] = Change(c, ni, n)
      /\ \A k \in 0..n : Change(c, ni, k) \in Indexes =>
           /\ k = n \/ (k = n - 1 /\ register[c][ni] = None)
           /\ k > 0 => Change(c, ni, k - 1) = Pending
  BY <1>0 DEF OneLife
<1>3. ASSUME NEW k \in 0..(n + 1), Change(c, ni, k)' \in Indexes
      PROVE  /\ k = n + 1 \/ (k = n + 1 - 1 /\ register'[c][ni] = None)
             /\ k > 0 => Change(c, ni, k - 1)' = Pending
  <2>1. CASE k = n + 1
    <3>1. value \in Indexes
      BY <1>1, <1>3, <2>1
    <3>2. Change(c, ni, n) = Pending
      BY <1>2, <3>1, NiRegisterAssumption
    <3>3. Change(c, ni, n)' = Pending /\ k - 1 = n
      BY <1>1, <2>1, <3>2
    <3>. QED BY <2>1, <3>3
  <2>2. CASE k \in 0..n
    <3>1. Change(c, ni, k) \in Indexes
      BY <1>1, <1>3, <2>2
    <3>2. value # Pending
      BY <1>0, <2>2, <3>1, NiRegisterAssumption
    <3>3. k = n
      BY <1>1, <1>2, <2>2, <3>1, <3>2, NiRegisterAssumption
    <3>4. value = None
      BY <1>2, <3>1, <3>2, <3>3, NiRegisterAssumption
    <3>5. k > 0 => k - 1 \in 0..n /\ Change(c, ni, k - 1) = Pending
      BY <1>1, <1>2, <2>2, <3>1
    <3>6. k > 0 => Change(c, ni, k - 1)' = Change(c, ni, k - 1)
      BY <1>1, <3>5
    <3>. QED BY <1>1, <3>3, <3>4, <3>5, <3>6
  <2>. QED BY <1>1, <2>1, <2>2
<1>4. register'[c][ni] = Change(c, ni, n + 1)'
  BY <1>1
<1>. QED BY <1>1, <1>3, <1>4 DEF OneLife

\* A cache at most three changes behind that shows no register, and rightly so, has
\* missed no index: <<None, Pending, index, None>> would be four.
LEMMA NoLifeMissed ==
  ASSUME TypeOK, MaxLag <= 3, NEW c \in Vpcs, NEW ni \in Nis, OneLife(c, ni),
         Len(news[c][ni]) < MaxLag, seen[c][ni] = None, register[c][ni] = None
  PROVE  \A k \in 0..Len(news[c][ni]) : Change(c, ni, k) \notin Indexes
<1>. SUFFICES ASSUME NEW k \in 0..Len(news[c][ni]), Change(c, ni, k) \in Indexes
              PROVE  FALSE
  OBVIOUS
<1>1. Len(news[c][ni]) \in Nat /\ Len(news[c][ni]) < 3
  BY NiRegisterAssumption DEF TypeOK
<1>2. k \in 0..2 /\ Change(c, ni, 0) = None
  BY <1>1 DEF Change
<1>3. /\ Change(c, ni, Len(news[c][ni])) = None
      /\ k > 0 => Change(c, ni, k - 1) = Pending
  BY DEF OneLife
<1>4. k # 0 /\ k # Len(news[c][ni])
  BY <1>2, <1>3, NiRegisterAssumption
<1>5. k # 1
  BY <1>2, <1>3, NiRegisterAssumption
<1>. QED BY <1>1, <1>2, <1>4, <1>5

\* The cache gets the next change: the history loses its first element.
LEMMA OneLifeDeliver ==
  ASSUME TypeOK, NEW c \in Vpcs, NEW ni \in Nis, Deliver(c, ni), OneLife(c, ni)
  PROVE  OneLife(c, ni)'
<1>1. /\ news[c][ni] # <<>> /\ news[c][ni] \in Seq(RegisterValue)
      /\ seen'[c][ni] = Head(news[c][ni]) /\ news'[c][ni] = Tail(news[c][ni])
      /\ register' = register
  BY DEF Deliver, apiVars, TypeOK
<1>2. /\ Len(news[c][ni]) \in Nat \ {0} /\ Len(news'[c][ni]) = Len(news[c][ni]) - 1
      /\ seen'[c][ni] = news[c][ni][1]
      /\ \A k \in 1..(Len(news[c][ni]) - 1) : news'[c][ni][k] = news[c][ni][k + 1]
  BY <1>1
<1>3. PICK n : n = Len(news[c][ni])
  OBVIOUS
<1>4. /\ register[c][ni] = Change(c, ni, n)
      /\ \A k \in 0..n : Change(c, ni, k) \in Indexes =>
           /\ k = n \/ (k = n - 1 /\ register[c][ni] = None)
           /\ k > 0 => Change(c, ni, k - 1) = Pending
  BY <1>3 DEF OneLife
<1>5. n \in Nat \ {0} /\ Len(news'[c][ni]) = n - 1
  BY <1>2, <1>3
<1>6. \A k \in 0..(n - 1) : Change(c, ni, k)' = Change(c, ni, k + 1)
  BY <1>2, <1>3, <1>5 DEF Change
<1>7. register'[c][ni] = Change(c, ni, n - 1)'
  <2>1. n - 1 \in 0..(n - 1) /\ (n - 1) + 1 = n
    BY <1>5
  <2>2. Change(c, ni, n - 1)' = Change(c, ni, n)
    BY <1>6, <2>1
  <2>. QED BY <1>1, <1>4, <2>2
<1>8. ASSUME NEW k \in 0..(n - 1), Change(c, ni, k)' \in Indexes
      PROVE  /\ k = n - 1 \/ (k = n - 1 - 1 /\ register'[c][ni] = None)
             /\ k > 0 => Change(c, ni, k - 1)' = Pending
  <2>1. k + 1 \in 0..n /\ Change(c, ni, k + 1) \in Indexes
    BY <1>5, <1>6, <1>8
  <2>2. k + 1 = n \/ (k + 1 = n - 1 /\ register[c][ni] = None)
    BY <1>4, <2>1
  <2>3. Change(c, ni, k) = Pending
    BY <1>4, <1>5, <2>1
  <2>4. k > 0 => k - 1 \in 0..(n - 1) /\ Change(c, ni, k - 1)' = Change(c, ni, k)
    BY <1>5, <1>6
  <2>. QED BY <1>1, <1>5, <2>2, <2>3, <2>4
<1>. QED BY <1>5, <1>7, <1>8 DEF OneLife

\* Every step keeps the histories.
LEMMA OneLifeStep ==
  ASSUME TypeOK, MaxLag <= 3, [Next]_vars, \A c \in Vpcs, ni \in Nis : OneLife(c, ni)
  PROVE  \A c \in Vpcs, ni \in Nis : OneLife(c, ni)'
<1>. USE NiRegisterAssumption
<1>1. CASE UNCHANGED <<register, seen, news>>
  BY <1>1, OneLifeSame
<1>2. ASSUME NEW c \in Vpcs, NEW ni \in Nis, NEW value \in RegisterValue,
             SaveRegister(c, ni, value), UNCHANGED seen, OneLife(c, ni)'
      PROVE  \A d \in Vpcs, mi \in Nis : OneLife(d, mi)'
  <2>1. \A d \in Vpcs, mi \in Nis : d # c \/ mi # ni =>
          register'[d][mi] = register[d][mi] /\ news'[d][mi] = news[d][mi]
    BY <1>2, SaveElsewhere
  <2>2. ASSUME NEW d \in Vpcs, NEW mi \in Nis, d # c \/ mi # ni  PROVE OneLife(d, mi)'
    BY <1>2, <2>1, <2>2, OneLifeSame
  <2>. QED BY <1>2, <2>2
<1>3. ASSUME NEW c \in Vpcs, CreateNiRegister(c)
      PROVE  \A d \in Vpcs, mi \in Nis : OneLife(d, mi)'
  <2>1. PICK ni \in todo[c] :
          IF seen[c][ni] = None
          THEN register[c][ni] = None /\ SaveRegister(c, ni, Pending)
          ELSE register[c][ni] # None /\ UNCHANGED <<register, news>>
    BY <1>3 DEF CreateNiRegister
  <2>2. ni \in Nis /\ UNCHANGED seen /\ Pending \in RegisterValue
    BY <1>3 DEF CreateNiRegister, TypeOK, RegisterValue
  <2>3. CASE seen[c][ni] = None
    <3>1. register[c][ni] = None /\ SaveRegister(c, ni, Pending)
      BY <2>1, <2>3
    <3>2. Len(news[c][ni]) < MaxLag
      BY <3>1 DEF SaveRegister
    <3>3. \A k \in 0..Len(news[c][ni]) : Change(c, ni, k) \notin Indexes
      BY <2>2, <2>3, <3>1, <3>2, NoLifeMissed
    <3>4. OneLife(c, ni)'
      BY <2>2, <3>1, <3>3, OneLifeSave
    <3>. QED BY <1>2, <2>2, <3>1, <3>4
  <2>. QED BY <1>1, <2>1, <2>2, <2>3
<1>4. ASSUME NEW c \in Vpcs, NEW ni \in Nis, AllocateNi(c, ni)
      PROVE  \A d \in Vpcs, mi \in Nis : OneLife(d, mi)'
  <2>1. PICK i \in Indexes : SaveRegister(c, ni, i)
    BY <1>4 DEF AllocateNi
  <2>2. register[c][ni] = Pending /\ UNCHANGED seen /\ i \in RegisterValue
    BY <1>4 DEF AllocateNi, RegisterValue
  <2>3. OneLife(c, ni)'
    BY <2>1, <2>2, OneLifeSave
  <2>. QED BY <1>2, <2>1, <2>2, <2>3
<1>5. ASSUME NEW c \in Vpcs, NEW ni \in Nis, CollectRegister(c, ni)
      PROVE  \A d \in Vpcs, mi \in Nis : OneLife(d, mi)'
  <2>1. /\ SaveRegister(c, ni, None) /\ register[c][ni] # None
        /\ UNCHANGED seen /\ None \in RegisterValue
    BY <1>5 DEF CollectRegister, RegisterValue
  <2>2. OneLife(c, ni)'
    BY <2>1, OneLifeSave
  <2>. QED BY <1>2, <2>1, <2>2
<1>6. ASSUME NEW c \in Vpcs, NEW ni \in Nis, Deliver(c, ni)
      PROVE  \A d \in Vpcs, mi \in Nis : OneLife(d, mi)'
  <2>1. \A d \in Vpcs, mi \in Nis : d # c \/ mi # ni =>
          /\ register'[d][mi] = register[d][mi] /\ news'[d][mi] = news[d][mi]
          /\ seen'[d][mi] = seen[d][mi]
    BY <1>6 DEF Deliver, apiVars, TypeOK
  <2>2. ASSUME NEW d \in Vpcs, NEW mi \in Nis, d # c \/ mi # ni  PROVE OneLife(d, mi)'
    BY <2>1, <2>2, OneLifeSame
  <2>3. OneLife(c, ni)'
    BY <1>6, OneLifeDeliver
  <2>. QED BY <2>2, <2>3
<1>7. ASSUME NEW c \in Vpcs,
             \/ Reconcile(c) /\ ~CreateNiRegister(c)
             \/ DestroyError(c) \/ Abort(c) \/ CreateVpc(c) \/ EditVpc(c) \/ DeleteVpc(c)
      PROVE  UNCHANGED <<register, seen, news>>
  BY <1>7 DEF Reconcile, Begin, CreateNiRegisterFails, CreateDone, GetNiRegister,
              NiRegisterUnavailable, Deploy, BeginDestroy, RemoveFinalizerFirst, Destroy,
              RemoveFinalizerLast, DestroyError, AfterDestroy, Abort, Fail, CreateVpc,
              EditVpc, DeleteVpc, SaveCr, apiVars
<1>8. CASE UNCHANGED vars
  BY <1>1, <1>8 DEF vars, apiVars
<1>. QED BY <1>1, <1>3, <1>4, <1>5, <1>6, <1>7, <1>8 DEF Next

\* Registers disappear only where nobody owns them, and change only towards an index.
LEMMA RegisterStep ==
  ASSUME TypeOK, [Next]_vars, NEW d \in Vpcs, NEW mi \in Nis, mi \in owned[d]
  PROVE  \/ register'[d][mi] = register[d][mi]
         \/ register[d][mi] = None
         \/ register[d][mi] = Pending /\ register'[d][mi] \in Indexes
<1>. USE NiRegisterAssumption DEF TypeOK
<1>1. ASSUME NEW c \in Vpcs, CreateNiRegister(c), register[d][mi] # None
      PROVE  register'[d][mi] = register[d][mi]
  <2>1. PICK ni \in todo[c] :
          IF seen[c][ni] = None
          THEN register[c][ni] = None /\ SaveRegister(c, ni, Pending)
          ELSE register[c][ni] # None /\ UNCHANGED <<register, news>>
    BY <1>1 DEF CreateNiRegister
  <2>2. CASE register[c][ni] = None /\ SaveRegister(c, ni, Pending)
    BY <1>1, <2>2 DEF SaveRegister
  <2>. QED BY <2>1, <2>2
<1>2. ASSUME NEW c \in Vpcs, NEW ni \in Nis, AllocateNi(c, ni)
      PROVE  \/ register'[d][mi] = register[d][mi]
             \/ register[d][mi] = Pending /\ register'[d][mi] \in Indexes
  BY <1>2 DEF AllocateNi, SaveRegister
<1>3. ASSUME NEW c \in Vpcs, NEW ni \in Nis, CollectRegister(c, ni)
      PROVE  register'[d][mi] = register[d][mi]
  BY <1>3 DEF CollectRegister, SaveRegister
<1>4. ASSUME NEW c \in Vpcs,
             \/ Reconcile(c) /\ ~CreateNiRegister(c)
             \/ DestroyError(c) \/ Abort(c) \/ CreateVpc(c) \/ EditVpc(c) \/ DeleteVpc(c)
      PROVE  UNCHANGED register
  BY <1>4 DEF Reconcile, Begin, CreateNiRegisterFails, CreateDone, GetNiRegister,
              NiRegisterUnavailable, Deploy, BeginDestroy, RemoveFinalizerFirst, Destroy,
              RemoveFinalizerLast, DestroyError, AfterDestroy, Abort, Fail, CreateVpc,
              EditVpc, DeleteVpc, SaveCr, apiVars
<1>5. ASSUME NEW c \in Vpcs, NEW ni \in Nis, Deliver(c, ni)
      PROVE  UNCHANGED register
  BY <1>5 DEF Deliver, apiVars
<1>6. CASE UNCHANGED vars
  BY <1>6 DEF vars, apiVars
<1>. QED BY <1>1, <1>2, <1>3, <1>4, <1>5, <1>6 DEF Next

\* A worker of c that is or gets into its loops: what its step does to them.
LEMMA LoopStep ==
  ASSUME TypeOK, [Next]_vars, NEW d \in Vpcs, pc'[d] \in {"create", "collect"}
  PROVE  \/ Begin(d) \/ CreateNiRegister(d) \/ CreateDone(d) \/ GetNiRegister(d)
         \/ UNCHANGED <<pc[d], todo[d], plan[d], niInfos[d]>>
<1>. USE DEF TypeOK
<1>1. ASSUME NEW c \in Vpcs \ {d},
             \/ Reconcile(c) \/ DestroyError(c) \/ Abort(c)
             \/ CreateVpc(c) \/ EditVpc(c) \/ DeleteVpc(c)
      PROVE  UNCHANGED <<pc[d], todo[d], plan[d], niInfos[d]>>
  BY <1>1 DEF Reconcile, Begin, CreateNiRegister, CreateNiRegisterFails, CreateDone,
              GetNiRegister, NiRegisterUnavailable, Deploy, BeginDestroy,
              RemoveFinalizerFirst, Destroy, RemoveFinalizerLast, DestroyError,
              AfterDestroy, Abort, Fail, Goto, CreateVpc, EditVpc, DeleteVpc, SaveCr,
              workerVars
<1>2. CASE CreateVpc(d) \/ EditVpc(d) \/ DeleteVpc(d)
  BY <1>2 DEF CreateVpc, EditVpc, DeleteVpc, SaveCr, workerVars
<1>3. CASE DestroyError(d) \/ Abort(d) \/ CreateNiRegisterFails(d)
           \/ NiRegisterUnavailable(d) \/ Deploy(d) \/ BeginDestroy(d)
           \/ RemoveFinalizerFirst(d) \/ Destroy(d) \/ RemoveFinalizerLast(d)
  BY <1>3 DEF CreateNiRegisterFails, NiRegisterUnavailable, Deploy, BeginDestroy,
              RemoveFinalizerFirst, Destroy, RemoveFinalizerLast, DestroyError,
              AfterDestroy, Abort, Fail, Goto
<1>4. ASSUME NEW c \in Vpcs, NEW ni \in Nis,
             Deliver(c, ni) \/ AllocateNi(c, ni) \/ CollectRegister(c, ni)
      PROVE  UNCHANGED <<pc[d], todo[d], plan[d], niInfos[d]>>
  BY <1>4 DEF Deliver, AllocateNi, CollectRegister, workerVars
<1>5. CASE UNCHANGED vars
  BY <1>5 DEF vars, workerVars
<1>. QED BY <1>1, <1>2, <1>3, <1>4, <1>5 DEF Next, Reconcile

\* What a worker has applied stays, because its vpc owns it.
LEMMA AppliedStep ==
  ASSUME TypeOK, [Next]_vars, NEW d \in Vpcs, Applied(d), Collecting(d)
  PROVE  Applied(d)'
<1>. SUFFICES ASSUME pc'[d] \in {"create", "collect"}, NEW ni \in Nis, ni \in plan'[d],
                     pc'[d] = "create" => ni \notin todo'[d]
              PROVE  register'[d][ni] # None
  <2>1. plan'[d] \in SUBSET Nis
    BY TypesStep DEF TypeOK
  <2>. QED BY <2>1 DEF Applied
<1>1. ASSUME ni \in plan[d], pc[d] = "collect" \/ (pc[d] = "create" /\ ni \notin todo[d])
      PROVE  register'[d][ni] # None
  <2>1. ni \in owned[d] /\ register[d][ni] # None
    BY <1>1 DEF Collecting, Applied
  <2>. QED BY <2>1, RegisterStep, NiRegisterAssumption
<1>2. CASE Begin(d)
  BY <1>2 DEF Begin, Goto, TypeOK
<1>3. CASE CreateNiRegister(d)
  <2>1. PICK mi \in todo[d] :
          /\ IF seen[d][mi] = None
             THEN register[d][mi] = None /\ SaveRegister(d, mi, Pending)
             ELSE register[d][mi] # None /\ UNCHANGED <<register, news>>
          /\ Goto(d, "create", todo[d] \ {mi})
    BY <1>3 DEF CreateNiRegister
  <2>2. plan' = plan /\ pc[d] = "create" /\ todo'[d] = todo[d] \ {mi} /\ mi \in Nis
        /\ pc'[d] = "create"
    BY <1>3, <2>1 DEF CreateNiRegister, Goto, TypeOK
  <2>3. register'[d][mi] # None
    BY <2>1, <2>2, NiRegisterAssumption DEF SaveRegister, TypeOK
  <2>. QED BY <1>1, <2>2, <2>3
<1>4. CASE CreateDone(d)
  BY <1>1, <1>4 DEF CreateDone, Goto
<1>5. CASE GetNiRegister(d)
  BY <1>1, <1>5 DEF GetNiRegister, Goto
<1>. QED BY <1>1, <1>2, <1>3, <1>4, <1>5, LoopStep

\* What a worker has collected its register keeps, because its vpc owns it and the
\* history of the register has one life.
LEMMA HeldStep ==
  ASSUME TypeOK, [Next]_vars, IndexHeld, HeldInv, \A c \in Vpcs : Collecting(c)
  PROVE  IndexHeld'
<1>. SUFFICES ASSUME NEW d \in Vpcs, NEW ni \in Nis, pc'[d] = "collect",
                     niInfos'[d][ni] # None
              PROVE  register'[d][ni] = niInfos'[d][ni]
  BY DEF IndexHeld
<1>1. Collecting(d) /\ Applied(d) /\ OneLife(d, ni)
  BY DEF HeldInv
<1>2. ASSUME pc[d] = "collect", niInfos'[d][ni] = niInfos[d][ni]
      PROVE  register'[d][ni] = niInfos'[d][ni]
  <2>1. ni \in owned[d] /\ register[d][ni] = niInfos[d][ni]
    BY <1>1, <1>2 DEF Collecting, IndexHeld
  <2>2. register[d][ni] \in Indexes
    BY <1>2, <2>1 DEF TypeOK, IndexMap
  <2>. QED BY <1>2, <2>1, <2>2, RegisterStep, NiRegisterAssumption
<1>3. CASE Begin(d) \/ CreateNiRegister(d)
  BY <1>3 DEF Begin, CreateNiRegister, Goto, TypeOK
<1>4. CASE CreateDone(d)
  BY <1>1, <1>4 DEF CreateDone, Collecting
<1>5. CASE GetNiRegister(d)
  <2>1. PICK mi \in todo[d] :
          /\ seen[d][mi] \in Indexes
          /\ niInfos' = [niInfos EXCEPT ![d][mi] = seen[d][mi]]
    BY <1>5 DEF GetNiRegister
  <2>2. pc[d] = "collect" /\ register' = register /\ mi \in Nis /\ mi \in plan[d]
    BY <1>1, <1>5 DEF GetNiRegister, apiVars, TypeOK, Collecting
  <2>3. CASE mi = ni
    <3>0. register[d][ni] # None
      BY <1>1, <2>2, <2>3 DEF Applied
    <3>1. niInfos'[d][ni] = seen[d][ni] /\ register[d][ni] # None
      BY <2>1, <2>3, <3>0 DEF TypeOK, IndexMap
    <3>2. Change(d, ni, 0) = seen[d][ni] /\ seen[d][ni] \in Indexes
      BY <2>1, <2>3 DEF Change
    <3>3. Len(news[d][ni]) \in Nat
      BY DEF TypeOK
    <3>4. Len(news[d][ni]) = 0
      BY <1>1, <3>1, <3>2, <3>3 DEF OneLife
    <3>5. register[d][ni] = seen[d][ni]
      BY <1>1, <3>2, <3>4 DEF OneLife
    <3>. QED BY <2>2, <3>1, <3>5
  <2>4. CASE mi # ni
    BY <1>2, <2>1, <2>2, <2>4 DEF TypeOK
  <2>. QED BY <2>3, <2>4
<1>. QED BY <1>2, <1>3, <1>4, <1>5, LoopStep

\* With a cache at most three changes of a register behind, the whole invariant is
\* inductive, without a hypothesis about what the workers use.
LEMMA HeldInvariant ==
  ASSUME MaxLag <= 3
  PROVE  Spec => [](IndexInv /\ HeldInv /\ IndexHeld)
<1>1. Init => IndexInv
  BY NiRegisterAssumption
     DEF Init, IndexInv, Finalized, Collecting, Keeps, Settled, Distinct, Nothing, AbsentCr
<1>2. Init => HeldInv /\ IndexHeld
  <2>. SUFFICES ASSUME Init PROVE HeldInv /\ IndexHeld
    OBVIOUS
  <2>1. \A c \in Vpcs, ni \in Nis :
          register[c][ni] = None /\ seen[c][ni] = None /\ news[c][ni] = <<>>
    BY DEF Init, Nothing
  <2>2. \A c \in Vpcs : pc[c] = "idle"
    BY DEF Init
  <2>. QED BY <2>1, <2>2, NiRegisterAssumption
           DEF HeldInv, OneLife, Change, Applied, IndexHeld
<1>3. TypeOK /\ TypeOK' /\ IndexInv /\ HeldInv /\ IndexHeld /\ [Next]_vars
        => IndexInv' /\ HeldInv' /\ IndexHeld'
  <2>. SUFFICES ASSUME TypeOK, TypeOK', IndexInv, HeldInv, IndexHeld, [Next]_vars
                PROVE  IndexInv' /\ HeldInv' /\ IndexHeld'
    OBVIOUS
  <2>1. IndexInv'
    BY IndexStep
  <2>2. \A c \in Vpcs : Collecting(c)
    BY DEF IndexInv
  <2>3. HeldInv'
    BY <2>2, OneLifeStep, AppliedStep DEF HeldInv
  <2>4. IndexHeld'
    BY <2>2, HeldStep
  <2>. QED BY <2>1, <2>3, <2>4
<1>. QED BY <1>1, <1>2, <1>3, TypeCorrect, PTL DEF Spec

\* A cache at most three changes of a register behind never makes a worker use an
\* index that its register has lost: GetNiRegister may read what it likes.
THEOREM HeldCorrect ==
  ASSUME MaxLag <= 3
  PROVE  Spec => []IndexHeld
BY HeldInvariant, PTL

\* So, with such a cache, what a vpc has configured stays allocated to it, for as long
\* as it exists, and no two network instances are configured with the same index.
THEOREM LagTolerated ==
  ASSUME MaxLag <= 3
  PROVE  Spec => [](IndexKept /\ IndexExclusive)
BY HeldCorrect, KeptCorrect, ExclusiveCorrect, PTL

-----------------------------------------------------------------------------
(* NiRegister implements NiLease                                            *)

\* A step of one vpc leaves the resource, the registers and the device of the others.
OnlyMoves(c) ==
  \A d \in Vpcs \ {c} :
    /\ UNCHANGED <<cr[d], register[d], owned[d], device[d]>>
    /\ d \in inherited <=> d \in inherited'

\* Every step but those that change nothing the leases are mapped from is one vpc's.
LEMMA OneMoves ==
  ASSUME TypeOK, NEW c \in Vpcs,
         \/ Reconcile(c) \/ DestroyError(c) \/ Abort(c)
         \/ CreateVpc(c) \/ EditVpc(c) \/ DeleteVpc(c)
         \/ \E ni \in Nis : Deliver(c, ni) \/ AllocateNi(c, ni) \/ CollectRegister(c, ni)
  PROVE  OnlyMoves(c)
<1>. USE DEF OnlyMoves, TypeOK
<1>1. CASE Begin(c) \/ CreateNiRegisterFails(c) \/ CreateDone(c) \/ GetNiRegister(c)
           \/ NiRegisterUnavailable(c) \/ Deploy(c) \/ BeginDestroy(c)
  BY <1>1 DEF Begin, CreateNiRegisterFails, CreateDone, GetNiRegister,
              NiRegisterUnavailable, Deploy, BeginDestroy, Fail, apiVars
<1>2. CASE CreateNiRegister(c)
  <2>1. PICK ni \in todo[c] :
          /\ IF seen[c][ni] = None
             THEN register[c][ni] = None /\ SaveRegister(c, ni, Pending)
             ELSE register[c][ni] # None /\ UNCHANGED <<register, news>>
          /\ owned' = [owned EXCEPT ![c] = @ \cup {ni}]
    BY <1>2 DEF CreateNiRegister
  <2>2. \A d \in Vpcs \ {c} : register'[d] = register[d]
    BY <2>1 DEF SaveRegister
  <2>3. UNCHANGED <<cr, device, inherited>>
    BY <1>2 DEF CreateNiRegister
  <2>. QED BY <2>1, <2>2, <2>3
<1>3. CASE RemoveFinalizerFirst(c) \/ RemoveFinalizerLast(c)
  BY <1>3 DEF RemoveFinalizerFirst, RemoveFinalizerLast, RemoveCr
<1>4. CASE Destroy(c) \/ DestroyError(c) \/ Abort(c)
  BY <1>4 DEF Destroy, DestroyError, AfterDestroy, Abort, Fail, apiVars
<1>5. CASE CreateVpc(c) \/ EditVpc(c) \/ DeleteVpc(c)
  BY <1>5 DEF CreateVpc, EditVpc, DeleteVpc, SaveCr
<1>6. ASSUME NEW ni \in Nis, Deliver(c, ni) \/ AllocateNi(c, ni) \/ CollectRegister(c, ni)
      PROVE  OnlyMoves(c)
  BY <1>6 DEF Deliver, AllocateNi, CollectRegister, SaveRegister
<1>. QED BY <1>1, <1>2, <1>3, <1>4, <1>5, <1>6 DEF Reconcile

\* A vpc that does not exist owns no register.
LEMMA OwnsNothingStep ==
  ASSUME TypeOK, IndexInv, OwnsNothingAbsent, [Next]_vars
  PROVE  OwnsNothingAbsent'
<1>. USE DEF TypeOK
<1>1. ASSUME NEW c \in Vpcs, OnlyMoves(c), cr'[c].phase = "absent" => owned'[c] = {}
      PROVE  OwnsNothingAbsent'
  BY <1>1 DEF OnlyMoves, OwnsNothingAbsent
<1>2. ASSUME NEW c \in Vpcs, RemoveCr(c) \/ UNCHANGED <<cr, owned>>
      PROVE  cr'[c].phase = "absent" => owned'[c] = {}
  BY <1>2 DEF RemoveCr, OwnsNothingAbsent
<1>3. ASSUME NEW c \in Vpcs, Reconcile(c) \/ DestroyError(c) \/ Abort(c)
      PROVE  OwnsNothingAbsent'
  <2>1. CASE Begin(c)
    <3>1. cr'[c].phase = cr[c].phase /\ cr[c].phase # "absent"
      BY <2>1 DEF Begin
    <3>. QED BY <1>1, <1>3, <3>1, OneMoves
  <2>2. CASE CreateNiRegister(c)
    <3>1. cr' = cr /\ cr[c].phase # "absent"
      BY <2>2 DEF CreateNiRegister, IndexInv, Collecting, Finalized
    <3>. QED BY <1>1, <1>3, <3>1, OneMoves
  <2>3. CASE RemoveFinalizerFirst(c) \/ RemoveFinalizerLast(c)
    BY <1>1, <1>2, <1>3, <2>3, OneMoves DEF RemoveFinalizerFirst, RemoveFinalizerLast
  <2>4. CASE \/ CreateNiRegisterFails(c) \/ CreateDone(c) \/ GetNiRegister(c)
             \/ NiRegisterUnavailable(c) \/ Deploy(c) \/ BeginDestroy(c)
             \/ Destroy(c) \/ DestroyError(c) \/ Abort(c)
    <3>1. UNCHANGED <<cr, owned>>
      BY <2>4 DEF CreateNiRegisterFails, CreateDone, GetNiRegister, NiRegisterUnavailable,
         Deploy, BeginDestroy, Destroy, DestroyError, AfterDestroy, Abort, Fail, apiVars
    <3>. QED BY <1>1, <1>2, <1>3, <3>1, OneMoves
  <2>. QED BY <1>3, <2>1, <2>2, <2>3, <2>4 DEF Reconcile
<1>4. ASSUME NEW c \in Vpcs, CreateVpc(c) \/ EditVpc(c) \/ DeleteVpc(c)
      PROVE  OwnsNothingAbsent'
  <2>1. CASE CreateVpc(c)
    <3>1. cr'[c].phase = "live"
      BY <2>1 DEF CreateVpc, SaveCr
    <3>. QED BY <1>1, <1>4, <3>1, OneMoves
  <2>2. CASE EditVpc(c)
    <3>1. cr'[c].phase # "absent"
      BY <2>2 DEF EditVpc, SaveCr
    <3>. QED BY <1>1, <1>4, <3>1, OneMoves
  <2>3. CASE DeleteVpc(c) /\ cr[c].finalizer
    <3>1. cr' = [cr EXCEPT ![c] = [cr[c] EXCEPT !.phase = "deleting"]]
      BY <2>3, Zenon DEF DeleteVpc, SaveCr
    <3>2. cr'[c].phase = "deleting"
      BY <3>1
    <3>. QED BY <1>1, <1>4, <3>2, OneMoves
  <2>4. CASE DeleteVpc(c) /\ ~cr[c].finalizer
    <3>1. owned' = [owned EXCEPT ![c] = {}]
      BY <2>4, Zenon DEF DeleteVpc
    <3>2. owned'[c] = {}
      BY <3>1
    <3>. QED BY <1>1, <1>4, <3>2, OneMoves
  <2>. QED BY <1>4, <2>1, <2>2, <2>3, <2>4
<1>5. ASSUME NEW c \in Vpcs, NEW ni \in Nis,
             Deliver(c, ni) \/ AllocateNi(c, ni) \/ CollectRegister(c, ni)
      PROVE  UNCHANGED <<cr, owned>>
  BY <1>5 DEF Deliver, AllocateNi, CollectRegister
<1>6. UNCHANGED vars => UNCHANGED <<cr, owned>>
  BY DEF vars, apiVars
<1>7. UNCHANGED <<cr, owned>> => OwnsNothingAbsent'
  BY DEF OwnsNothingAbsent
<1>. QED BY <1>3, <1>4, <1>5, <1>6, <1>7 DEF Next

\* What the leases of the next state are, after a step of one vpc.
LEMMA LeaseOfMove ==
  ASSUME TypeOK, NEW c \in Vpcs, OnlyMoves(c)
  PROVE  /\ existingVpcs' = IF cr'[c].phase = "absent" THEN existingVpcs \ {c}
                            ELSE existingVpcs \cup {c}
         /\ grantedIndexes' =
              [grantedIndexes EXCEPT ![c] = [ni \in Nis |-> GrantedTo(c, ni)']]
         /\ configuredIndexes' = [configuredIndexes EXCEPT ![c] = ConfiguredFor(c)']
<1>1. ASSUME NEW d \in Vpcs \ {c}
      PROVE  /\ cr'[d] = cr[d]
             /\ \A ni \in Nis : GrantedTo(d, ni)' = GrantedTo(d, ni)
             /\ ConfiguredFor(d)' = ConfiguredFor(d)
  BY <1>1 DEF OnlyMoves, GrantedTo, ConfiguredFor, Settled
<1>2. existingVpcs' = IF cr'[c].phase = "absent" THEN existingVpcs \ {c}
                      ELSE existingVpcs \cup {c}
  BY <1>1 DEF existingVpcs
<1>3. grantedIndexes' =
        [grantedIndexes EXCEPT ![c] = [ni \in Nis |-> GrantedTo(c, ni)']]
  BY <1>1 DEF grantedIndexes
<1>4. configuredIndexes' = [configuredIndexes EXCEPT ![c] = ConfiguredFor(c)']
  BY <1>1 DEF configuredIndexes
<1>. QED BY <1>2, <1>3, <1>4

\* The leases of c stay, or its devices are emptied.
LEMMA LeaseStays ==
  ASSUME TypeOK, NEW c \in Vpcs, OnlyMoves(c),
         cr'[c].phase = "absent" <=> cr[c].phase = "absent",
         \A ni \in Nis : GrantedTo(c, ni)' = GrantedTo(c, ni),
         ConfiguredFor(c)' \in {ConfiguredFor(c), Nothing}
  PROVE  Lease!Withdraw(c) \/ UNCHANGED Lease!vars
<1>1. existingVpcs' = existingVpcs
  BY LeaseOfMove DEF existingVpcs
<1>2. grantedIndexes[c] = [ni \in Nis |-> GrantedTo(c, ni)']
  BY DEF grantedIndexes
<1>3. grantedIndexes' = grantedIndexes
  BY <1>2, LeaseOfMove DEF grantedIndexes
<1>4. CASE ConfiguredFor(c)' = ConfiguredFor(c)
  <2>1. configuredIndexes' = configuredIndexes
    BY <1>4, LeaseOfMove DEF configuredIndexes
  <2>. QED BY <1>1, <1>3, <2>1 DEF Lease!vars
<1>5. CASE ConfiguredFor(c)' = Nothing
  BY <1>1, <1>3, <1>5, LeaseOfMove DEF Lease!Withdraw, Lease!Nothing, Nothing
<1>. QED BY <1>4, <1>5

\* One network instance of c gets an index that nobody has.
LEMMA LeaseGrant ==
  ASSUME TypeOK, NEW c \in Vpcs, NEW ni \in Nis, NEW i \in Indexes, OnlyMoves(c),
         cr[c].phase # "absent", cr'[c].phase # "absent",
         GrantedTo(c, ni) = None, GrantedTo(c, ni)' = i,
         \A mi \in Nis \ {ni} : GrantedTo(c, mi)' = GrantedTo(c, mi),
         \A d \in Vpcs, mi \in Nis : GrantedTo(d, mi) # i,
         ConfiguredFor(c)' = ConfiguredFor(c)
  PROVE  Lease!Grant(c, ni, i)
<1>1. existingVpcs' = existingVpcs /\ c \in existingVpcs
  BY LeaseOfMove DEF existingVpcs
<1>2. /\ grantedIndexes[c][ni] = None
      /\ \A d \in Vpcs, mi \in Nis : grantedIndexes[d][mi] # i
  BY DEF grantedIndexes
<1>3. grantedIndexes' = [grantedIndexes EXCEPT ![c][ni] = i]
  <2>1. [ni1 \in Nis |-> GrantedTo(c, ni1)'] = [grantedIndexes[c] EXCEPT ![ni] = i]
    BY DEF grantedIndexes
  <2>. QED BY <2>1, LeaseOfMove DEF grantedIndexes
<1>4. configuredIndexes' = configuredIndexes
  BY LeaseOfMove DEF configuredIndexes
<1>. QED BY <1>1, <1>2, <1>3, <1>4 DEF Lease!Grant

\* c exists no longer, and nothing of it is left.
LEMMA LeaseEnds ==
  ASSUME TypeOK, NEW c \in Vpcs, OnlyMoves(c), OwnsNothingAbsent,
         cr'[c].phase = "absent", owned'[c] = {}
  PROVE  Lease!End(c) \/ UNCHANGED Lease!vars
<1>1. /\ \A ni \in Nis : GrantedTo(c, ni)' = None
      /\ ConfiguredFor(c)' = Nothing
  BY DEF GrantedTo, ConfiguredFor, Settled, Nothing
<1>2. CASE cr[c].phase = "absent"
  <2>1. \A ni \in Nis : GrantedTo(c, ni)' = GrantedTo(c, ni)
    BY <1>1, <1>2 DEF GrantedTo, OwnsNothingAbsent
  <2>2. ConfiguredFor(c) = Nothing
    BY <1>2 DEF ConfiguredFor, Settled
  <2>3. existingVpcs' = existingVpcs
    BY <1>2, LeaseOfMove DEF existingVpcs
  <2>4. grantedIndexes' = grantedIndexes
    <3>1. grantedIndexes[c] = [ni \in Nis |-> GrantedTo(c, ni)']
      BY <2>1 DEF grantedIndexes
    <3>. QED BY <3>1, LeaseOfMove DEF grantedIndexes
  <2>5. configuredIndexes' = configuredIndexes
    BY <1>1, <2>2, LeaseOfMove DEF configuredIndexes
  <2>. QED BY <2>3, <2>4, <2>5 DEF Lease!vars
<1>3. CASE cr[c].phase # "absent"
  <2>1. c \in existingVpcs /\ existingVpcs' = existingVpcs \ {c}
    BY <1>3, LeaseOfMove DEF existingVpcs
  <2>2. grantedIndexes' = [grantedIndexes EXCEPT ![c] = Lease!Nothing]
    BY <1>1, LeaseOfMove DEF Lease!Nothing
  <2>3. configuredIndexes' = [configuredIndexes EXCEPT ![c] = Lease!Nothing]
    BY <1>1, LeaseOfMove DEF Lease!Nothing, Nothing
  <2>. QED BY <2>1, <2>2, <2>3 DEF Lease!End
<1>. QED BY <1>2, <1>3

\* What the leases of c are mapped from stays.
LEMMA LeaseUntouched ==
  ASSUME TypeOK, NEW c \in Vpcs, OnlyMoves(c),
         cr'[c].phase = "absent" <=> cr[c].phase = "absent",
         UNCHANGED <<register[c], owned[c], device[c]>>, c \in inherited' <=> c \in inherited
  PROVE  Lease!Withdraw(c) \/ UNCHANGED Lease!vars
<1>1. \A ni \in Nis : GrantedTo(c, ni)' = GrantedTo(c, ni)
  BY DEF GrantedTo
<1>2. ConfiguredFor(c)' = ConfiguredFor(c)
  BY DEF ConfiguredFor, Settled
<1>. QED BY <1>1, <1>2, LeaseStays

\* Apply finds a register that a predecessor of the vpc has left: it is adopted, and so
\* is its index; or it makes one, without an index.
LEMMA CreateImplements ==
  ASSUME TypeOK, IndexInv, NEW c \in Vpcs, CreateNiRegister(c)
  PROVE  [Lease!Next]_(Lease!vars)
<1>. USE NiRegisterAssumption
<1>1. OnlyMoves(c)
  BY OneMoves DEF Reconcile
<1>2. PICK ni \in todo[c] :
        /\ IF seen[c][ni] = None
           THEN register[c][ni] = None /\ SaveRegister(c, ni, Pending)
           ELSE register[c][ni] # None /\ UNCHANGED <<register, news>>
        /\ owned' = [owned EXCEPT ![c] = @ \cup {ni}]
  BY DEF CreateNiRegister
<1>3. ni \in Nis /\ owned'[c] = owned[c] \cup {ni} /\ UNCHANGED <<cr, device, inherited>>
  BY <1>2 DEF CreateNiRegister, TypeOK
<1>4. ConfiguredFor(c)' = ConfiguredFor(c)
  BY <1>3 DEF ConfiguredFor, Settled
<1>5. \A mi \in Nis \ {ni} : GrantedTo(c, mi)' = GrantedTo(c, mi)
  <2>1. \A mi \in Nis \ {ni} : register'[c][mi] = register[c][mi]
    BY <1>2, <1>3 DEF SaveRegister, TypeOK
  <2>. QED BY <1>3, <2>1 DEF GrantedTo
<1>6. CASE GrantedTo(c, ni)' = GrantedTo(c, ni)
  BY <1>1, <1>3, <1>4, <1>5, <1>6, LeaseStays DEF Lease!Next
<1>7. CASE GrantedTo(c, ni)' # GrantedTo(c, ni)
  <2>1. register'[c][ni] = register[c][ni]
    <3>1. CASE register[c][ni] = None /\ SaveRegister(c, ni, Pending)
      <4>1. register'[c][ni] = Pending
        BY <1>3, <3>1 DEF SaveRegister, TypeOK
      <4>. QED BY <1>7, <3>1, <4>1 DEF GrantedTo
    <3>. QED BY <1>2, <3>1
  <2>2. PICK i \in Indexes : register[c][ni] = i
    BY <1>7, <2>1 DEF GrantedTo
  <2>3. ni \notin owned[c]
    BY <1>3, <1>7, <2>1 DEF GrantedTo
  <2>4. GrantedTo(c, ni) = None /\ GrantedTo(c, ni)' = i
    BY <1>3, <2>1, <2>2, <2>3 DEF GrantedTo
  <2>5. \A d \in Vpcs, mi \in Nis : GrantedTo(d, mi) # i
    BY <1>3, <2>2, <2>3 DEF GrantedTo, IndexInv, Distinct
  <2>6. cr[c].phase # "absent" /\ cr'[c].phase # "absent"
    BY <1>3 DEF CreateNiRegister, IndexInv, Collecting, Finalized
  <2>7. Lease!Grant(c, ni, i)
    BY <1>1, <1>3, <1>4, <1>5, <2>4, <2>5, <2>6, LeaseGrant
  <2>. QED BY <1>3, <2>7 DEF Lease!Next
<1>. QED BY <1>6, <1>7

\* Update writes what it has collected, and that is what its registers hold.
LEMMA DeployImplements ==
  ASSUME TypeOK, IndexInv, IndexHeld, NEW c \in Vpcs, Deploy(c)
  PROVE  Lease!Next
<1>. DEFINE S == {ni \in Nis : niInfos[c][ni] # None}
<1>1. OnlyMoves(c)
  BY OneMoves DEF Reconcile
<1>2. /\ pc[c] = "collect" /\ device'[c] = niInfos[c] /\ c \notin inherited'
      /\ UNCHANGED <<cr, register, owned>>
  BY DEF Deploy, AllCollected, apiVars, TypeOK
<1>3. cr[c].phase # "absent"
  BY <1>2 DEF IndexInv, Collecting, Finalized
<1>4. \A ni \in S : GrantedTo(c, ni) = niInfos[c][ni]
  <2>1. ASSUME NEW ni \in S
        PROVE  /\ ni \in owned[c] /\ register[c][ni] = niInfos[c][ni]
               /\ niInfos[c][ni] \in Indexes
    BY <1>2 DEF IndexInv, Collecting, IndexHeld, TypeOK, IndexMap
  <2>. QED BY <2>1 DEF GrantedTo
<1>5. niInfos[c] = [ni \in Nis |-> IF ni \in S THEN grantedIndexes[c][ni] ELSE None]
  BY <1>4 DEF grantedIndexes, TypeOK, IndexMap
<1>6. ConfiguredFor(c)' = niInfos[c]
  BY <1>2, <1>3 DEF ConfiguredFor, Settled
<1>7. c \in existingVpcs /\ existingVpcs' = existingVpcs
  BY <1>2, <1>3 DEF existingVpcs
<1>8. grantedIndexes' = grantedIndexes
  BY <1>2 DEF grantedIndexes, GrantedTo
<1>9. \A ni \in S : grantedIndexes[c][ni] # None
  BY <1>4 DEF grantedIndexes
<1>10. configuredIndexes' =
         [configuredIndexes EXCEPT ![c] =
            [ni \in Nis |-> IF ni \in S THEN grantedIndexes[c][ni] ELSE None]]
  BY <1>1, <1>5, <1>6, LeaseOfMove
<1>11. Lease!Configure(c, S)
  BY <1>7, <1>8, <1>9, <1>10 DEF Lease!Configure
<1>. QED BY <1>11 DEF Lease!Next

\* Every step of a worker.
LEMMA WorkerImplements ==
  ASSUME TypeOK, IndexInv, IndexHeld, OwnsNothingAbsent, NEW c \in Vpcs,
         Reconcile(c) \/ DestroyError(c) \/ Abort(c)
  PROVE  [Lease!Next]_(Lease!vars)
<1>0. OnlyMoves(c)
  BY OneMoves
<1>1. CASE Begin(c)
  <2>1. /\ cr'[c].phase = "absent" <=> cr[c].phase = "absent"
        /\ UNCHANGED <<register, owned, device, inherited>>
    BY <1>1 DEF Begin, TypeOK
  <2>. QED BY <1>0, <2>1, LeaseUntouched DEF Lease!Next
<1>2. CASE \/ CreateNiRegisterFails(c) \/ CreateDone(c) \/ GetNiRegister(c)
           \/ NiRegisterUnavailable(c) \/ BeginDestroy(c) \/ DestroyError(c) \/ Abort(c)
  <2>1. UNCHANGED <<cr, register, owned, device, inherited>>
    BY <1>2 DEF CreateNiRegisterFails, CreateDone, GetNiRegister, NiRegisterUnavailable,
       BeginDestroy, DestroyError, AfterDestroy, Abort, Fail, apiVars
  <2>. QED BY <1>0, <2>1, LeaseUntouched DEF Lease!Next
<1>3. CASE RemoveFinalizerFirst(c) \/ RemoveFinalizerLast(c)
  <2>1. RemoveCr(c)
    BY <1>3 DEF RemoveFinalizerFirst, RemoveFinalizerLast
  <2>2. cr'[c].phase = "absent" /\ owned'[c] = {}
    BY <2>1 DEF RemoveCr, AbsentCr, TypeOK
  <2>. QED BY <1>0, <2>2, LeaseEnds DEF Lease!Next
<1>4. CASE Destroy(c)
  <2>1. UNCHANGED <<cr, register, owned>>
    BY <1>4 DEF Destroy, AfterDestroy, apiVars
  <2>2. CASE UNCHANGED <<device, inherited>>
    BY <1>0, <2>1, <2>2, LeaseUntouched DEF Lease!Next
  <2>3. CASE device' = [device EXCEPT ![c] = Nothing]
    <3>1. device'[c] = Nothing
      BY <2>3 DEF TypeOK
    <3>2. ConfiguredFor(c)' = Nothing
      BY <3>1 DEF ConfiguredFor
    <3>3. \A ni \in Nis : GrantedTo(c, ni)' = GrantedTo(c, ni)
      BY <2>1 DEF GrantedTo
    <3>. QED BY <1>0, <2>1, <3>2, <3>3, LeaseStays DEF Lease!Next
  <2>. QED BY <1>4, <2>2, <2>3 DEF Destroy
<1>. QED BY <1>1, <1>2, <1>3, <1>4, CreateImplements, DeployImplements DEF Reconcile

\* Every step of a user.
LEMMA UserImplements ==
  ASSUME TypeOK, OwnsNothingAbsent, NEW c \in Vpcs,
         CreateVpc(c) \/ EditVpc(c) \/ DeleteVpc(c)
  PROVE  [Lease!Next]_(Lease!vars)
<1>0. OnlyMoves(c) /\ UNCHANGED <<register, device>>
  BY OneMoves DEF CreateVpc, EditVpc, DeleteVpc, SaveCr
<1>1. CASE CreateVpc(c)
  <2>1. /\ cr[c].phase = "absent" /\ cr'[c].phase = "live" /\ owned' = owned
        /\ device[c] # Nothing => c \in inherited'
    BY <1>1 DEF CreateVpc, SaveCr, TypeOK
  <2>2. c \notin existingVpcs /\ existingVpcs' = existingVpcs \cup {c}
    BY <1>0, <2>1, LeaseOfMove DEF existingVpcs
  <2>3. grantedIndexes' = grantedIndexes
    BY <1>0, <2>1 DEF grantedIndexes, GrantedTo
  <2>4. ConfiguredFor(c) = Nothing /\ ConfiguredFor(c)' = Nothing
    BY <1>0, <2>1 DEF ConfiguredFor, Settled
  <2>5. configuredIndexes' = configuredIndexes
    BY <1>0, <2>4, LeaseOfMove DEF configuredIndexes
  <2>6. Lease!Begin(c)
    BY <2>2, <2>3, <2>5 DEF Lease!Begin
  <2>. QED BY <2>6 DEF Lease!Next
<1>2. CASE EditVpc(c)
  <2>1. /\ cr'[c].phase = "absent" <=> cr[c].phase = "absent"
        /\ UNCHANGED <<owned, inherited>>
    BY <1>2 DEF EditVpc, SaveCr, TypeOK
  <2>. QED BY <1>0, <2>1, LeaseUntouched DEF Lease!Next
<1>3. CASE DeleteVpc(c) /\ cr[c].finalizer
  <2>1. /\ cr' = [cr EXCEPT ![c] = [cr[c] EXCEPT !.phase = "deleting"]]
        /\ UNCHANGED <<owned, inherited>> /\ cr[c].phase = "live"
    BY <1>3, Zenon DEF DeleteVpc, SaveCr
  <2>2. cr'[c].phase = "deleting"
    BY <2>1 DEF TypeOK
  <2>. QED BY <1>0, <2>1, <2>2, LeaseUntouched DEF Lease!Next
<1>4. CASE DeleteVpc(c) /\ ~cr[c].finalizer
  <2>1. cr' = [cr EXCEPT ![c] = AbsentCr] /\ owned' = [owned EXCEPT ![c] = {}]
    BY <1>4, Zenon DEF DeleteVpc, SaveCr
  <2>2. cr'[c].phase = "absent" /\ owned'[c] = {}
    BY <2>1 DEF AbsentCr, TypeOK
  <2>. QED BY <1>0, <2>2, LeaseEnds DEF Lease!Next
<1>. QED BY <1>1, <1>2, <1>3, <1>4

\* Every step of the cache, the ni registry and the garbage collector.
LEMMA RegistryImplements ==
  ASSUME TypeOK, OwnsNothingAbsent, NEW c \in Vpcs, NEW ni \in Nis,
         Deliver(c, ni) \/ AllocateNi(c, ni) \/ CollectRegister(c, ni)
  PROVE  [Lease!Next]_(Lease!vars)
<1>. USE NiRegisterAssumption
<1>0. OnlyMoves(c) /\ UNCHANGED <<cr, owned, device, inherited>>
  BY OneMoves DEF Deliver, AllocateNi, CollectRegister
<1>1. ConfiguredFor(c)' = ConfiguredFor(c)
  BY <1>0 DEF ConfiguredFor, Settled
<1>2. CASE Deliver(c, ni)
  BY <1>0, <1>2, LeaseUntouched DEF Deliver, Lease!Next
<1>3. CASE CollectRegister(c, ni)
  <2>1. /\ ni \notin owned[c]
        /\ \A mi \in Nis \ {ni} : register'[c][mi] = register[c][mi]
    BY <1>3 DEF CollectRegister, SaveRegister, TypeOK
  <2>2. \A mi \in Nis : GrantedTo(c, mi)' = GrantedTo(c, mi)
    BY <1>0, <2>1 DEF GrantedTo
  <2>. QED BY <1>0, <1>1, <2>2, LeaseStays DEF Lease!Next
<1>4. CASE AllocateNi(c, ni)
  <2>1. PICK i \in Indexes \ Held : SaveRegister(c, ni, i)
    BY <1>4 DEF AllocateNi
  <2>2. /\ register[c][ni] = Pending /\ register'[c][ni] = i
        /\ \A mi \in Nis \ {ni} : register'[c][mi] = register[c][mi]
    BY <1>4, <2>1 DEF AllocateNi, SaveRegister, TypeOK
  <2>3. \A mi \in Nis \ {ni} : GrantedTo(c, mi)' = GrantedTo(c, mi)
    BY <1>0, <2>2 DEF GrantedTo
  <2>4. GrantedTo(c, ni) = None
    BY <2>2 DEF GrantedTo
  <2>5. CASE ni \notin owned[c]
    <3>1. GrantedTo(c, ni)' = None
      BY <1>0, <2>5 DEF GrantedTo
    <3>. QED BY <1>0, <1>1, <2>3, <2>4, <3>1, LeaseStays DEF Lease!Next
  <2>6. CASE ni \in owned[c]
    <3>1. GrantedTo(c, ni)' = i
      BY <1>0, <2>2, <2>6 DEF GrantedTo
    <3>2. \A d \in Vpcs, mi \in Nis : GrantedTo(d, mi) # i
      BY <2>1 DEF GrantedTo, Held
    <3>3. cr[c].phase # "absent" /\ cr'[c].phase # "absent"
      BY <1>0, <2>6 DEF OwnsNothingAbsent
    <3>4. Lease!Grant(c, ni, i)
      BY <1>0, <1>1, <2>1, <2>3, <2>4, <3>1, <3>2, <3>3, LeaseGrant
    <3>. QED BY <2>1, <3>4 DEF Lease!Next
  <2>. QED BY <2>5, <2>6
<1>. QED BY <1>2, <1>3, <1>4

\* Every step is one of NiLease or leaves the leases alone.
LEMMA LeaseStep ==
  ASSUME TypeOK, IndexInv, IndexHeld, OwnsNothingAbsent, [Next]_vars
  PROVE  [Lease!Next]_(Lease!vars)
<1>1. UNCHANGED vars => UNCHANGED Lease!vars
  BY DEF vars, apiVars, Lease!vars, existingVpcs, grantedIndexes, GrantedTo,
         configuredIndexes, ConfiguredFor, Settled
<1>. QED BY <1>1, WorkerImplements, UserImplements, RegistryImplements DEF Next

\* With a cache at most three changes of a register behind, for any number of vpcs,
\* network instances, indexes, changes and faults, the workers, the registry and the
\* garbage collector implement the leases: an index that CreateNiRegister has got for a
\* vpc is its own and stays the same until the vpc is gone, and populateSchema
\* configures nothing else.
THEOREM LeaseCorrect ==
  ASSUME MaxLag <= 3
  PROVE  Spec => ImplementsLease
<1>1. Init => Lease!Init /\ OwnsNothingAbsent
  <2>. SUFFICES ASSUME Init PROVE Lease!Init /\ OwnsNothingAbsent
    OBVIOUS
  <2>1. \A c \in Vpcs : cr[c].phase = "absent" /\ owned[c] = {}
    BY DEF Init, AbsentCr
  <2>. QED BY <2>1 DEF Lease!Init, Lease!Nothing, OwnsNothingAbsent, existingVpcs,
           grantedIndexes, GrantedTo, configuredIndexes, ConfiguredFor, Settled, Nothing
<1>2. TypeOK /\ IndexInv /\ OwnsNothingAbsent /\ [Next]_vars => OwnsNothingAbsent'
  BY OwnsNothingStep
<1>3. TypeOK /\ IndexInv /\ IndexHeld /\ OwnsNothingAbsent /\ [Next]_vars
        => [Lease!Next]_(Lease!vars)
  BY LeaseStep
<1>. QED BY <1>1, <1>2, <1>3, TypeCorrect, HeldInvariant, PTL
         DEF Spec, ImplementsLease, Lease!Spec
=============================================================================
