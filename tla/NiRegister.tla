----------------------------- MODULE NiRegister -----------------------------
(***************************************************************************)
(* The indexes of the network instances (internal/nihandler and            *)
(* allocateNiIndexes): every vpc creates a register per network instance,  *)
(* waits until the ni registry has given it an index, and writes the index *)
(* (evi, vni, route targets) to its device.  All vpcs share the registry;  *)
(* their workers, the registry, the garbage collector and the users        *)
(* interleave at every call.  A register is never deleted by the vpc: its  *)
(* owner reference leaves that to the garbage collector.                   *)
(*                                                                         *)
(* Gets are answered by the cache of the manager's client, which follows   *)
(* the API server with a lag, creates and patches by the API server.  One  *)
(* device stands for all of a vpc, written and removed as a whole: the     *)
(* loops over devices are in VpcController, which also shows that one      *)
(* worker at a time has a vpc.                                             *)
(***************************************************************************)
EXTENDS Sequences, FiniteSets, Integers

CONSTANTS
  Vpcs, Nis,
  Indexes,          \* what the ni registry has to give
  None,             \* no register, no index
  Pending,          \* a register without an index: not Ready
  MaxEnv,           \* bound: creations, edits and deletions by users
  MaxFaults,        \* bound: failed calls and restarts
  MaxLag            \* bound: changes of a register the cache may be behind

ASSUME NiRegisterAssumption ==
  /\ None \notin Indexes /\ Pending \notin Indexes /\ None # Pending
  /\ MaxEnv \in Nat /\ MaxFaults \in Nat /\ MaxLag \in Nat \ {0}

VARIABLES
  cr,               \* cr[c]: phase, finalizer and spec of the resource
  register,         \* register[c][ni] in the API server: None, Pending or an index
  owned,            \* owned[c]: registers whose owner is the vpc that exists now
  seen,             \* seen[c][ni]: the register in the cache
  news,             \* news[c][ni]: later changes of it that the cache has not got
  device,           \* device[c][ni]: index configured for ni, None if ni is not
  pc, todo,         \* the next call of the worker of c, and its loop
  plan,             \* its copy of the spec
  deleting, gone,   \* it runs Delete; the finalizer has been removed before
  niInfos,          \* the indexes it has collected
  inherited,        \* history: vpcs that found the device of a predecessor
  env, faults

apiVars    == <<cr, register, owned, seen, news>>
workerVars == <<pc, todo, plan, deleting, gone, niInfos>>
vars == <<apiVars, device, workerVars, inherited, env, faults>>

Nothing == [ni \in Nis |-> None]
AbsentCr == [phase |-> "absent", finalizer |-> FALSE, spec |-> {}]

-----------------------------------------------------------------------------
(* The API server and its cache                                             *)

\* A register changes; the cache learns of it later.
SaveRegister(c, ni, value) ==
  /\ Len(news[c][ni]) < MaxLag
  /\ register' = [register EXCEPT ![c][ni] = value]
  /\ news' = [news EXCEPT ![c][ni] = Append(@, value)]

Deliver(c, ni) ==
  /\ news[c][ni] # <<>>
  /\ seen' = [seen EXCEPT ![c][ni] = Head(news[c][ni])]
  /\ news' = [news EXCEPT ![c][ni] = Tail(@)]
  /\ UNCHANGED <<cr, register, owned, device, workerVars, inherited, env, faults>>

\* The resource disappears, and what it owned is left to the garbage collector.
RemoveCr(c) ==
  /\ cr' = [cr EXCEPT ![c] = AbsentCr]
  /\ owned' = [owned EXCEPT ![c] = {}]

-----------------------------------------------------------------------------
(* The worker of a vpc                                                      *)

Goto(c, l, S) ==
  /\ pc' = [pc EXCEPT ![c] = l]
  /\ todo' = [todo EXCEPT ![c] = S]

\* A reconcile that fails begins again: it keeps nothing.
Fail(c) ==
  /\ Goto(c, "idle", {})
  /\ niInfos' = [niInfos EXCEPT ![c] = Nothing]
  /\ gone' = [gone EXCEPT ![c] = FALSE]
  /\ UNCHANGED <<apiVars, plan, deleting, device, inherited>>

Begin(c) ==
  /\ pc[c] = "idle" /\ cr[c].phase # "absent"
  /\ cr' = [cr EXCEPT ![c].finalizer = TRUE]
  /\ plan' = [plan EXCEPT ![c] = cr[c].spec]
  /\ deleting' = [deleting EXCEPT ![c] = cr[c].phase = "deleting"]
  /\ Goto(c, "create", cr[c].spec)
  /\ UNCHANGED <<register, owned, seen, news, gone, niInfos, device, inherited, env, faults>>

\* Mutant of CreateNiRegister: a register found in the cache is not applied.
CreateNiRegisterIfUnseen(c) ==
  /\ pc[c] = "create"
  /\ \E ni \in todo[c] :
       /\ IF seen[c][ni] = None
          THEN register[c][ni] = None /\ SaveRegister(c, ni, Pending)
          ELSE UNCHANGED <<register, news>>
       /\ owned' = [owned EXCEPT ![c] = @ \cup {ni}]
       /\ Goto(c, "create", todo[c] \ {ni})
  /\ UNCHANGED <<cr, seen, plan, deleting, gone, niInfos, device, inherited, env, faults>>

\* Mutant of CreateNiRegister: a vpc that goes away creates no registers.
CreateNiRegisterUnlessDeleting(c) ==
  /\ pc[c] = "create"
  /\ \E ni \in todo[c] :
       /\ IF seen[c][ni] = None /\ ~deleting[c]
          THEN register[c][ni] = None /\ SaveRegister(c, ni, Pending)
          ELSE UNCHANGED <<register, news>>
       /\ owned' = [owned EXCEPT ![c] = @ \cup {ni}]
       /\ Goto(c, "create", todo[c] \ {ni})
  /\ UNCHANGED <<cr, seen, plan, deleting, gone, niInfos, device, inherited, env, faults>>

\* Mutant of CreateNiRegister: Apply resets the status of the register it finds.
CreateNiRegisterAnew(c) ==
  /\ pc[c] = "create"
  /\ \E ni \in todo[c] :
       /\ IF seen[c][ni] = None THEN register[c][ni] = None ELSE register[c][ni] # None
       /\ SaveRegister(c, ni, Pending)
       /\ owned' = [owned EXCEPT ![c] = @ \cup {ni}]
       /\ Goto(c, "create", todo[c] \ {ni})
  /\ UNCHANGED <<cr, seen, plan, deleting, gone, niInfos, device, inherited, env, faults>>

\* Apply: a Get answered by the cache, then a create if there is none, or a patch
\* that makes this vpc the owner and leaves the status alone.
CreateNiRegister(c) ==
  /\ pc[c] = "create"
  /\ \E ni \in todo[c] :
       /\ IF seen[c][ni] = None
          THEN register[c][ni] = None /\ SaveRegister(c, ni, Pending)
          ELSE register[c][ni] # None /\ UNCHANGED <<register, news>>
       /\ owned' = [owned EXCEPT ![c] = @ \cup {ni}]
       /\ Goto(c, "create", todo[c] \ {ni})
  /\ UNCHANGED <<cr, seen, plan, deleting, gone, niInfos, device, inherited, env, faults>>

\* The cache is wrong: "already exists", or "not found".
CreateNiRegisterFails(c) ==
  /\ pc[c] = "create"
  /\ \E ni \in todo[c] : (seen[c][ni] = None) # (register[c][ni] = None)
  /\ Fail(c)
  /\ UNCHANGED <<env, faults>>

CreateDone(c) ==
  /\ pc[c] = "create" /\ todo[c] = {}
  /\ Goto(c, "collect", plan[c])
  /\ UNCHANGED <<apiVars, plan, deleting, gone, niInfos, device, inherited, env, faults>>

\* Mutant of GetNiRegister: a register that is not Ready passes, with no index in it.
GetNiRegisterUnready(c) ==
  /\ pc[c] = "collect"
  /\ \E ni \in todo[c] :
       /\ seen[c][ni] # None
       /\ niInfos' = [niInfos EXCEPT ![c][ni] = seen[c][ni]]
       /\ Goto(c, "collect", todo[c] \ {ni})
  /\ UNCHANGED <<apiVars, plan, deleting, gone, device, inherited, env, faults>>

GetNiRegister(c) ==
  /\ pc[c] = "collect"
  /\ \E ni \in todo[c] :
       /\ seen[c][ni] \in Indexes
       /\ niInfos' = [niInfos EXCEPT ![c][ni] = seen[c][ni]]
       /\ Goto(c, "collect", todo[c] \ {ni})
  /\ UNCHANGED <<apiVars, plan, deleting, gone, device, inherited, env, faults>>

NiRegisterUnavailable(c) ==
  /\ pc[c] = "collect"
  /\ \E ni \in todo[c] : seen[c][ni] \notin Indexes
  /\ Fail(c)
  /\ UNCHANGED <<env, faults>>

AllCollected(c) == pc[c] = "collect" /\ todo[c] = {}

\* Update replaces what the device has by the plan, under the collected indexes.
Deploy(c) ==
  /\ AllCollected(c) /\ ~deleting[c]
  /\ device' = [device EXCEPT ![c] = niInfos[c]]
  /\ inherited' = inherited \ {c}
  /\ Goto(c, "idle", {})
  /\ niInfos' = [niInfos EXCEPT ![c] = Nothing]
  /\ UNCHANGED <<apiVars, plan, deleting, gone, env, faults>>

\* Delete returns true; the finalizer goes before or after FinalDelete.
BeginDestroy(c) ==
  /\ AllCollected(c) /\ deleting[c]
  /\ Goto(c, "destroy", {})
  /\ UNCHANGED <<apiVars, plan, deleting, gone, niInfos, device, inherited, env, faults>>

RemoveFinalizerFirst(c) ==
  /\ AllCollected(c) /\ deleting[c]
  /\ RemoveCr(c)
  /\ gone' = [gone EXCEPT ![c] = TRUE]
  /\ Goto(c, "destroy", {})
  /\ UNCHANGED <<register, seen, news, plan, deleting, niInfos, device, inherited, env, faults>>

AfterDestroy(c) ==
  /\ Goto(c, IF gone[c] THEN "idle" ELSE "unfinalize", {})
  /\ gone' = [gone EXCEPT ![c] = FALSE]
  /\ niInfos' = [niInfos EXCEPT ![c] = Nothing]
  /\ UNCHANGED <<apiVars, plan, deleting, env>>

\* Destroy removes the devices that the intent of the last spec has: none, if that
\* spec has no network instance left, and not those of nodes it no longer selects.
Destroy(c) ==
  /\ pc[c] = "destroy"
  /\ \/ /\ plan[c] # {}
        /\ device' = [device EXCEPT ![c] = Nothing]
        /\ inherited' = inherited \ {c}
     \/ UNCHANGED <<device, inherited>>
  /\ AfterDestroy(c)
  /\ UNCHANGED faults

\* FinalDelete drops the error of Destroy.
DestroyError(c) ==
  /\ pc[c] = "destroy"
  /\ faults < MaxFaults /\ faults' = faults + 1
  /\ AfterDestroy(c)
  /\ UNCHANGED <<device, inherited>>

RemoveFinalizerLast(c) ==
  /\ pc[c] = "unfinalize"
  /\ RemoveCr(c)
  /\ Goto(c, "idle", {})
  /\ UNCHANGED <<register, seen, news, plan, deleting, gone, niInfos, device, inherited,
                 env, faults>>

\* A failed call or a restart ends the reconcile at any point.
Abort(c) ==
  /\ pc[c] # "idle"
  /\ faults < MaxFaults /\ faults' = faults + 1
  /\ Fail(c)
  /\ UNCHANGED env

-----------------------------------------------------------------------------
(* Users, the ni registry and the garbage collector                         *)

SaveCr(c, value) ==
  /\ env < MaxEnv /\ env' = env + 1
  /\ cr' = [cr EXCEPT ![c] = value]
  /\ UNCHANGED <<register, seen, news, device, workerVars, faults>>

\* A vpc created under the name of one that left its device behind inherits it.
CreateVpc(c) ==
  /\ cr[c].phase = "absent"
  /\ \E s \in SUBSET Nis : SaveCr(c, [phase |-> "live", finalizer |-> FALSE, spec |-> s])
  /\ inherited' = IF device[c] # Nothing THEN inherited \cup {c} ELSE inherited
  /\ UNCHANGED owned

EditVpc(c) ==
  /\ cr[c].phase # "absent"
  /\ \E s \in SUBSET Nis \ {cr[c].spec} : SaveCr(c, [cr[c] EXCEPT !.spec = s])
  /\ UNCHANGED <<owned, inherited>>

DeleteVpc(c) ==
  /\ cr[c].phase = "live"
  /\ IF cr[c].finalizer
     THEN SaveCr(c, [cr[c] EXCEPT !.phase = "deleting"]) /\ UNCHANGED owned
     ELSE SaveCr(c, AbsentCr) /\ owned' = [owned EXCEPT ![c] = {}]
  /\ UNCHANGED inherited

Held == {register[c][ni] : c \in Vpcs, ni \in Nis} \cap Indexes

AllocateNi(c, ni) ==
  /\ register[c][ni] = Pending
  /\ \E i \in Indexes \ Held : SaveRegister(c, ni, i)
  /\ UNCHANGED <<cr, owned, seen, device, workerVars, inherited, env, faults>>

\* Mutant of CollectRegister: registers of network instances that the spec no
\* longer names are deleted too, as DeleteNiRegister would.
CollectUnused(c, ni) ==
  /\ register[c][ni] # None /\ ni \notin owned[c] \cap cr[c].spec
  /\ SaveRegister(c, ni, None)
  /\ UNCHANGED <<cr, owned, seen, device, workerVars, inherited, env, faults>>

\* Only what no existing vpc owns.
CollectRegister(c, ni) ==
  /\ register[c][ni] # None /\ ni \notin owned[c]
  /\ SaveRegister(c, ni, None)
  /\ UNCHANGED <<cr, owned, seen, device, workerVars, inherited, env, faults>>

-----------------------------------------------------------------------------
Init ==
  /\ cr = [c \in Vpcs |-> AbsentCr]
  /\ register = [c \in Vpcs |-> Nothing] /\ seen = register
  /\ owned = [c \in Vpcs |-> {}]
  /\ news = [c \in Vpcs |-> [ni \in Nis |-> <<>>]]
  /\ device = [c \in Vpcs |-> Nothing]
  /\ pc = [c \in Vpcs |-> "idle"]
  /\ todo = [c \in Vpcs |-> {}] /\ plan = todo
  /\ deleting = [c \in Vpcs |-> FALSE] /\ gone = deleting
  /\ niInfos = [c \in Vpcs |-> Nothing]
  /\ inherited = {} /\ env = 0 /\ faults = 0

Reconcile(c) ==
  \/ Begin(c)
  \/ CreateNiRegister(c) \/ CreateNiRegisterFails(c) \/ CreateDone(c)
  \/ GetNiRegister(c) \/ NiRegisterUnavailable(c) \/ Deploy(c)
  \/ BeginDestroy(c) \/ RemoveFinalizerFirst(c) \/ Destroy(c) \/ RemoveFinalizerLast(c)

Next ==
  \/ \E c \in Vpcs :
       \/ Reconcile(c) \/ DestroyError(c) \/ Abort(c)
       \/ CreateVpc(c) \/ EditVpc(c) \/ DeleteVpc(c)
  \/ \E c \in Vpcs, ni \in Nis : Deliver(c, ni) \/ AllocateNi(c, ni) \/ CollectRegister(c, ni)

Spec == Init /\ [][Next]_vars

\* Every vpc is reconciled again and again (it is requeued after an error and
\* polled otherwise); the cache follows, the registry answers while it has an
\* index, and the garbage collector runs.
Fairness ==
  /\ \A c \in Vpcs : WF_vars(Reconcile(c))
  /\ \A c \in Vpcs, ni \in Nis :
       WF_vars(Deliver(c, ni)) /\ WF_vars(AllocateNi(c, ni)) /\ WF_vars(CollectRegister(c, ni))

FairSpec == Spec /\ Fairness

-----------------------------------------------------------------------------
(* Properties                                                               *)

RegisterValue == Indexes \cup {None, Pending}
IndexMap == [Nis -> Indexes \cup {None}]

\* Every variable has its type.
TypeOK ==
  /\ cr \in [Vpcs -> [phase : {"absent", "live", "deleting"}, finalizer : BOOLEAN,
                      spec : SUBSET Nis]]
  /\ register \in [Vpcs -> [Nis -> RegisterValue]]
  /\ seen \in [Vpcs -> [Nis -> RegisterValue]]
  /\ owned \in [Vpcs -> SUBSET Nis]
  /\ news \in [Vpcs -> [Nis -> Seq(RegisterValue)]]
  /\ \A c \in Vpcs, ni \in Nis : Len(news[c][ni]) <= MaxLag
  /\ device \in [Vpcs -> IndexMap] /\ niInfos \in [Vpcs -> IndexMap]
  /\ pc \in [Vpcs -> {"idle", "create", "collect", "destroy", "unfinalize"}]
  /\ todo \in [Vpcs -> SUBSET Nis] /\ plan \in [Vpcs -> SUBSET Nis]
  /\ deleting \in [Vpcs -> BOOLEAN] /\ gone \in [Vpcs -> BOOLEAN]
  /\ inherited \subseteq Vpcs
  /\ env \in 0..MaxEnv /\ faults \in 0..MaxFaults

\* The index a worker collected, from a cache that lags, is still the one its
\* register holds when the worker uses it, although Get is not the call that
\* created the register and anything may happen in between.
IndexHeld ==
  \A c \in Vpcs, ni \in Nis :
    pc[c] = "collect" /\ niInfos[c][ni] # None => register[c][ni] = niInfos[c][ni]

\* Two vpcs never configure the same evi, vni and route targets on their devices,
\* through edits, deletions and creations under an old name, as long as neither
\* has found the device of a predecessor and not yet rewritten it.
Settled(c) == cr[c].phase # "absent" /\ c \notin inherited

IndexExclusive ==
  \A c, d \in Vpcs : \A ni, mi \in Nis :
    /\ Settled(c) /\ Settled(d)
    /\ device[c][ni] # None /\ device[c][ni] = device[d][mi]
    => c = d /\ ni = mi

\* What a vpc has configured is what its registers hold, for as long as the vpc exists:
\* a network instance that leaves the spec and comes back is found under its old
\* index, and nobody is given an index that some device still uses.
IndexKept ==
  \A c \in Vpcs, ni \in Nis :
    Settled(c) /\ device[c][ni] # None => register[c][ni] = device[c][ni]

\* Why both hold, given IndexHeld: a worker collects indexes of registers that its vpc
\* owns, and the finalizer keeps the vpc, so that nobody collects them; and the
\* registry gives no index away twice.
Collecting(c) ==
  /\ pc[c] \in {"create", "collect"} =>
       /\ cr[c].finalizer /\ todo[c] \subseteq plan[c]
       /\ pc[c] = "create" => plan[c] \ todo[c] \subseteq owned[c]
       /\ pc[c] = "collect" => plan[c] \subseteq owned[c]
  /\ \A ni \in Nis : niInfos[c][ni] # None =>
       pc[c] \in {"collect", "destroy"} /\ ni \in plan[c]

Keeps(c) ==
  \A ni \in Nis :
    Settled(c) /\ device[c][ni] # None => register[c][ni] = device[c][ni] /\ ni \in owned[c]

Distinct ==
  \A c, d \in Vpcs : \A ni, mi \in Nis :
    register[c][ni] \in Indexes /\ register[c][ni] = register[d][mi] => c = d /\ ni = mi

Finalized(c) == cr[c].finalizer => cr[c].phase # "absent"

IndexInv ==
  /\ \A c \in Vpcs : Finalized(c) /\ Collecting(c) /\ Keeps(c)
  /\ Distinct

\* Why IndexHeld holds although the cache lags. What the cache has got of a register,
\* followed by what it has not got yet, is the history of that register, and in it an
\* index is followed by nothing but the collection of its register: a second life
\* begins only when the cache shows none, and <<None, Pending, index, None>> and a
\* second creation are more changes than a cache is behind.
Change(c, ni, k) == IF k = 0 THEN seen[c][ni] ELSE news[c][ni][k]

OneLife(c, ni) ==
  /\ register[c][ni] = Change(c, ni, Len(news[c][ni]))
  /\ \A k \in 0..Len(news[c][ni]) : Change(c, ni, k) \in Indexes =>
       /\ \/ k = Len(news[c][ni])
          \/ k = Len(news[c][ni]) - 1 /\ register[c][ni] = None
       /\ k > 0 => Change(c, ni, k - 1) = Pending

\* Registers that a worker has applied exist until its reconcile is over.
Applied(c) ==
  \A ni \in plan[c] :
    pc[c] = "collect" \/ (pc[c] = "create" /\ ni \notin todo[c]) => register[c][ni] # None

HeldInv ==
  /\ \A c \in Vpcs, ni \in Nis : OneLife(c, ni)
  /\ \A c \in Vpcs : Applied(c)

\* A deletion creates and waits for the indexes of the network instances it is about
\* to remove. It ends, unless vpcs that exist come to hold all indexes of the registry.
Exhausted ==
  \A i \in Indexes : \E c \in Vpcs : \E ni \in owned[c] : register[c][ni] = i

DeletionEnds ==
  <>[]~Exhausted =>
    \A c \in Vpcs : cr[c].phase = "deleting" ~> cr[c].phase = "absent"
=============================================================================
