--------------------------- MODULE VpcRefinement ---------------------------
(***************************************************************************)
(* VpcController implements VpcIntent.  The plan of a vpc is what the      *)
(* worker that holds its key has read; the intents map, the queue, the     *)
(* timers, the watch and the registers have no counterpart.                *)
(***************************************************************************)
EXTENDS VpcController

CONSTANTS Idle, Unread

Plans == [spec : SUBSET Nis, deleting : BOOLEAN, nodes : (SUBSET Nodes) \cup {Unread}]

ASSUME PlanAssumption == Idle \notin Plans /\ \A S \in SUBSET Nodes : S # Unread

\* Between GetManaged and the end of Update, Delete or FinalDelete.
Planning(w) ==
  pc[w] \notin {"idle", "get", "final", "timeout", "increment", "done"}

HasSurveyed(w) == pc[w] \in {"populate", "remove", "deploy", "destroy", "unfinalize"}

PlanOf(w) ==
  [spec |-> mg[w].spec, deleting |-> mg[w].deleting,
   nodes |-> IF HasSurveyed(w) THEN nodeInfo[w] ELSE Unread]

currentPlan ==
  [c \in Vpcs |->
     LET holders == {w \in Workers : key[w] = c /\ Planning(w)}
     IN  IF holders = {} THEN Idle ELSE PlanOf(CHOOSE w \in holders : TRUE)]

Intent == INSTANCE VpcIntent
            WITH Desired <- Desired, cr <- cr, topo <- topo, device <- device,
                 plan <- currentPlan, env <- env

\* Every behaviour of the controller, with its shared maps, races of the watch,
\* failed calls and restarts, is one of the abstract controller: no device ever
\* gets a half-built intent, a mix of two specs or of two topologies, or the
\* intent of a vpc that is gone.
ImplementsIntent == Intent!Spec

\* Why it does: every loop over nodes stays within the plan (the intents map holds
\* the plan by IntentInv), only Delete destroys and only Update writes, and the
\* finalizer keeps the resource until its own worker removes it (KeptInv).
Planned(w) == Desired(mg[w].spec, nodeInfo[w])

FollowsPlan(w) ==
  /\ pc[w] \in {"destroy", "unfinalize"} => mg[w].deleting
  /\ pc[w] \in {"remove", "deploy"} => ~mg[w].deleting
  /\ pc[w] = "remove" => \A n \in todo[w] : Planned(w)[n] = {}
  /\ pc[w] \in {"deploy", "destroy"} => \A n \in todo[w] : Planned(w)[n] # {}

PlanInv == \A w \in Workers : FollowsPlan(w)
=============================================================================
