----------------------------- MODULE VpcIntent -----------------------------
(***************************************************************************)
(* What the Vpc controller promises, without maps, queues, timers, workers *)
(* or events.  For every vpc it follows at most one plan at a time: the    *)
(* spec read when the reconcile began and the nodes read once while it     *)
(* ran.  All it writes to the devices of that vpc is that plan, complete   *)
(* per device; an Update removes only what its plan does not contain, a    *)
(* Delete only what it contains; nothing is written for a vpc that is gone.*)
(***************************************************************************)
EXTENDS Integers

CONSTANTS
  Vpcs, Nis, Nodes,
  Desired(_, _),    \* the nis per node that a spec asks for, given the nodes
  Idle,             \* no plan
  Unread            \* the nodes of a plan that has not read the topology

VARIABLES
  cr,               \* phase, finalizer and spec of every vpc
  topo,             \* the nodes of the topology
  device,           \* device[c][n]: nis configured for c on n; {} if no resource
  plan,             \* plan[c]: what the reconcile of c is acting on
  env               \* changes made by others: users, topology, writers of devices

vars == <<cr, topo, device, plan, env>>

NoChildren == [n \in Nodes |-> {}]
AbsentCr == [phase |-> "absent", finalizer |-> FALSE, spec |-> {}]
Content(p) == Desired(p.spec, p.nodes)
Surveyed(c) == plan[c] # Idle /\ plan[c].nodes # Unread

-----------------------------------------------------------------------------
(* The controller                                                           *)

Begin(c) ==
  /\ plan[c] = Idle /\ cr[c].phase # "absent"
  /\ plan' = [plan EXCEPT ![c] = [spec |-> cr[c].spec, nodes |-> Unread,
                                  deleting |-> cr[c].phase = "deleting"]]
  /\ cr' = [cr EXCEPT ![c].finalizer = TRUE]
  /\ UNCHANGED <<topo, device, env>>

Survey(c) ==
  /\ plan[c] # Idle /\ plan[c].nodes = Unread
  /\ plan' = [plan EXCEPT ![c].nodes = topo]
  /\ UNCHANGED <<cr, topo, device, env>>

Write(c, n) ==
  /\ Surveyed(c) /\ ~plan[c].deleting
  /\ cr[c].phase # "absent"
  /\ Content(plan[c])[n] # {}
  /\ device' = [device EXCEPT ![c][n] = Content(plan[c])[n]]
  /\ UNCHANGED <<cr, topo, plan, env>>

Remove(c, n) ==
  /\ Surveyed(c)
  /\ plan[c].deleting <=> Content(plan[c])[n] # {}
  /\ device' = [device EXCEPT ![c][n] = {}]
  /\ UNCHANGED <<cr, topo, plan, env>>

\* The finalizer goes with the end of the plan, or before the devices do.
Finish(c) ==
  /\ Surveyed(c) /\ plan[c].deleting
  /\ cr' = [cr EXCEPT ![c] = AbsentCr]
  /\ \/ UNCHANGED plan
     \/ plan' = [plan EXCEPT ![c] = Idle]
  /\ UNCHANGED <<topo, device, env>>

\* The end of the reconcile, with or without an error.
End(c) ==
  /\ plan' = [plan EXCEPT ![c] = Idle]
  /\ UNCHANGED <<cr, topo, device, env>>

Crash ==
  /\ plan' = [c \in Vpcs |-> Idle]
  /\ UNCHANGED <<cr, topo, device, env>>

-----------------------------------------------------------------------------
(* The environment                                                          *)

Others == env' = env + 1

UserSave(c, value) ==
  /\ Others
  /\ cr' = [cr EXCEPT ![c] = value]
  /\ UNCHANGED <<topo, device, plan>>

User(c) ==
  \/ \E s \in SUBSET Nis :
       IF cr[c].phase = "absent"
       THEN UserSave(c, [phase |-> "live", finalizer |-> FALSE, spec |-> s])
       ELSE UserSave(c, [cr[c] EXCEPT !.spec = s])
  \/ /\ cr[c].phase = "live"
     /\ UserSave(c, IF cr[c].finalizer THEN [cr[c] EXCEPT !.phase = "deleting"]
                    ELSE AbsentCr)

ChangeTopology ==
  /\ Others
  /\ topo' \in SUBSET Nodes
  /\ UNCHANGED <<cr, device, plan>>

Lose(c, n) ==
  /\ Others
  /\ device' = [device EXCEPT ![c][n] = {}]
  /\ UNCHANGED <<cr, topo, plan>>

-----------------------------------------------------------------------------
StoredCr ==
  [phase : {"absent", "live", "deleting"}, finalizer : BOOLEAN, spec : SUBSET Nis]

Init ==
  /\ cr \in [Vpcs -> StoredCr]
  /\ topo \in SUBSET Nodes
  /\ device = [c \in Vpcs |-> NoChildren]
  /\ plan = [c \in Vpcs |-> Idle]
  /\ env = 0

Next ==
  \/ \E c \in Vpcs : Begin(c) \/ Survey(c) \/ Finish(c) \/ End(c) \/ User(c)
  \/ \E c \in Vpcs, n \in Nodes : Write(c, n) \/ Remove(c, n) \/ Lose(c, n)
  \/ Crash \/ ChangeTopology

Spec == Init /\ [][Next]_vars
=============================================================================
