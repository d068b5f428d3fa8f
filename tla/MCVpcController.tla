-------------------------- MODULE MCVpcController --------------------------
(***************************************************************************)
(* Instances of VpcController for TLC: two network instances, a bridge     *)
(* domain and a routing table, on at most two nodes.                       *)
(***************************************************************************)
EXTENDS VpcController, TLC

CONSTANTS c1, c2, bd1, rt1, n1, n2

\* bd1 has interfaces on n1 only, rt1 on both nodes: a change of the spec moves
\* a device between "no resource", one and two network instances.
MCSelects == [ni \in Nis |-> IF ni = bd1 THEN {n1} \cap Nodes ELSE Nodes]

\* Vpcs and workers are interchangeable: no definition tells one from another.
MCSymmetry == Permutations(Vpcs) \cup Permutations(Workers)

\* A process that starts with every vpc in the store, some of them waiting to be
\* deleted (a restart leaves this state): what is left to explore is how the
\* workers, the watch and the registry interleave.
MCBusyInit ==
  /\ Init
  /\ cr \in [Vpcs -> {[phase |-> p, finalizer |-> TRUE, spec |-> Nis] :
                      p \in {"live", "deleting"}}]
  /\ topo = Nodes

MCBusySpec == MCBusyInit /\ [][Next]_vars
=============================================================================
