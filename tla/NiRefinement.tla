--------------------------- MODULE NiRefinement ---------------------------
(***************************************************************************)
(* NiRegister implements NiLease.  An index is granted once its register   *)
(* holds it and belongs to the vpc that exists now: what the cache shows,  *)
(* what a worker has collected and what a predecessor of the same name     *)
(* left in the registry or on the devices have no counterpart.             *)
(***************************************************************************)
EXTENDS NiRegister

existingVpcs == {c \in Vpcs : cr[c].phase # "absent"}

GrantedTo(c, ni) ==
  IF ni \in owned[c] /\ register[c][ni] \in Indexes THEN register[c][ni] ELSE None

grantedIndexes == [c \in Vpcs |-> [ni \in Nis |-> GrantedTo(c, ni)]]

ConfiguredFor(c) == IF Settled(c) THEN device[c] ELSE Nothing

configuredIndexes == [c \in Vpcs |-> ConfiguredFor(c)]

Lease == INSTANCE NiLease
           WITH existing <- existingVpcs, granted <- grantedIndexes,
                configured <- configuredIndexes

\* Every behaviour of the workers, the lagging cache, the ni registry, the garbage
\* collector and the users is one of the leases: a network instance that has got its
\* index keeps it for the life of its vpc, through edits that drop it and bring it
\* back, failed reconciles and restarts, and Update writes nothing else to a device.
ImplementsLease == Lease!Spec

\* Why an index is granted for the life of a vpc and no longer: its owner references
\* go with it (buildNiRegister), so that a vpc of the same name owns nothing at first.
OwnsNothingAbsent == \A c \in Vpcs : cr[c].phase = "absent" => owned[c] = {}
=============================================================================
