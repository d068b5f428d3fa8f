------------------------------ MODULE NiLease ------------------------------
(***************************************************************************)
(* What the registers of network instances promise a vpc, without caches,  *)
(* workers, calls or a garbage collector: an index that is granted to one  *)
(* of its network instances is granted to no other, neither changes nor is *)
(* lost while the vpc exists, and is all that its devices are ever         *)
(* configured with.                                                        *)
(***************************************************************************)
CONSTANTS Vpcs, Nis, Indexes, None

VARIABLES
  existing,         \* the vpcs that exist
  granted,          \* granted[c][ni]: the index of ni, None if it has none
  configured        \* configured[c][ni]: the index on the devices, None if there is none

vars == <<existing, granted, configured>>

Nothing == [ni \in Nis |-> None]

Begin(c) ==
  /\ c \notin existing
  /\ existing' = existing \cup {c}
  /\ UNCHANGED <<granted, configured>>

Grant(c, ni, i) ==
  /\ c \in existing /\ granted[c][ni] = None
  /\ \A d \in Vpcs, mi \in Nis : granted[d][mi] # i
  /\ granted' = [granted EXCEPT ![c][ni] = i]
  /\ UNCHANGED <<existing, configured>>

\* The devices get some of the network instances, under their indexes.
Configure(c, S) ==
  /\ c \in existing /\ \A ni \in S : granted[c][ni] # None
  /\ configured' =
       [configured EXCEPT ![c] = [ni \in Nis |-> IF ni \in S THEN granted[c][ni] ELSE None]]
  /\ UNCHANGED <<existing, granted>>

\* The devices are emptied before the vpc goes; its indexes are still its own.
Withdraw(c) ==
  /\ configured' = [configured EXCEPT ![c] = Nothing]
  /\ UNCHANGED <<existing, granted>>

End(c) ==
  /\ c \in existing
  /\ existing' = existing \ {c}
  /\ granted' = [granted EXCEPT ![c] = Nothing]
  /\ configured' = [configured EXCEPT ![c] = Nothing]

Init ==
  /\ existing = {}
  /\ granted = [c \in Vpcs |-> Nothing]
  /\ configured = [c \in Vpcs |-> Nothing]

Next ==
  \E c \in Vpcs :
    \/ Begin(c) \/ Withdraw(c) \/ End(c)
    \/ \E ni \in Nis, i \in Indexes : Grant(c, ni, i)
    \/ \E S \in SUBSET Nis : Configure(c, S)

Spec == Init /\ [][Next]_vars
=============================================================================
