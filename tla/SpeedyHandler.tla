--------------------------- MODULE SpeedyHandler ---------------------------
(***************************************************************************)
(* internal/speedyhandler: the retry stage of every Vpc resource.          *)
(*                                                                         *)
(* The handler is a map from crName to a counter, shared by the reconcile  *)
(* workers (Init, GetSpeedy, IncrementSpeedy, Delete) and by the device    *)
(* watch (ResetSpeedy).  Every method runs under speedyMutex, so each is   *)
(* one atomic step; a caller that combines two of them is not.             *)
(***************************************************************************)
EXTENDS Integers

CONSTANT Vpcs       \* the Vpc custom resources, each standing for its crName

VARIABLE speedy     \* speedy[c]: the counter of c, NoEntry if the map has no key c

NoEntry == -1

SpeedyInit == speedy = [c \in Vpcs |-> NoEntry]

\* Init: the key is added at stage 0 and an existing counter is kept.
InitSpeedy(c) ==
  speedy' = [speedy EXCEPT ![c] = IF @ = NoEntry THEN 0 ELSE @]

DeleteSpeedy(c) == speedy' = [speedy EXCEPT ![c] = NoEntry]

\* Mutant of ResetSpeedy: the key is written whether or not it exists.
ResetSpeedyAlways(c) == speedy' = [speedy EXCEPT ![c] = 0]

\* A reset never brings a deleted key back.
ResetSpeedy(c) ==
  speedy' = [speedy EXCEPT ![c] = IF @ = NoEntry THEN NoEntry ELSE 0]

GetSpeedy(c) == IF speedy[c] = NoEntry THEN 9999 ELSE speedy[c]

IncrementSpeedy(c) ==
  speedy' = [speedy EXCEPT ![c] = IF @ = NoEntry THEN NoEntry ELSE @ + 1]
=============================================================================
