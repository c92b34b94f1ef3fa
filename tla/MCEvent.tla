------------------------------ MODULE MCEvent ------------------------------
(* Event with the number of notify calls bounded for TLC. *)
EXTENDS Event

CONSTANT MaxEvents \* events accepted in a behaviour

ASSUME MaxEventsAssumption == MaxEvents \in Nat

MCNext == Next /\ Len(accepted') <= MaxEvents

MCSpec == Init /\ [][MCNext]_vars /\ Fairness
=============================================================================
