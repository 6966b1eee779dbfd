----------------------------- MODULE MCUpdates -----------------------------
(* Instances of MasterlistUpdates for TLC. *)
EXTENDS MasterlistUpdates

CONSTANTS g, h

\* One game's masterlist is revised.
GRevised == [f \in Files |-> IF f = g THEN 2 ELSE 1]
=============================================================================
