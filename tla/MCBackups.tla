----------------------------- MODULE MCBackups -----------------------------
(* Instances of LoadOrderBackups for TLC. *)
EXTENDS LoadOrderBackups, TLC

CONSTANTS x, y, z

SymmetricOrders == Permutations({x, y, z})
=============================================================================
