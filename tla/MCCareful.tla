------------------------------ MODULE MCCareful ------------------------------
(* The careful user's instance of MainWindow, which meets the hypothesis of *)
(* the theorems about that user.                                            *)
EXTENDS MCMainWindow

ASSUME CarefulAssumption == CarefulUser
=============================================================================
