---------------------------- MODULE SortSession ----------------------------
(***************************************************************************)
(* What LOOT promises about a calculated load order, apart from its        *)
(* windows, threads and menus (docs/app/usage/main.rst, "Toolbar"): sorting *)
(* proposes an order for the current game; until the proposal is applied or *)
(* discarded nothing else touches it, the game's own load order, or which   *)
(* game is current; applying sets exactly the proposed order.               *)
(***************************************************************************)
CONSTANTS
  Games,      \* the installed games
  Orders,     \* the load orders a game can have
  None        \* "no proposal"

VARIABLES
  active,     \* the current game
  order,      \* order[g]: the load order LOOT last read or set for g
  pending     \* the sorted load order awaiting the user's decision, or None

vars == <<active, order, pending>>

Proposal == [game : Games, order : Orders]

Init ==
  /\ active \in Games
  /\ order \in [Games -> Orders]
  /\ pending = None

\* The load order of a game is read again; other programs may have changed it.
Reload(g) ==
  /\ pending = None
  /\ \E o \in Orders : order' = [order EXCEPT ![g] = o]
  /\ UNCHANGED <<active, pending>>

\* Sorting the current game calculates an order that differs from its own.
Propose ==
  /\ pending = None
  /\ \E o \in Orders \ {order[active]} :
       pending' = [game |-> active, order |-> o]
  /\ UNCHANGED <<active, order>>

Apply ==
  /\ pending # None
  /\ order' = [order EXCEPT ![pending.game] = pending.order]
  /\ pending' = None
  /\ UNCHANGED active

Discard ==
  /\ pending # None
  /\ pending' = None
  /\ UNCHANGED <<active, order>>

\* Changing games is disabled until the proposal is applied or discarded.
ChangeGame ==
  /\ pending = None
  /\ active' \in Games \ {active}
  /\ UNCHANGED <<order, pending>>

Next ==
  \/ \E g \in Games : Reload(g)
  \/ Propose
  \/ Apply
  \/ Discard
  \/ ChangeGame

Spec == Init /\ [][Next]_vars
=============================================================================
