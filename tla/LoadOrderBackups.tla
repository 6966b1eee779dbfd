-------------------------- MODULE LoadOrderBackups --------------------------
(***************************************************************************)
(* The load order backups of one game: the files that LOOT writes before it *)
(* sets a load order and when the user asks for a backup, the pruning of    *)
(* automatic backups, and restoring and deleting backups                    *)
(* (src/src/gui/state/game/helpers.cpp, Game::setLoadOrder).                *)
(*                                                                         *)
(* Backups are named by the time of their creation, of which only the order *)
(* matters: the clock is taken not to go backwards, and counts backups.     *)
(***************************************************************************)
EXTENDS Integers, FiniteSets

CONSTANTS
  Orders,     \* load orders
  Unreadable, \* what a backup file holds that was not written to its end
  MaxBackups, \* MAX_BACKUPS: how many automatic backups are kept
  Legacy,     \* how many backups of an older version of LOOT there may be
  MaxTime     \* bound: how many backups are made

ASSUME UnreadableAssumption == Unreadable \notin Orders
ASSUME MaxBackupsAssumption == MaxBackups \in Nat \ {0}
ASSUME LegacyAssumption == Legacy \in Nat
ASSUME MaxTimeAssumption == MaxTime \in Nat

VARIABLES
  backups,   \* the files: their times, and what they hold
  time,      \* when the newest one was made
  disk,      \* the load order that the game uses
  loadOrder, \* the load order that LOOT has read
  op         \* what LOOT is doing

vars == <<backups, time, disk, loadOrder, op>>

\* loadorder.bak.2, 1 and 0 of older versions are pruned before all others.
Times == (-Legacy) .. MaxTime
Backup == [automatic : BOOLEAN, order : Orders \cup {Unreadable}]

Steps == {"write", "prune", "set"}
NoOp == [step |-> "idle"]
Idle == op = NoOp

Automatic ==
  {t \in DOMAIN backups : backups[t].automatic /\ backups[t].order # Unreadable}

\* findLoadOrderBackups, what the restore dialog lists.
Listed == {t \in DOMAIN backups : t > 0 /\ backups[t].order # Unreadable}

With(t, b) == [s \in DOMAIN backups \cup {t} |-> IF s = t THEN b ELSE backups[s]]
Without(t) == [s \in DOMAIN backups \ {t} |-> backups[s]]

Init ==
  /\ \E n \in 0 .. Legacy, o \in Orders :
       backups = [t \in (-n) .. -1 |-> [automatic |-> TRUE, order |-> o]]
  /\ time = 0
  /\ disk \in Orders
  /\ loadOrder = disk
  /\ op = NoOp

-----------------------------------------------------------------------------
(* createBackup makes the file, writes it, and does not notice a failure to *)
(* write it; removeOldBackups then removes the oldest automatic backups one *)
(* by one.  LOOT may be killed between any two of these steps.              *)

\* An automatic backup is made to set a load order, any other for itself.
BackUp(automatic, target) ==
  /\ Idle
  /\ time < MaxTime
  /\ time' = time + 1
  /\ backups' = With(time', [automatic |-> automatic, order |-> Unreadable])
  /\ op' = [step |-> "write", sets |-> automatic, target |-> target]
  /\ UNCHANGED <<disk, loadOrder>>

Write ==
  /\ op.step = "write"
  /\ \/ backups' = [backups EXCEPT ![time].order = loadOrder]
     \/ UNCHANGED backups
  /\ op' = [op EXCEPT !.step = "prune"]
  /\ UNCHANGED <<time, disk, loadOrder>>

Pruned == op' = IF op.sets THEN [op EXCEPT !.step = "set"] ELSE NoOp

Oldest(t) == t \in Automatic /\ \A s \in Automatic : t <= s

Prune_Newest ==
  /\ op.step = "prune"
  /\ Cardinality(Automatic) > MaxBackups
  /\ \E t \in Automatic : (\A s \in Automatic : s <= t) /\ backups' = Without(t)
  /\ UNCHANGED <<time, disk, loadOrder, op>>
Prune_AllBackups ==
  /\ op.step = "prune"
  /\ Cardinality(Listed) > MaxBackups
  /\ \E t \in Listed : (\A s \in Listed : t <= s) /\ backups' = Without(t)
  /\ UNCHANGED <<time, disk, loadOrder, op>>
Prune ==
  /\ op.step = "prune"
  /\ Cardinality(Automatic) > MaxBackups
  /\ \E t \in DOMAIN backups : Oldest(t) /\ backups' = Without(t)
  /\ UNCHANGED <<time, disk, loadOrder, op>>

EndPruning_KeepsOneMore ==
  /\ op.step = "prune"
  /\ Cardinality(Automatic) <= MaxBackups + 1
  /\ Pruned
  /\ UNCHANGED <<backups, time, disk, loadOrder>>
EndPruning ==
  /\ op.step = "prune"
  /\ Cardinality(Automatic) <= MaxBackups
  /\ Pruned
  /\ UNCHANGED <<backups, time, disk, loadOrder>>

\* SetLoadOrder, at the end of Game::setLoadOrder.
SetLoadOrder ==
  /\ op.step = "set"
  /\ disk' = op.target
  /\ loadOrder' = op.target
  /\ op' = NoOp
  /\ UNCHANGED <<backups, time>>

\* Removing a backup or setting the load order throws.
Fail ==
  /\ op.step \in {"prune", "set"}
  /\ op.step = "prune" => Cardinality(Automatic) > MaxBackups
  /\ op' = NoOp
  /\ UNCHANGED <<backups, time, disk, loadOrder>>

-----------------------------------------------------------------------------
(* What the user does, here and elsewhere.                                 *)

\* Apply a sorted load order.
ApplySort(o) == o # loadOrder /\ BackUp(TRUE, o)

\* Set the load order that is displayed.
FixAmbiguous == BackUp(TRUE, loadOrder)

\* Restore a backup.
Restore_Unchecked(t) == BackUp(TRUE, backups[t].order)
Restore(t) == t \in Listed /\ BackUp(TRUE, backups[t].order)

\* Back up the load order.
BackUpCurrentLoadOrder == BackUp(FALSE, loadOrder)

DeleteBackup(t) ==
  /\ Idle
  /\ t \in Listed
  /\ backups' = Without(t)
  /\ UNCHANGED <<time, disk, loadOrder, op>>

\* Another program sets the load order.
ChangeElsewhere(o) ==
  /\ disk' = o
  /\ UNCHANGED <<backups, time, loadOrder, op>>

\* Refreshing content or sorting reads the load order.
ReadLoadOrder ==
  /\ Idle
  /\ loadOrder' = disk
  /\ UNCHANGED <<backups, time, disk, op>>

\* LOOT is closed or killed, and is started again.
Restart ==
  /\ op' = NoOp
  /\ loadOrder' = disk
  /\ UNCHANGED <<backups, time, disk>>

Next ==
  \/ \E o \in Orders : ApplySort(o)
  \/ FixAmbiguous
  \/ \E t \in DOMAIN backups : Restore(t)
  \/ BackUpCurrentLoadOrder
  \/ Write
  \/ Prune
  \/ EndPruning
  \/ SetLoadOrder
  \/ Fail
  \/ \E t \in DOMAIN backups : DeleteBackup(t)
  \/ \E o \in Orders : ChangeElsewhere(o)
  \/ ReadLoadOrder
  \/ Restart

Spec == Init /\ [][Next]_vars

-----------------------------------------------------------------------------
(* Properties.                                                             *)

Op == [step : Steps, sets : BOOLEAN, target : Orders]

TypeOK ==
  /\ DOMAIN backups \subseteq Times
  /\ backups \in [DOMAIN backups -> Backup]
  /\ time \in 0 .. MaxTime
  /\ disk \in Orders
  /\ loadOrder \in Orders
  /\ op \in Op \cup {NoOp}

\* Whenever LOOT is about to set a load order, a backup of the load order that
\* it displays and replaces is there, unless writing that very backup failed:
\* pruning and a crash of an earlier attempt never take it ("LOOT automatically
\* backs up the current load order before applying a sorted load order, fixing
\* an ambiguous load order or restoring a load order backup", main.rst:58).
BackedUpBeforeSet ==
  op.step = "set" =>
    /\ time \in DOMAIN backups
    /\ backups[time].automatic
    /\ backups[time].order \in {loadOrder, Unreadable}

\* A backup that disappears was deleted by the user or was an automatic one
\* with at least MaxBackups more recent ones ("Only the ten most recent
\* automatic backups are retained. LOOT never automatically deletes manual
\* backups.", main.rst:58), crashes in the middle of pruning included.
OnlyOldestRemoved ==
  [][\A t \in DOMAIN backups \ DOMAIN backups' :
       \/ Idle
       \/ /\ backups[t].automatic
          /\ Cardinality({s \in Automatic : s > t}) >= MaxBackups]_vars

\* However many attempts were cut short, no more automatic backups than are to
\* be kept are there when the load order is set.
NoMoreThanMax == op.step = "set" => Cardinality(Automatic) <= MaxBackups
=============================================================================
