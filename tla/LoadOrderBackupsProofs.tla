----------------------- MODULE LoadOrderBackupsProofs -----------------------
(***************************************************************************)
(* Theorems about LoadOrderBackups for every set of load orders, every      *)
(* number of backups kept and any number of backups made.                   *)
(***************************************************************************)
EXTENDS LoadOrderBackups, FiniteSetTheorems, TLAPS

-----------------------------------------------------------------------------
(* The automatic backups.                                                  *)

LEMMA AutomaticFinite ==
  ASSUME TypeOK
  PROVE  IsFiniteSet(Automatic)
<1>1. IsFiniteSet(Times)
  BY FS_Interval, LegacyAssumption, MaxTimeAssumption DEF Times
<1>2. Automatic \subseteq Times
  BY DEF TypeOK, Automatic
<1> QED BY <1>1, <1>2, FS_Subset

\* All automatic backups but the oldest are more recent than it.
LEMMA MoreRecentThanOldest ==
  ASSUME TypeOK, NEW t, Oldest(t)
  PROVE  Cardinality({s \in Automatic : s > t}) = Cardinality(Automatic) - 1
<1>1. Automatic \subseteq Int
  BY LegacyAssumption, MaxTimeAssumption DEF TypeOK, Automatic, Times
<1>2. t \in Automatic /\ \A s \in Automatic : t <= s
  BY DEF Oldest
<1>3. \A s \in Automatic : s > t <=> s # t
  BY <1>1, <1>2
<1>4. {s \in Automatic : s > t} = Automatic \ {t}
  BY <1>3
<1> QED BY <1>2, <1>4, AutomaticFinite, FS_RemoveElement

\* A backup that no other is more recent than is not removed by pruning.
LEMMA NewestNotPruned ==
  ASSUME TypeOK, NEW t, Oldest(t), Cardinality(Automatic) > MaxBackups
  PROVE  \E s \in Automatic : s > t
<1> SUFFICES ASSUME {s \in Automatic : s > t} = {} PROVE FALSE
  OBVIOUS
<1>1. Cardinality(Automatic) - 1 = 0
  BY MoreRecentThanOldest, FS_EmptySet
<1>2. Cardinality(Automatic) \in Nat
  BY AutomaticFinite, FS_CardinalityType
<1> QED BY <1>1, <1>2, MaxBackupsAssumption

-----------------------------------------------------------------------------
(* Type correctness.                                                       *)

LEMMA OpFacts ==
  /\ NoOp \notin Op
  /\ NoOp.step = "idle"
  /\ \A o \in Op : o.step \in Steps
BY DEF Op, NoOp, Steps

\* An operation under way is a record of an operation.
LEMMA Busy ==
  ASSUME TypeOK, op.step \in Steps
  PROVE  op \in Op
BY DEF TypeOK, NoOp, Steps

LEMMA RestoredOrder ==
  ASSUME TypeOK, NEW t \in Listed
  PROVE  backups[t].order \in Orders
BY DEF TypeOK, Listed, Backup

LEMMA WithoutType ==
  ASSUME TypeOK, NEW t, backups' = Without(t)
  PROVE  /\ DOMAIN backups' = DOMAIN backups \ {t}
         /\ DOMAIN backups' \subseteq Times
         /\ backups' \in [DOMAIN backups' -> Backup]
         /\ \A s \in DOMAIN backups' : backups'[s] = backups[s]
BY DEF TypeOK, Without

LEMMA BackUpType ==
  ASSUME TypeOK, NEW automatic \in BOOLEAN, NEW target \in Orders,
         BackUp(automatic, target)
  PROVE  TypeOK'
<1>1. time' \in 1 .. MaxTime /\ time' \in Times
  BY LegacyAssumption, MaxTimeAssumption DEF TypeOK, BackUp, Times
<1>2. DOMAIN backups' = DOMAIN backups \cup {time'}
  BY DEF BackUp, With
<1>3. \A s \in DOMAIN backups' : backups'[s] \in Backup
  BY DEF BackUp, With, TypeOK, Backup
<1>4. backups' \in [DOMAIN backups' -> Backup]
  <2>1. backups' = [s \in DOMAIN backups' |-> backups'[s]]
    BY DEF BackUp, With
  <2> QED BY <2>1, <1>3
<1>5. op' \in Op
  BY DEF BackUp, Op, Steps
<1> QED
  BY <1>1, <1>2, <1>4, <1>5, MaxTimeAssumption DEF TypeOK, BackUp

LEMMA PrunedType ==
  ASSUME TypeOK, op.step = "prune", Pruned
  PROVE  op' \in Op \cup {NoOp}
<1>1. op \in Op
  BY Busy DEF Steps
<1> QED BY <1>1 DEF Pruned, Op, Steps

LEMMA TypeStep ==
  ASSUME TypeOK, [Next]_vars
  PROVE  TypeOK'
<1>1. ASSUME NEW o \in Orders, ApplySort(o) PROVE TypeOK'
  BY <1>1, BackUpType DEF ApplySort
<1>2. CASE FixAmbiguous
  BY <1>2, BackUpType DEF FixAmbiguous, TypeOK
<1>3. ASSUME NEW t \in DOMAIN backups, Restore(t) PROVE TypeOK'
  BY <1>3, BackUpType, RestoredOrder DEF Restore
<1>4. CASE BackUpCurrentLoadOrder
  BY <1>4, BackUpType DEF BackUpCurrentLoadOrder, TypeOK
<1>5. CASE Write
  <2>1. op \in Op
    BY <1>5, Busy DEF Write, Steps
  <2>2. op' \in Op
    BY <1>5, <2>1 DEF Write, Op, Steps
  <2>3. /\ DOMAIN backups' = DOMAIN backups
        /\ backups' \in [DOMAIN backups -> Backup]
    BY <1>5 DEF Write, TypeOK, Backup
  <2> QED BY <1>5, <2>2, <2>3 DEF Write, TypeOK
<1>6. CASE Prune
  BY <1>6, WithoutType DEF Prune, TypeOK
<1>7. CASE EndPruning
  BY <1>7, PrunedType DEF EndPruning, TypeOK
<1>8. CASE SetLoadOrder
  <2>1. op.target \in Orders
    BY <1>8, Busy DEF SetLoadOrder, Steps, Op
  <2> QED BY <1>8, <2>1 DEF SetLoadOrder, TypeOK
<1>9. CASE Fail
  BY <1>9 DEF Fail, TypeOK
<1>10. ASSUME NEW t \in DOMAIN backups, DeleteBackup(t) PROVE TypeOK'
  BY <1>10, WithoutType DEF DeleteBackup, TypeOK
<1>11. ASSUME NEW o \in Orders, ChangeElsewhere(o) PROVE TypeOK'
  BY <1>11 DEF ChangeElsewhere, TypeOK
<1>12. CASE ReadLoadOrder
  BY <1>12 DEF ReadLoadOrder, TypeOK
<1>13. CASE Restart
  BY <1>13 DEF Restart, TypeOK
<1>14. CASE UNCHANGED vars
  BY <1>14 DEF vars, TypeOK
<1> QED
  BY <1>1, <1>2, <1>3, <1>4, <1>5, <1>6, <1>7, <1>8, <1>9, <1>10, <1>11,
     <1>12, <1>13, <1>14 DEF Next

LEMMA TypeInit == Init => TypeOK
<1> SUFFICES ASSUME Init PROVE TypeOK
  OBVIOUS
<1>1. PICK n \in 0 .. Legacy, o \in Orders :
        backups = [t \in (-n) .. -1 |-> [automatic |-> TRUE, order |-> o]]
  BY DEF Init
<1>2. (-n) .. -1 \subseteq Times
  BY LegacyAssumption, MaxTimeAssumption DEF Times
<1>3. backups \in [DOMAIN backups -> Backup]
  BY <1>1 DEF Backup
<1>4. DOMAIN backups \subseteq Times
  BY <1>1, <1>2
<1>5. time \in 0 .. MaxTime
  BY MaxTimeAssumption DEF Init
<1>6. disk \in Orders /\ loadOrder \in Orders /\ op = NoOp
  BY DEF Init
<1> QED BY <1>3, <1>4, <1>5, <1>6 DEF TypeOK

\* The backups, the clock and what LOOT is doing keep their types, whatever is
\* made, pruned, restored and deleted (helpers.cpp, Game::setLoadOrder).
THEOREM TypeCorrect == Spec => []TypeOK
BY TypeInit, TypeStep, PTL DEF Spec

-----------------------------------------------------------------------------
(* What is being replaced is backed up.  BackedUpBeforeSet is not inductive: *)
(* the backup has to be followed from its making through writing and        *)
(* pruning, which spares it because no backup is later than it.             *)

NoneLater == \A t \in DOMAIN backups : t <= time

\* Holds from the start of every attempt to set a load order to its end.
Saved ==
  /\ time \in DOMAIN backups
  /\ backups[time].automatic
  /\ backups[time].order \in {loadOrder, Unreadable}

Inv ==
  /\ TypeOK
  /\ NoneLater
  /\ op.step \in Steps /\ op.sets => Saved
  /\ op.step = "set" => op.sets

LEMMA BackUpInv ==
  ASSUME Inv, TypeOK', NEW automatic \in BOOLEAN, NEW target,
         BackUp(automatic, target)
  PROVE  Inv'
<1>1. time' = time + 1 /\ time \in Int /\ DOMAIN backups \subseteq Int
  BY LegacyAssumption, MaxTimeAssumption DEF Inv, TypeOK, BackUp, Times
<1>2. DOMAIN backups' = DOMAIN backups \cup {time'}
  BY DEF BackUp, With
<1>3. NoneLater'
  BY <1>1, <1>2 DEF Inv, NoneLater
<1>4. backups'[time'] = [automatic |-> automatic, order |-> Unreadable]
  BY <1>2 DEF BackUp, With
<1>5. op'.sets = automatic /\ op'.step = "write"
  BY DEF BackUp
<1> QED BY <1>2, <1>3, <1>4, <1>5 DEF Inv, Saved

LEMMA InvStep ==
  ASSUME Inv, [Next]_vars
  PROVE  Inv'
<1> USE DEF Inv
<1>0. TypeOK'
  BY TypeStep
<1>1. ASSUME NEW o \in Orders, ApplySort(o) PROVE Inv'
  BY <1>0, <1>1, BackUpInv DEF ApplySort
<1>2. CASE FixAmbiguous
  BY <1>0, <1>2, BackUpInv DEF FixAmbiguous
<1>3. ASSUME NEW t \in DOMAIN backups, Restore(t) PROVE Inv'
  BY <1>0, <1>3, BackUpInv DEF Restore
<1>4. CASE BackUpCurrentLoadOrder
  BY <1>0, <1>4, BackUpInv DEF BackUpCurrentLoadOrder
<1>5. CASE Write
  <2>1. op \in Op
    BY <1>5, Busy DEF Write, Steps
  <2>2. op'.sets = op.sets /\ op'.step = "prune" /\ op.step \in Steps
    BY <1>5, <2>1 DEF Write, Op, Steps
  <2>3. DOMAIN backups' = DOMAIN backups
    BY <1>5 DEF Write, TypeOK
  <2>4. ASSUME Saved PROVE Saved'
    BY <1>5, <2>3, <2>4 DEF Write, Saved, TypeOK, Backup
  <2> QED BY <1>0, <1>5, <2>2, <2>3, <2>4 DEF Write, NoneLater
<1>6. CASE Prune
  <2>1. PICK t \in DOMAIN backups : Oldest(t) /\ backups' = Without(t)
    BY <1>6 DEF Prune
  <2>2. t # time
    <3>1. PICK s \in Automatic : s > t
      BY <1>6, <2>1, NewestNotPruned DEF Prune
    <3>2. s \in DOMAIN backups
      BY <3>1 DEF Automatic
    <3>3. s <= time /\ s \in Int /\ time \in Int
      BY <3>2, LegacyAssumption, MaxTimeAssumption
      DEF NoneLater, TypeOK, Times
    <3> QED BY <3>1, <3>3
  <2>3. ASSUME Saved PROVE Saved'
    BY <1>6, <2>1, <2>2, <2>3, WithoutType DEF Saved, Prune
  <2>4. NoneLater'
    BY <1>6, <2>1, WithoutType DEF NoneLater, Prune
  <2> QED BY <1>0, <1>6, <2>3, <2>4 DEF Prune
<1>7. CASE EndPruning
  <2>1. op \in Op
    BY <1>7, Busy DEF EndPruning, Steps
  <2>2. \/ op.sets /\ op'.step = "set" /\ op'.sets = op.sets
        \/ op' = NoOp
    BY <1>7, <2>1 DEF EndPruning, Pruned, Op
  <2> QED
    BY <1>0, <1>7, <2>2, OpFacts DEF EndPruning, Saved, NoneLater, Steps
<1>8. CASE SetLoadOrder
  BY <1>0, <1>8, OpFacts DEF SetLoadOrder, NoneLater, Steps
<1>9. CASE Fail
  BY <1>0, <1>9, OpFacts DEF Fail, NoneLater, Steps
<1>10. ASSUME NEW t \in DOMAIN backups, DeleteBackup(t) PROVE Inv'
  BY <1>0, <1>10, OpFacts, WithoutType
  DEF DeleteBackup, Idle, NoneLater, Steps
<1>11. ASSUME NEW o \in Orders, ChangeElsewhere(o) PROVE Inv'
  BY <1>0, <1>11 DEF ChangeElsewhere, NoneLater, Saved
<1>12. CASE ReadLoadOrder
  BY <1>0, <1>12, OpFacts DEF ReadLoadOrder, Idle, NoneLater, Steps
<1>13. CASE Restart
  BY <1>0, <1>13, OpFacts DEF Restart, NoneLater, Steps
<1>14. CASE UNCHANGED vars
  BY <1>0, <1>14 DEF vars, NoneLater, Saved
<1> QED
  BY <1>1, <1>2, <1>3, <1>4, <1>5, <1>6, <1>7, <1>8, <1>9, <1>10, <1>11,
     <1>12, <1>13, <1>14 DEF Next

LEMMA InvInit == Init => Inv
<1> SUFFICES ASSUME Init PROVE Inv
  OBVIOUS
<1>1. PICK n \in 0 .. Legacy, o \in Orders :
        backups = [t \in (-n) .. -1 |-> [automatic |-> TRUE, order |-> o]]
  BY DEF Init
<1>2. NoneLater
  BY <1>1 DEF Init, NoneLater
<1> QED BY <1>2, TypeInit, OpFacts DEF Init, Inv, Steps

LEMMA Invariance == Spec => []Inv
BY InvInit, InvStep, PTL DEF Spec

\* Game::setLoadOrder never sets a load order while the one that LOOT displays
\* has no automatic backup (unless its file could not be written), however many
\* attempts were cut short before, and whatever the number that is kept.
THEOREM BackupPrecedesSet == Spec => []BackedUpBeforeSet
<1>1. Inv => BackedUpBeforeSet
  BY DEF Inv, BackedUpBeforeSet, Saved, Steps
<1> QED BY <1>1, Invariance, PTL

-----------------------------------------------------------------------------
(* What pruning leaves.                                                    *)

\* When the load order is set removeOldBackups has left at most MAX_BACKUPS
\* automatic backups.
THEOREM NoMoreThanMaxKept == Spec => []NoMoreThanMax
<1>1. Init => NoMoreThanMax
  BY OpFacts DEF Init, NoMoreThanMax
<1>2. ASSUME TypeOK, NoMoreThanMax, [Next]_vars
      PROVE  NoMoreThanMax'
  <2> SUFFICES ASSUME op'.step = "set"
               PROVE  Cardinality(Automatic)' <= MaxBackups
    BY DEF NoMoreThanMax
  <2>1. CASE EndPruning
    BY <2>1 DEF EndPruning, Automatic
  <2>2. CASE op.step = "set" /\ op' = op /\ backups' = backups
    BY <1>2, <2>2 DEF NoMoreThanMax, Automatic
  <2>3. CASE Write \/ Prune
    <3>1. op \in Op
      BY <1>2, <2>3, Busy DEF Write, Prune, Steps
    <3> QED BY <2>3, <3>1 DEF Write, Prune, Op
  <2>4. EndPruning \/ Write \/ Prune
        \/ (op.step = "set" /\ op' = op /\ backups' = backups)
    BY <1>2, OpFacts
    DEF Next, vars, ApplySort, FixAmbiguous, Restore, BackUpCurrentLoadOrder,
        BackUp, SetLoadOrder, Fail, DeleteBackup, Idle, ChangeElsewhere,
        ReadLoadOrder, Restart
  <2> QED BY <2>1, <2>2, <2>3, <2>4
<1> QED BY <1>1, <1>2, TypeCorrect, PTL DEF Spec

\* removeOldBackups removes nothing but an automatic backup with at least
\* MAX_BACKUPS more recent ones; a manual backup only the user can delete.
THEOREM OnlyOldestPruned == Spec => OnlyOldestRemoved
<1> DEFINE Kept ==
      \A t \in DOMAIN backups \ DOMAIN backups' :
        \/ Idle
        \/ /\ backups[t].automatic
           /\ Cardinality({s \in Automatic : s > t}) >= MaxBackups
<1>1. ASSUME TypeOK, [Next]_vars
      PROVE  [Kept]_vars
  <2>1. CASE Prune
    <3>1. PICK t \in DOMAIN backups : Oldest(t) /\ backups' = Without(t)
      BY <2>1 DEF Prune
    <3>2. DOMAIN backups \ DOMAIN backups' = {t}
      BY <1>1, <3>1, WithoutType
    <3>3. Cardinality({s \in Automatic : s > t}) = Cardinality(Automatic) - 1
      BY <1>1, <3>1, MoreRecentThanOldest
    <3>4. Cardinality(Automatic) \in Nat /\ Cardinality(Automatic) > MaxBackups
      BY <1>1, <2>1, AutomaticFinite, FS_CardinalityType DEF Prune
    <3>5. Cardinality({s \in Automatic : s > t}) >= MaxBackups
      BY <3>3, <3>4, MaxBackupsAssumption
    <3>6. backups[t].automatic
      BY <3>1 DEF Oldest, Automatic
    <3> QED BY <3>2, <3>5, <3>6
  <2>2. CASE Write
    <3>1. DOMAIN backups' = DOMAIN backups
      BY <2>2 DEF Write
    <3> QED BY <3>1
  <2>3. ASSUME NEW t \in DOMAIN backups, DeleteBackup(t) PROVE Kept
    BY <2>3 DEF DeleteBackup
  <2>4. ASSUME NEW automatic, NEW target, BackUp(automatic, target) PROVE Kept
    <3>1. DOMAIN backups \subseteq DOMAIN backups'
      BY <2>4 DEF BackUp, With
    <3> QED BY <3>1
  <2>5. CASE backups' = backups
    BY <2>5
  <2>6. \/ Prune \/ Write
        \/ \E t \in DOMAIN backups : DeleteBackup(t)
        \/ \E automatic, target : BackUp(automatic, target)
        \/ backups' = backups
    BY <1>1
    DEF Next, vars, ApplySort, FixAmbiguous, Restore, BackUpCurrentLoadOrder,
        EndPruning, SetLoadOrder, Fail, ChangeElsewhere, ReadLoadOrder, Restart
  <2> QED BY <2>1, <2>2, <2>3, <2>4, <2>5, <2>6
<1> QED BY <1>1, TypeCorrect, PTL DEF Spec, OnlyOldestRemoved
=============================================================================
