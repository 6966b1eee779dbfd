-------------------------- MODULE MainWindowProofs --------------------------
(***************************************************************************)
(* Theorems about MainWindow for every set of games, load orders and slots, *)
(* every user and every setting; and, after those, what holds for a careful *)
(* user, who does what CarefulUser names.                                  *)
(***************************************************************************)
EXTENDS MainWindow, FiniteSetTheorems, TLAPS

-----------------------------------------------------------------------------
(* What each way of writing jobs does to its type.                         *)

JobsOK == jobs \in [Slots -> Job \cup {NoJob}]

\* A slot whose kind is a job's kind holds a job.
LEMMA BusySlot ==
  ASSUME JobsOK, NEW s \in Slots, jobs[s].kind \in Kinds
  PROVE  jobs[s] \in Job
BY DEF JobsOK, Job, NoJob, Kinds, LoadKinds, SortKinds

LEMMA KindsFacts ==
  /\ LoadKinds \subseteq Kinds
  /\ SortKinds \subseteq Kinds
  /\ {"update", "overlap"} \subseteq Kinds
  /\ "none" \notin Kinds
BY DEF Kinds, LoadKinds, SortKinds

LEMMA AdvanceType ==
  ASSUME JobsOK, NEW s \in Slots, jobs[s].kind \in Kinds,
         NEW stage \in Stages, NEW posted \in BOOLEAN,
         Advance(s, stage, posted)
  PROVE  JobsOK'
BY BusySlot DEF Advance, JobsOK, Job

LEMMA FinishType ==
  ASSUME JobsOK, NEW s \in Slots, jobs[s].kind \in Kinds,
         NEW result \in Orders \cup Outcomes, Finish(s, result)
  PROVE  JobsOK'
BY BusySlot DEF Finish, JobsOK, Job, Stages

LEMMA ReleaseType ==
  ASSUME JobsOK, NEW s \in Slots, Release(s)
  PROVE  JobsOK'
BY DEF Release, JobsOK

LEMMA NewJobType ==
  ASSUME NEW kind \in Kinds, NEW stage \in Stages, game \in Games
  PROVE  NewJob(kind, stage) \in Job
BY DEF NewJob, Job, Outcomes

LEMMA StartJobType ==
  ASSUME JobsOK, game \in Games, NEW s \in Slots, NEW kind \in Kinds,
         NEW stage \in Stages, jobs' = [jobs EXCEPT ![s] = NewJob(kind, stage)]
  PROVE  JobsOK'
BY NewJobType DEF JobsOK

-----------------------------------------------------------------------------
(* Type correctness.                                                       *)

LEMMA ControlsFacts ==
  /\ SortingControls \subseteq Controls
  /\ EditingControls \subseteq Controls
  /\ GameControls \subseteq Controls
  /\ Fix \in Controls
BY DEF Controls, EditingControls

LEMMA DecrementType ==
  ASSUME NEW n \in Nat
  PROVE  Decrement(n) \in Nat /\ Decrement(n) <= n /\ n <= Decrement(n) + 1
BY DEF Decrement

LEMMA ReadType ==
  ASSUME NEW g \in Games, loadOrder \in [Games -> Orders],
         ambiguous \in [Games -> BOOLEAN], ReadLoadOrder(g)
  PROVE  /\ loadOrder' \in [Games -> Orders]
         /\ ambiguous' \in [Games -> BOOLEAN]
BY AmbiguityAssumption DEF ReadLoadOrder

LEMMA TypeInit == Init => TypeOK
<1> SUFFICES ASSUME Init PROVE TypeOK
  OBVIOUS
<1>1. JobsOK
  <2>1. PICK s \in Slots :
          jobs = [t \in Slots |-> IF t = s THEN NewJob("startup", "queued") ELSE NoJob]
    BY DEF Init
  <2>2. NewJob("startup", "queued") \in Job
    BY NewJobType DEF Init, Kinds, LoadKinds, Stages
  <2>3. QED
    BY <2>1, <2>2 DEF JobsOK
<1>2. enabled \subseteq Controls
  BY DEF Init
<1>3. QED
  BY <1>1, <1>2, AutoSortAssumption DEF Init, TypeOK, JobsOK

\* Worker steps leave the window's state alone.
LEMMA TypeWorker ==
  ASSUME TypeOK, NEW s \in Slots, WorkerStep(s)
  PROVE  TypeOK'
<1> USE DEF JobsOK
<1>1. CASE SwitchGame(s)
  <2>1. jobs[s].kind \in Kinds /\ jobs[s].game \in Games
    BY <1>1, BusySlot, KindsFacts DEF SwitchGame, At, TypeOK, Job, Kinds, LoadKinds
  <2>2. jobs' \in [Slots -> Job \cup {NoJob}]
    BY <1>1, <2>1, AdvanceType DEF SwitchGame, TypeOK, Stages
  <2>3. QED
    BY <1>1, <2>1, <2>2 DEF SwitchGame, TypeOK, sortVars
<1>2. CASE BeginJob(s)
  <2>1. jobs[s].kind \in Kinds /\ jobs[s].game \in Games
    BY <1>2, BusySlot, KindsFacts DEF BeginJob, At, TypeOK, Job, Kinds, LoadKinds
  <2>2. jobs' \in [Slots -> Job \cup {NoJob}]
    BY <1>2, <2>1, AdvanceType DEF BeginJob, TypeOK, Stages
  <2>3. /\ loadOrder' \in [Games -> Orders]
        /\ ambiguous' \in [Games -> BOOLEAN]
    BY <1>2, <2>1, ReadType DEF BeginJob, TypeOK
  <2>4. QED
    BY <1>2, <2>2, <2>3 DEF BeginJob, TypeOK, sortVars
<1>3. CASE FinishQuery(s)
  <2>1. jobs[s].kind \in Kinds /\ jobs[s].game \in Games
    BY <1>3, BusySlot, KindsFacts DEF FinishQuery, At, TypeOK, Job, Kinds, LoadKinds
  <2>2. PICK r \in {loadOrder[jobs[s].game], "error"} : Finish(s, r)
    BY <1>3 DEF FinishQuery
  <2>3. r \in Orders \cup Outcomes
    BY <2>1 DEF TypeOK, Outcomes
  <2>4. jobs' \in [Slots -> Job \cup {NoJob}]
    BY <2>1, <2>2, <2>3, FinishType DEF TypeOK
  <2>5. QED
    BY <1>3, <2>4 DEF FinishQuery, TypeOK, sortVars, gameVars
<1>4. CASE FinishSort(s)
  <2>1. jobs[s].kind \in Kinds /\ jobs[s].game \in Games
    BY <1>4, BusySlot, KindsFacts DEF FinishSort, At, TypeOK, Job
  <2>2. PICK r \in Orders \cup Outcomes : Finish(s, r)
    BY <1>4 DEF FinishSort, Outcomes
  <2>3. jobs' \in [Slots -> Job \cup {NoJob}]
    BY <2>1, <2>2, FinishType DEF TypeOK
  <2>4. sortCount' \in [Games -> Nat] /\ unapplied' \in Nat
    BY <1>4, <2>1 DEF FinishSort, CountSort, TypeOK
  <2>5. QED
    BY <1>4, <2>3, <2>4 DEF FinishSort, TypeOK
<1>5. CASE FinishUpdate(s)
  <2>1. jobs[s].kind \in Kinds
    BY <1>5, KindsFacts DEF FinishUpdate, At
  <2>2. PICK r \in {"changed", "unchanged", "error"} :
          \/ Finish(s, r)
          \/ jobs' = [jobs EXCEPT ![s].stage = "updated", ![s].result = r]
    BY <1>5 DEF FinishUpdate
  <2>3. r \in Orders \cup Outcomes
    BY DEF Outcomes
  <2>4. jobs[s] \in Job
    BY <2>1, BusySlot DEF TypeOK
  <2>5. jobs' \in [Slots -> Job \cup {NoJob}]
    BY <2>1, <2>2, <2>3, <2>4, FinishType DEF TypeOK, Job, Stages
  <2>6. QED
    BY <1>5, <2>5 DEF FinishUpdate, TypeOK, sortVars, gameVars
<1>6. QED
  BY <1>1, <1>2, <1>3, <1>4, <1>5 DEF WorkerStep

\* Handlers list plugins, change controls and free the job's slot.
LEMMA HandledFacts ==
  ASSUME TypeOK, NEW s \in Slots, NEW kinds, NEW results,
         Handled(s, kinds, results), kinds \subseteq Kinds
  PROVE  /\ jobs[s] \in Job
         /\ jobs[s].game \in Games
         /\ jobs[s].result \in results
         /\ jobs[s].result \in Orders => ItemsOf(s) \in Items
BY BusySlot DEF Handled, At, TypeOK, JobsOK, Job, ItemsOf, Items

LEMMA CheckType ==
  ASSUME NEW controls \in SUBSET Controls
  PROVE  /\ CheckForAmbiguousLoadOrder(controls) \in SUBSET Controls
         /\ EnableGameActions(controls) \in SUBSET Controls
         /\ EnterSortingState(controls) \in SUBSET Controls
         /\ ExitSortingState(controls) \in SUBSET Controls
         /\ EnterEditingState(controls) \in SUBSET Controls
         /\ ExitEditingState(controls) \in SUBSET Controls
BY ControlsFacts DEF CheckForAmbiguousLoadOrder, EnableGameActions,
   EnterSortingState, ExitSortingState, EnterEditingState, ExitEditingState

LEMMA ShowGameDataType ==
  ASSUME TypeOK, NEW s \in Slots, ItemsOf(s) \in Items, ShowGameData(s)
  PROVE  shown' \in Items /\ enabled' \subseteq Controls
BY CheckType DEF ShowGameData, TypeOK

LEMMA MasterlistType ==
  ASSUME TypeOK, NEW s \in Slots, MasterlistUpdated(s)
  PROVE  /\ shown' \in Items \cup {Nothing} /\ (sorting => shown' # Nothing)
         /\ enabled' \subseteq Controls
BY CheckType, SentinelAssumption DEF MasterlistUpdated, TypeOK, Items

LEMMA StartSortType ==
  ASSUME TypeOK, NEW s \in Slots, NEW kind \in SortKinds, StartSort(s, kind)
  PROVE  JobsOK' /\ progress' \in BOOLEAN
<1>1. PICK update \in UpdateBeforeSort :
        /\ jobs' = [jobs EXCEPT ![s] =
                      NewJob(kind, IF update THEN "updating" ELSE "queued")]
        /\ progress' = update
  BY DEF StartSort
<1>2. (IF update THEN "updating" ELSE "queued") \in Stages /\ kind \in Kinds
  BY KindsFacts DEF Stages
<1>3. JobsOK'
  BY <1>1, <1>2, StartJobType DEF TypeOK, JobsOK
<1>4. QED
  BY <1>1, <1>3, UpdateAssumption

\* The result of a sort that returned plugins, as it is displayed and counted.
LEMMA SortedType ==
  ASSUME TypeOK, NEW s \in Slots, ItemsOf(s) \in Items
  PROVE  /\ SortedItems(s) \in Items
         /\ SortedCount(s) \in Nat
         /\ SortedControls(s) \in SUBSET Controls
<1>1. unapplied \in Nat /\ enabled \in SUBSET Controls
  BY DEF TypeOK
<1>2. SortedCount(s) \in Nat
  BY <1>1, DecrementType DEF SortedCount
<1>3. (IF LoadOrderChanged(s) THEN EnterSortingState(enabled) ELSE enabled)
        \in SUBSET Controls
  BY <1>1, CheckType
<1>4. SortedControls(s) \in SUBSET Controls
  BY <1>3, CheckType DEF SortedControls
<1>5. QED
  BY <1>2, <1>4 DEF SortedItems

LEMMA ApplySucceedsType ==
  ASSUME TypeOK, NEW items \in Items, NEW count \in Nat,
         NEW controls \in SUBSET Controls, ApplySucceeds(items, count, controls)
  PROVE  /\ loadOrder' \in [Games -> Orders]
         /\ ambiguous' \in [Games -> BOOLEAN]
         /\ enabled' \subseteq Controls
         /\ unapplied' \in Nat
         /\ sorting' = FALSE
         /\ proposed' = Nothing
<1>1. items.order \in Orders
  BY DEF Items
<1>2. enabled' \subseteq Controls
  BY CheckType, ControlsFacts DEF ApplySucceeds
<1>3. ambiguous' \in [Games -> BOOLEAN]
  BY AmbiguityAssumption DEF ApplySucceeds, TypeOK
<1>4. unapplied' \in Nat
  BY DecrementType DEF ApplySucceeds
<1>5. QED
  BY <1>1, <1>2, <1>3, <1>4 DEF ApplySucceeds, TypeOK

LEMMA TypeHandler ==
  ASSUME TypeOK, NEW s \in Slots, HandlerStep(s)
  PROVE  TypeOK'
<1> USE DEF ResetProgress
<1>a. SortKinds \subseteq Kinds /\ {"startup", "refresh", "change"} \subseteq Kinds
  BY KindsFacts DEF LoadKinds
<1>b. JobsOK
  BY DEF TypeOK, JobsOK
<1>1. CASE HandleProgressUpdate(s)
  <2>1. jobs[s] \in Job
    BY <1>1, <1>b DEF HandleProgressUpdate, JobsOK, NoJob
  <2>2. JobsOK'
    BY <1>1, <2>1, <1>b DEF HandleProgressUpdate, JobsOK, Job
  <2>3. QED
    BY <1>1, <2>2 DEF HandleProgressUpdate, JobsOK, TypeOK, gameVars, sortVars
<1>2. CASE HandleError(s)
  <2>1. JobsOK'
    BY <1>2, <1>b, ReleaseType DEF HandleError
  <2>2. auto' \in {"off", "loading", "sorting", "cancelled", "quitting"}
    BY <1>2 DEF HandleError, TypeOK
  <2>3. QED
    BY <1>2, <2>1, <2>2 DEF HandleError, JobsOK, TypeOK, gameVars, sortVars
<1>3. CASE HandleGameLoaded(s)
  <2>1. JobsOK'
    BY <1>3, <1>b, ReleaseType DEF HandleGameLoaded
  <2>2. ItemsOf(s) \in Items
    BY <1>3, HandledFacts, KindsFacts DEF HandleGameLoaded, LoadKinds
  <2>3. shown' \in Items /\ enabled' \subseteq Controls
    BY <1>3, <2>2, ShowGameDataType DEF HandleGameLoaded
  <2>4. QED
    BY <1>3, <2>1, <2>3, SentinelAssumption DEF HandleGameLoaded, JobsOK, TypeOK, gameVars, sortVars
<1>4. CASE HandleStartupGameDataLoaded(s)
  <2>1. ItemsOf(s) \in Items
    BY <1>4, <1>a, HandledFacts DEF HandleStartupGameDataLoaded
  <2>2. shown' \in Items /\ enabled' \subseteq Controls
    BY <1>4, <2>1, ShowGameDataType DEF HandleStartupGameDataLoaded
  <2>3. JobsOK' /\ progress' \in BOOLEAN
    BY <1>4, <1>b, StartSortType, ReleaseType
       DEF HandleStartupGameDataLoaded, SortKinds
  <2>4. auto' \in {"off", "loading", "sorting", "cancelled", "quitting"}
    BY <1>4 DEF HandleStartupGameDataLoaded, TypeOK
  <2>5. QED
    BY <1>4, <2>2, <2>3, <2>4, SentinelAssumption DEF HandleStartupGameDataLoaded, JobsOK, TypeOK,
       gameVars, sortVars
<1>5. CASE HandleMasterlistUpdated(s)
  <2>1. JobsOK'
    BY <1>5, <1>b, ReleaseType DEF HandleMasterlistUpdated
  <2>2. /\ shown' \in Items \cup {Nothing} /\ (sorting => shown' # Nothing)
        /\ enabled' \subseteq Controls
    BY <1>5, MasterlistType DEF HandleMasterlistUpdated
  <2>3. QED
    BY <1>5, <2>1, <2>2 DEF HandleMasterlistUpdated, JobsOK, TypeOK, gameVars,
       sortVars
<1>6. CASE HandleUpdateBeforeSort(s)
  <2>1. jobs[s] \in Job
    BY <1>6, <1>a, <1>b, BusySlot DEF HandleUpdateBeforeSort, At
  <2>2. JobsOK'
    BY <1>6, <2>1, <1>b DEF HandleUpdateBeforeSort, JobsOK, Job, Stages, Outcomes
  <2>3. /\ shown' \in Items \cup {Nothing} /\ (sorting => shown' # Nothing)
        /\ enabled' \subseteq Controls
    BY <1>6, MasterlistType DEF HandleUpdateBeforeSort
  <2>4. QED
    BY <1>6, <2>2, <2>3 DEF HandleUpdateBeforeSort, JobsOK, TypeOK,
       gameVars, sortVars
<1>7. CASE HandlePluginsManualSorted(s)
  <2>1. JobsOK'
    BY <1>7, <1>b, ReleaseType DEF HandlePluginsManualSorted
  <2>2. /\ shown' \in Items \cup {Nothing} /\ (sorting' => shown' # Nothing)
        /\ unapplied' \in Nat
        /\ sorting' \in BOOLEAN
        /\ proposed' \in Items \cup {Nothing}
        /\ enabled' \subseteq Controls
    <3>1. CASE Handled(s, {"sort"}, Orders)
      <4>1. ItemsOf(s) \in Items
        BY <3>1, <1>a, HandledFacts DEF SortKinds
      <4>2. CASE jobs[s].result \in {"failed", "failedSilently"}
        BY <3>1, <4>2, OrdersAssumption DEF Handled, Outcomes
      <4>3. CASE jobs[s].result \notin {"failed", "failedSilently"}
        <5>1. /\ shown' = SortedItems(s)
              /\ unapplied' = SortedCount(s)
              /\ \/ /\ sorting' = TRUE
                    /\ proposed' = ItemsOf(s)
                    /\ enabled' = SortedControls(s)
                 \/ /\ enabled' = CheckForAmbiguousLoadOrder(SortedControls(s))
                    /\ UNCHANGED <<sorting, proposed>>
          BY <1>7, <4>3 DEF HandlePluginsManualSorted, Handled
        <5>2. QED
          BY <5>1, <4>1, SortedType, CheckType, SentinelAssumption DEF TypeOK
      <4>4. QED
        BY <4>2, <4>3
    <3>2. CASE ~Handled(s, {"sort"}, Orders)
      BY <1>7, <3>2, CheckType DEF HandlePluginsManualSorted, TypeOK, sortVars
    <3>3. QED
      BY <3>1, <3>2
  <2>3. QED
    BY <1>7, <2>1, <2>2 DEF HandlePluginsManualSorted, JobsOK, TypeOK, gameVars
<1>8. CASE HandlePluginsAutoSorted(s)
  <2> DEFINE sorted == jobs[s].result \in Orders
             items == IF sorted THEN SortedItems(s) ELSE shown
             count == IF sorted THEN SortedCount(s) ELSE unapplied
             controls == IF sorted THEN SortedControls(s) ELSE enabled
             proposal == sorted /\ LoadOrderChanged(s)
  <2>1. JobsOK'
    BY <1>8, <1>b, ReleaseType DEF HandlePluginsAutoSorted
  <2>2. sorted => ItemsOf(s) \in Items
    BY <1>8, <1>a, HandledFacts DEF HandlePluginsAutoSorted, SortKinds
  <2>3. /\ items \in Items \cup {Nothing}
        /\ count \in Nat
        /\ controls \in SUBSET Controls
    BY <2>2, SortedType DEF TypeOK
  <2>a. sorting \/ proposal => items \in Items
    BY <2>2, SortedType DEF TypeOK
  <2>4. /\ shown' = items
        /\ \/ (sorting \/ proposal) /\ ApplySucceeds(items, count, controls)
           \/ /\ NotApplied(count, controls)
              /\ sorting' = (sorting \/ proposal)
              /\ proposed' = IF proposal THEN ItemsOf(s) ELSE proposed
    BY <1>8 DEF HandlePluginsAutoSorted
  <2> HIDE DEF items, count, controls
  <2>5. /\ loadOrder' \in [Games -> Orders]
        /\ ambiguous' \in [Games -> BOOLEAN]
        /\ enabled' \subseteq Controls
        /\ unapplied' \in Nat
        /\ sorting' \in BOOLEAN
        /\ proposed' \in Items \cup {Nothing}
    <3>1. CASE ApplySucceeds(items, count, controls) /\ items \in Items
      BY <3>1, <2>3, ApplySucceedsType
    <3>2. CASE NotApplied(count, controls) /\ sorting' = (sorting \/ proposal)
               /\ proposed' = IF proposal THEN ItemsOf(s) ELSE proposed
      <4>1. /\ loadOrder' \in [Games -> Orders]
            /\ ambiguous' \in [Games -> BOOLEAN]
            /\ enabled' \subseteq Controls
            /\ unapplied' \in Nat
        BY <3>2, <2>3 DEF NotApplied, TypeOK
      <4>2. sorting' \in BOOLEAN /\ proposed' \in Items \cup {Nothing}
        BY <3>2, <2>2 DEF TypeOK
      <4>3. QED
        BY <4>1, <4>2
    <3>3. QED
      BY <2>3, <2>4, <2>a, <3>1, <3>2
  <2>6. /\ shown' \in Items \cup {Nothing} /\ (sorting' => shown' # Nothing)
        /\ auto' \in {"off", "loading", "sorting", "cancelled", "quitting"}
        /\ window' \in {"open", "closed", "crashed"}
    <3>1. sorting' => shown' # Nothing
      BY <2>4, <2>a, SentinelAssumption DEF ApplySucceeds
    <3>2. QED
      BY <1>8, <2>3, <2>4, <2>a, <3>1
         DEF HandlePluginsAutoSorted, TypeOK
  <2>7. QED
    BY <1>8, <2>1, <2>5, <2>6 DEF HandlePluginsAutoSorted, JobsOK, TypeOK
<1>9. QED
  BY <1>1, <1>2, <1>3, <1>4, <1>5, <1>6, <1>7, <1>8 DEF HandlerStep

LEMMA TypeUser ==
  ASSUME TypeOK, UserStep
  PROVE  TypeOK'
<1> USE DEF JobsOK
<1>a. /\ {"update", "overlap"} \subseteq Kinds
      /\ "change" \in Kinds /\ "refresh" \in Kinds /\ "sort" \in SortKinds
  BY DEF Kinds, LoadKinds, SortKinds
<1>1. ASSUME NEW s \in Slots, ChangeGame(s)
      PROVE  TypeOK'
  <2>1. PICK g \in Games :
          jobs' = [jobs EXCEPT ![s] = [NewJob("change", "queued") EXCEPT !.game = g]]
    BY <1>1 DEF ChangeGame
  <2>2. [NewJob("change", "queued") EXCEPT !.game = g] \in Job
    BY <1>a DEF NewJob, Job, Stages, Outcomes, TypeOK
  <2>3. jobs' \in [Slots -> Job \cup {NoJob}]
    BY <2>1, <2>2 DEF TypeOK
  <2>4. QED
    BY <1>1, <2>3 DEF ChangeGame, TypeOK, gameVars, sortVars
<1>2. ASSUME NEW s \in Slots, Sort(s)
      PROVE  TypeOK'
  BY <1>2, <1>a, StartSortType DEF Sort, TypeOK, gameVars, sortVars
<1>3. ASSUME NEW s \in Slots, RefreshContent(s)
      PROVE  TypeOK'
  BY <1>3, <1>a, StartJobType DEF RefreshContent, StartJob, Stages, TypeOK,
     gameVars, sortVars
<1>4. ASSUME NEW s \in Slots, RestoreLoadOrder(s)
      PROVE  TypeOK'
  <2>1. jobs' \in [Slots -> Job \cup {NoJob}]
    BY <1>4, <1>a, StartJobType DEF RestoreLoadOrder, StartJob, Stages, TypeOK
  <2>2. QED
    BY <1>4, <2>1, ReadType DEF RestoreLoadOrder, TypeOK, sortVars
<1>5. ASSUME NEW s \in Slots, UpdateMasterlist(s)
      PROVE  TypeOK'
  BY <1>5, <1>a, StartJobType DEF UpdateMasterlist, StartJob, Stages, TypeOK,
     gameVars, sortVars
<1>6. ASSUME NEW s \in Slots, FilterByOverlap(s)
      PROVE  TypeOK'
  BY <1>6, <1>a, StartJobType DEF FilterByOverlap, StartJob, Stages, TypeOK,
     gameVars, sortVars
<1>7. CASE ApplySort
  <2>1. shown \in Items /\ unapplied \in Nat /\ enabled \in SUBSET Controls
    BY <1>7 DEF ApplySort, TypeOK
  <2>2. CASE ApplySucceeds(shown, unapplied, enabled)
    BY <1>7, <2>1, <2>2, ApplySucceedsType DEF ApplySort, TypeOK
  <2>3. CASE NotApplied(unapplied, enabled) /\ UNCHANGED <<sorting, proposed>>
    BY <1>7, <2>3 DEF ApplySort, NotApplied, TypeOK
  <2>4. QED
    BY <1>7, <2>2, <2>3 DEF ApplySort
<1>8. CASE DiscardSort
  <2>1. unapplied' \in Nat /\ sortCount' \in [Games -> Nat]
    BY <1>8, DecrementType DEF DiscardSort, TypeOK
  <2>2. enabled' \subseteq Controls
    BY <1>8, CheckType DEF DiscardSort, TypeOK
  <2>3. shown' \in Items \cup {Nothing}
    BY <1>8 DEF DiscardSort, TypeOK, Items
  <2>4. QED
    BY <1>8, <2>1, <2>2, <2>3 DEF DiscardSort, TypeOK
<1>9. CASE FixAmbiguousLoadOrder
  BY <1>9, AmbiguityAssumption DEF FixAmbiguousLoadOrder, TypeOK, sortVars
<1>10. CASE EditMetadata
  BY <1>10, CheckType DEF EditMetadata, TypeOK, gameVars
<1>11. CASE AcceptEdits
  BY <1>11, CheckType, DecrementType DEF AcceptEdits, CloseEditor, TypeOK, gameVars
<1>12. CASE RejectEdits
  BY <1>12, CheckType, DecrementType DEF RejectEdits, CloseEditor, TypeOK, gameVars
<1>13. CASE Quit
  BY <1>13 DEF Quit, TypeOK, gameVars, sortVars
<1>14. QED
  BY <1>1, <1>2, <1>3, <1>4, <1>5, <1>6, <1>7, <1>8, <1>9, <1>10, <1>11, <1>12,
     <1>13 DEF UserStep

LEMMA TypeNext == TypeOK /\ [Next]_vars => TypeOK'
<1> SUFFICES ASSUME TypeOK, [Next]_vars PROVE TypeOK'
  OBVIOUS
<1>1. ASSUME NEW s \in Slots, JobStep(s)
      PROVE  TypeOK'
  BY <1>1, TypeWorker, TypeHandler DEF JobStep
<1>2. CASE UserStep
  BY <1>2, TypeUser
<1>3. CASE UNCHANGED vars
  BY <1>3 DEF vars, gameVars, sortVars, TypeOK
<1>4. QED
  BY <1>1, <1>2, <1>3 DEF Next

\* Every variable keeps its type, whatever the user does and whatever the
\* threads' speed.
THEOREM TypeCorrect == Spec => []TypeOK
BY TypeInit, TypeNext, PTL DEF Spec

-----------------------------------------------------------------------------
(* Pending changes are counted.  The invariant is that the count covers the  *)
(* pending order, the editing state and the sorts whose results wait.       *)

LEMMA FinishedFinite ==
  /\ IsFiniteSet(FinishedSorts) /\ Cardinality(FinishedSorts) \in Nat
  /\ IsFiniteSet(FinishedSorts') /\ Cardinality(FinishedSorts') \in Nat
<1>1. FinishedSorts \subseteq Slots /\ FinishedSorts' \subseteq Slots
  BY DEF FinishedSorts
<1>2. QED
  BY <1>1, SlotsAssumption, FS_Subset, FS_CardinalityType

LEMMA FinishedShrinks ==
  ASSUME FinishedSorts' \subseteq FinishedSorts
  PROVE  Cardinality(FinishedSorts') <= Cardinality(FinishedSorts)
BY FinishedFinite, FS_Subset

LEMMA FinishedTaken ==
  ASSUME NEW s \in FinishedSorts, FinishedSorts' \subseteq FinishedSorts \ {s}
  PROVE  Cardinality(FinishedSorts') + 1 <= Cardinality(FinishedSorts)
<1>1. /\ IsFiniteSet(FinishedSorts \ {s})
      /\ Cardinality(FinishedSorts \ {s}) = Cardinality(FinishedSorts) - 1
  BY FinishedFinite, FS_RemoveElement
<1>2. Cardinality(FinishedSorts') <= Cardinality(FinishedSorts \ {s})
  BY <1>1, FS_Subset
<1>3. QED
  BY <1>1, <1>2, FinishedFinite

LEMMA FinishedAdded ==
  ASSUME NEW s, FinishedSorts' \subseteq FinishedSorts \cup {s}
  PROVE  Cardinality(FinishedSorts') <= Cardinality(FinishedSorts) + 1
<1>1. /\ IsFiniteSet(FinishedSorts \cup {s})
      /\ Cardinality(FinishedSorts \cup {s}) <= Cardinality(FinishedSorts) + 1
  BY FinishedFinite, FS_AddElement
<1>2. Cardinality(FinishedSorts') <= Cardinality(FinishedSorts \cup {s})
  BY <1>1, FS_Subset
<1>3. Cardinality(FinishedSorts \cup {s}) \in Nat
  BY <1>1, FS_CardinalityType
<1>4. QED
  BY <1>1, <1>2, <1>3, FinishedFinite

\* A step that writes one slot can add only that slot, and a step that does not
\* leave a successful sort in it removes it.
LEMMA OneSlot ==
  ASSUME JobsOK, NEW s \in Slots, NEW j, jobs' = [jobs EXCEPT ![s] = j]
  PROVE  /\ FinishedSorts' \subseteq FinishedSorts \cup {s}
         /\ ~(j.kind \in SortKinds /\ j.stage = "finished" /\ j.result \in Orders)
              => FinishedSorts' \subseteq FinishedSorts \ {s}
<1>1. jobs'[s] = j /\ \A t \in Slots \ {s} : jobs'[t] = jobs[t]
  BY DEF JobsOK
<1>2. QED
  BY <1>1 DEF FinishedSorts, At

LEMMA ReleaseFinished ==
  ASSUME JobsOK, NEW s \in Slots, Release(s)
  PROVE  FinishedSorts' \subseteq FinishedSorts \ {s}
<1>1. NoJob.kind \notin SortKinds
  BY DEF NoJob, SortKinds
<1>2. jobs' = [jobs EXCEPT ![s] = NoJob]
  BY DEF Release
<1>3. QED
  BY <1>1, <1>2, OneSlot

LEMMA AdvanceFinished ==
  ASSUME JobsOK, NEW s \in Slots, jobs[s] \in Job, NEW stage, NEW posted,
         Advance(s, stage, posted), stage # "finished"
  PROVE  FinishedSorts' \subseteq FinishedSorts
<1>1. jobs'[s].stage = stage /\ \A t \in Slots \ {s} : jobs'[t] = jobs[t]
  BY DEF Advance, JobsOK, Job
<1>2. QED
  BY <1>1 DEF FinishedSorts, At

LEMMA FinishFinished ==
  ASSUME JobsOK, NEW s \in Slots, jobs[s] \in Job, NEW result,
         Finish(s, result)
  PROVE  /\ FinishedSorts' \subseteq FinishedSorts \cup {s}
         /\ jobs[s].kind \notin SortKinds \/ result \notin Orders
              => FinishedSorts' \subseteq FinishedSorts
<1>1. /\ jobs'[s].kind = jobs[s].kind /\ jobs'[s].result = result
      /\ \A t \in Slots \ {s} : jobs'[t] = jobs[t]
  BY DEF Finish, JobsOK, Job
<1>2. QED
  BY <1>1 DEF FinishedSorts, At

\* Only entering and leaving the editing state touch that state.
LEMMA EditingControl ==
  ASSUME NEW controls
  PROVE  /\ "EditMetadata" \in EnableGameActions(controls) <=> "EditMetadata" \in controls
         /\ "EditMetadata" \in EnterSortingState(controls) <=> "EditMetadata" \in controls
         /\ "EditMetadata" \in ExitSortingState(controls) <=> "EditMetadata" \in controls
         /\ "EditMetadata" \in CheckForAmbiguousLoadOrder(controls)
              <=> "EditMetadata" \in controls
BY DEF EnableGameActions, EnterSortingState, ExitSortingState,
   CheckForAmbiguousLoadOrder, GameControls, SortingControls, Fix

LEMMA CountKept ==
  ASSUME TypeOK, CountCovers, FinishedSorts' \subseteq FinishedSorts,
         unapplied' = unapplied, sorting' = sorting, editor' = editor,
         "EditMetadata" \in enabled' <=> "EditMetadata" \in enabled
  PROVE  CountCovers'
<1>1. Editing' = Editing
  BY DEF Editing
<1>2. Cardinality(FinishedSorts') <= Cardinality(FinishedSorts)
  BY FinishedShrinks
<1>3. Bit(sorting') = Bit(sorting) /\ Bit(Editing') = Bit(Editing)
  BY <1>1
<1>4. Bit(sorting) \in Nat /\ Bit(Editing) \in Nat
  BY DEF Bit
<1>5. QED
  BY <1>1, <1>2, <1>3, <1>4, FinishedFinite DEF CountCovers, TypeOK

LEMMA CountInit == Init => CountCovers
<1> SUFFICES ASSUME Init PROVE CountCovers
  OBVIOUS
<1>1. FinishedSorts = {}
  BY DEF Init, FinishedSorts, At, NewJob, NoJob, SortKinds
<1>2. Cardinality(FinishedSorts) = 0
  BY <1>1, FS_EmptySet
<1>3. ~Editing
  BY DEF Init, Editing, Controls, EditingControls, GameControls
<1>4. QED
  BY <1>2, <1>3 DEF Init, CountCovers, Bit

LEMMA CountWorker ==
  ASSUME TypeOK, CountCovers, NEW s \in Slots, WorkerStep(s)
  PROVE  CountCovers'
<1>a. JobsOK
  BY DEF TypeOK, JobsOK
<1>1. CASE SwitchGame(s)
  <2>1. jobs[s] \in Job
    BY <1>1, <1>a, BusySlot DEF SwitchGame, At, Kinds, LoadKinds
  <2>2. FinishedSorts' \subseteq FinishedSorts
    BY <1>1, <2>1, <1>a, AdvanceFinished DEF SwitchGame
  <2>3. QED
    BY <1>1, <2>2, CountKept DEF SwitchGame, sortVars
<1>2. CASE BeginJob(s)
  <2>1. jobs[s] \in Job
    BY <1>2, <1>a, BusySlot DEF BeginJob, At, Kinds, LoadKinds
  <2>2. FinishedSorts' \subseteq FinishedSorts
    BY <1>2, <2>1, <1>a, AdvanceFinished DEF BeginJob
  <2>3. QED
    BY <1>2, <2>2, CountKept DEF BeginJob, sortVars
<1>3. CASE FinishQuery(s)
  <2>1. jobs[s] \in Job /\ jobs[s].kind \notin SortKinds
    BY <1>3, <1>a, BusySlot DEF FinishQuery, At, Kinds, LoadKinds, SortKinds
  <2>2. PICK r : Finish(s, r)
    BY <1>3 DEF FinishQuery
  <2>3. FinishedSorts' \subseteq FinishedSorts
    BY <2>1, <2>2, <1>a, FinishFinished
  <2>4. QED
    BY <1>3, <2>3, CountKept DEF FinishQuery, sortVars
<1>4. CASE FinishSort(s)
  <2>1. jobs[s] \in Job
    BY <1>4, <1>a, BusySlot, KindsFacts DEF FinishSort, At
  <2>2. CASE \E o \in Orders : Finish(s, o) /\ unapplied' = unapplied + 1
    <3>1. FinishedSorts' \subseteq FinishedSorts \cup {s}
      BY <2>1, <2>2, <1>a, FinishFinished
    <3>2. Cardinality(FinishedSorts') <= Cardinality(FinishedSorts) + 1
      BY <3>1, FinishedAdded
    <3>3. /\ Editing' = Editing /\ editor' = editor
          /\ Bit(sorting') = Bit(sorting) /\ Bit(Editing') = Bit(Editing)
          /\ Bit(sorting) \in Nat /\ Bit(Editing) \in Nat
      BY <1>4 DEF FinishSort, Editing, Bit
    <3>4. QED
      BY <2>2, <3>2, <3>3, FinishedFinite DEF CountCovers, TypeOK
  <2>3. CASE \E r \in Outcomes : Finish(s, r) /\ unapplied' = unapplied
    <3>1. FinishedSorts' \subseteq FinishedSorts
      BY <2>1, <2>3, <1>a, FinishFinished, OrdersAssumption
    <3>2. QED
      BY <1>4, <2>3, <3>1, CountKept DEF FinishSort
  <2>4. {"failed", "failedSilently", "error"} \subseteq Outcomes
    BY DEF Outcomes
  <2>5. QED
    BY <1>4, <2>2, <2>3, <2>4 DEF FinishSort
<1>5. CASE FinishUpdate(s)
  <2>1. jobs[s] \in Job
    BY <1>5, <1>a, BusySlot, KindsFacts DEF FinishUpdate, At
  <2>2. CASE \E r : At(s, {"update"}, "updating") /\ Finish(s, r)
    BY <1>5, <2>1, <2>2, <1>a, FinishFinished, CountKept
       DEF FinishUpdate, At, SortKinds, sortVars
  <2>3. CASE \E r : jobs' = [jobs EXCEPT ![s].stage = "updated", ![s].result = r]
    <3>1. jobs'[s].stage = "updated" /\ \A t \in Slots \ {s} : jobs'[t] = jobs[t]
      BY <2>1, <2>3, <1>a DEF JobsOK, Job
    <3>2. FinishedSorts' \subseteq FinishedSorts
      BY <3>1 DEF FinishedSorts, At
    <3>3. QED
      BY <1>5, <3>2, CountKept DEF FinishUpdate, sortVars
  <2>4. QED
    BY <1>5, <2>2, <2>3 DEF FinishUpdate
<1>6. QED
  BY <1>1, <1>2, <1>3, <1>4, <1>5 DEF WorkerStep

LEMMA NewJobFinished ==
  ASSUME JobsOK, NEW s \in Slots, NEW kind, NEW stage, stage # "finished",
         jobs' = [jobs EXCEPT ![s] = NewJob(kind, stage)]
  PROVE  FinishedSorts' \subseteq FinishedSorts
<1>1. jobs'[s].stage = stage /\ \A t \in Slots \ {s} : jobs'[t] = jobs[t]
  BY DEF JobsOK, NewJob
<1>2. QED
  BY <1>1 DEF FinishedSorts, At

LEMMA StartSortFinished ==
  ASSUME JobsOK, NEW s \in Slots, NEW kind, StartSort(s, kind)
  PROVE  FinishedSorts' \subseteq FinishedSorts
<1>1. PICK update \in UpdateBeforeSort :
        jobs' = [jobs EXCEPT ![s] =
                   NewJob(kind, IF update THEN "updating" ELSE "queued")]
  BY DEF StartSort
<1>2. (IF update THEN "updating" ELSE "queued") # "finished"
  OBVIOUS
<1>3. QED
  BY <1>1, <1>2, NewJobFinished

\* A sort's result is displayed: its job no longer needs counting, and the
\* count still covers the rest, and the new pending order if there is one.
LEMMA SortedCounted ==
  ASSUME TypeOK, CountCovers, NEW s \in FinishedSorts,
         FinishedSorts' \subseteq FinishedSorts \ {s}
  PROVE  /\ SortedCount(s) \in Nat
         /\ SortedCount(s) >= Bit(sorting \/ LoadOrderChanged(s)) + Bit(Editing)
                              + Cardinality(FinishedSorts')
<1> DEFINE f == Cardinality(FinishedSorts)
           g == Cardinality(FinishedSorts')
<1>1. g + 1 <= f /\ f \in Nat /\ g \in Nat
  BY FinishedTaken, FinishedFinite
<1>2. unapplied >= Bit(sorting) + Bit(Editing) + f /\ unapplied \in Nat
  BY DEF CountCovers, TypeOK
<1>3. Bit(Editing) \in {0, 1} /\ Bit(sorting) \in {0, 1}
  BY DEF Bit
<1>4. CASE LoadOrderChanged(s)
  BY <1>1, <1>2, <1>3, <1>4 DEF SortedCount, Bit
<1>5. CASE ~LoadOrderChanged(s)
  <2>1. SortedCount(s) = unapplied - 1
    BY <1>1, <1>2, <1>3, <1>5 DEF SortedCount, Decrement
  <2>2. (sorting \/ LoadOrderChanged(s)) = sorting
    BY <1>5 DEF TypeOK
  <2>3. QED
    BY <1>1, <1>2, <1>3, <2>1, <2>2
<1>6. QED
  BY <1>4, <1>5

LEMMA CountHandler ==
  ASSUME TypeOK, CountCovers, NEW s \in Slots, HandlerStep(s)
  PROVE  CountCovers'
<1>a. JobsOK /\ enabled \subseteq Controls
  BY DEF TypeOK, JobsOK
<1>b. Release(s) => FinishedSorts' \subseteq FinishedSorts
  BY <1>a, ReleaseFinished
<1>c. ShowGameData(s) =>
        ("EditMetadata" \in enabled' <=> "EditMetadata" \in enabled)
  BY EditingControl DEF ShowGameData
<1>d. MasterlistUpdated(s) =>
        ("EditMetadata" \in enabled' <=> "EditMetadata" \in enabled)
  BY EditingControl DEF MasterlistUpdated
<1>1. CASE HandleProgressUpdate(s)
  <2>1. jobs[s] \in Job
    BY <1>1, <1>a DEF HandleProgressUpdate, JobsOK, NoJob
  <2>2. /\ jobs'[s].kind = jobs[s].kind /\ jobs'[s].stage = jobs[s].stage
        /\ jobs'[s].result = jobs[s].result
        /\ \A t \in Slots \ {s} : jobs'[t] = jobs[t]
    BY <1>1, <2>1, <1>a DEF HandleProgressUpdate, JobsOK, Job
  <2>3. FinishedSorts' \subseteq FinishedSorts
    BY <2>2 DEF FinishedSorts, At
  <2>4. QED
    BY <1>1, <2>3, CountKept DEF HandleProgressUpdate, sortVars
<1>2. CASE HandleError(s)
  BY <1>2, <1>b, CountKept DEF HandleError, sortVars
<1>3. CASE HandleGameLoaded(s)
  BY <1>3, <1>b, <1>c, CountKept DEF HandleGameLoaded, sortVars
<1>4. CASE HandleStartupGameDataLoaded(s)
  BY <1>4, <1>a, <1>b, <1>c, CountKept, StartSortFinished
     DEF HandleStartupGameDataLoaded, sortVars
<1>5. CASE HandleMasterlistUpdated(s)
  BY <1>5, <1>b, <1>d, CountKept DEF HandleMasterlistUpdated, sortVars
<1>6. CASE HandleUpdateBeforeSort(s)
  <2>1. jobs[s] \in Job
    BY <1>6, <1>a, BusySlot, KindsFacts DEF HandleUpdateBeforeSort, At
  <2>2. jobs'[s].stage = "queued" /\ \A t \in Slots \ {s} : jobs'[t] = jobs[t]
    BY <1>6, <2>1, <1>a DEF HandleUpdateBeforeSort, JobsOK, Job
  <2>3. FinishedSorts' \subseteq FinishedSorts
    BY <2>2 DEF FinishedSorts, At
  <2>4. QED
    BY <1>6, <2>3, <1>d, CountKept DEF HandleUpdateBeforeSort, sortVars
<1>7. CASE HandlePluginsManualSorted(s)
  <2>1. FinishedSorts' \subseteq FinishedSorts \ {s}
    BY <1>7, <1>a, ReleaseFinished DEF HandlePluginsManualSorted
  <2>2. CASE Handled(s, {"sort"}, Orders)
    <3>1. s \in FinishedSorts
      BY <2>2 DEF Handled, At, FinishedSorts, SortKinds
    <3>2. /\ unapplied' = SortedCount(s)
          /\ sorting' = (sorting \/ LoadOrderChanged(s))
          /\ \/ enabled' = SortedControls(s)
             \/ enabled' = CheckForAmbiguousLoadOrder(SortedControls(s))
      BY <1>7, <2>2, OrdersAssumption
         DEF HandlePluginsManualSorted, Handled, Outcomes, TypeOK
    <3>3. Editing' = Editing
      BY <3>2, EditingControl DEF SortedControls, Editing
    <3>4. Bit(sorting') = Bit(sorting \/ LoadOrderChanged(s))
          /\ Bit(Editing') = Bit(Editing)
      BY <3>2, <3>3
    <3>5. QED
      BY <1>7, <2>1, <3>1, <3>2, <3>3, <3>4, SortedCounted
         DEF CountCovers, HandlePluginsManualSorted
  <2>3. CASE ~Handled(s, {"sort"}, Orders)
    BY <1>7, <2>3, <2>1, CountKept, EditingControl
       DEF HandlePluginsManualSorted, sortVars
  <2>4. QED
    BY <2>2, <2>3
<1>8. CASE HandlePluginsAutoSorted(s)
  <2> DEFINE sorted == jobs[s].result \in Orders
             items == IF sorted THEN SortedItems(s) ELSE shown
             count == IF sorted THEN SortedCount(s) ELSE unapplied
             controls == IF sorted THEN SortedControls(s) ELSE enabled
             pending == sorting \/ (sorted /\ LoadOrderChanged(s))
  <2>1. FinishedSorts' \subseteq FinishedSorts \ {s}
    BY <1>8, <1>a, ReleaseFinished DEF HandlePluginsAutoSorted
  <2>2. /\ editor' = editor
        /\ \/ pending /\ ApplySucceeds(items, count, controls)
           \/ NotApplied(count, controls) /\ sorting' = pending
    BY <1>8 DEF HandlePluginsAutoSorted
  <2>3. /\ count \in Nat
        /\ count >= Bit(pending) + Bit(Editing) + Cardinality(FinishedSorts')
    <3>1. CASE sorted
      <4>1. s \in FinishedSorts
        BY <1>8, <3>1 DEF HandlePluginsAutoSorted, Handled, At, FinishedSorts,
           SortKinds
      <4>2. pending = (sorting \/ LoadOrderChanged(s)) /\ count = SortedCount(s)
        BY <3>1
      <4>3. QED
        BY <2>1, <4>1, <4>2, SortedCounted
    <3>2. CASE ~sorted
      <4>1. pending = sorting /\ count = unapplied
        BY <3>2 DEF TypeOK
      <4>2. Cardinality(FinishedSorts') <= Cardinality(FinishedSorts)
        BY <2>1, FinishedShrinks
      <4>3. Bit(sorting) \in Nat /\ Bit(Editing) \in Nat
        BY DEF Bit
      <4>4. QED
        BY <4>1, <4>2, <4>3, FinishedFinite DEF CountCovers, TypeOK
    <3>3. QED
      BY <3>1, <3>2
  <2>4. "EditMetadata" \in controls <=> "EditMetadata" \in enabled
    BY EditingControl DEF SortedControls
  <2> HIDE DEF sorted, items, count, controls, pending
  <2>5. Bit(Editing) \in {0, 1} /\ Cardinality(FinishedSorts') \in Nat
    BY FinishedFinite DEF Bit
  <2>6. CASE pending /\ ApplySucceeds(items, count, controls)
    <3>1. Editing' = Editing
      BY <2>6, <2>4, EditingControl DEF ApplySucceeds, Editing, Fix
    <3>2. unapplied' = Decrement(count) /\ sorting' = FALSE
      BY <2>6 DEF ApplySucceeds
    <3>3. unapplied' >= Bit(Editing) + Cardinality(FinishedSorts')
      BY <2>3, <2>5, <2>6, <3>2 DEF Decrement, Bit
    <3>4. QED
      BY <2>2, <2>5, <3>1, <3>2, <3>3 DEF CountCovers, Bit
  <2>7. CASE NotApplied(count, controls) /\ sorting' = pending
    <3>1. Editing' = Editing /\ unapplied' = count
      BY <2>7, <2>4 DEF NotApplied, Editing
    <3>2. QED
      BY <2>2, <2>3, <2>7, <3>1 DEF CountCovers
  <2>8. QED
    BY <2>2, <2>6, <2>7
<1>9. QED
  BY <1>1, <1>2, <1>3, <1>4, <1>5, <1>6, <1>7, <1>8 DEF HandlerStep

LEMMA CountUser ==
  ASSUME TypeOK, CountCovers, UserStep
  PROVE  CountCovers'
<1>a. JobsOK /\ "queued" # "finished" /\ "updating" # "finished"
  BY DEF TypeOK, JobsOK
<1>b. UNCHANGED jobs => FinishedSorts' = FinishedSorts
  BY DEF FinishedSorts, At
<1>c. ASSUME NEW s, NEW kind, NEW stage, s \in Slots, stage # "finished",
             StartJob(s, kind, stage)
      PROVE  FinishedSorts' \subseteq FinishedSorts
  BY <1>c, <1>a, NewJobFinished DEF StartJob
<1>d. /\ unapplied \in Nat /\ Cardinality(FinishedSorts) \in Nat
      /\ Bit(sorting) \in {0, 1} /\ Bit(Editing) \in {0, 1}
  BY FinishedFinite DEF TypeOK, Bit
<1>1. ASSUME NEW s \in Slots, ChangeGame(s)
      PROVE  CountCovers'
  <2>1. PICK g \in Games :
          jobs' = [jobs EXCEPT ![s] = [NewJob("change", "queued") EXCEPT !.game = g]]
    BY <1>1 DEF ChangeGame
  <2>2. jobs'[s].stage = "queued" /\ \A t \in Slots \ {s} : jobs'[t] = jobs[t]
    BY <2>1, <1>a DEF JobsOK, NewJob
  <2>3. FinishedSorts' \subseteq FinishedSorts
    BY <2>2 DEF FinishedSorts, At
  <2>4. QED
    BY <1>1, <2>3, CountKept DEF ChangeGame, sortVars
<1>2. ASSUME NEW s \in Slots, Sort(s)
      PROVE  CountCovers'
  BY <1>2, <1>a, StartSortFinished, CountKept DEF Sort, sortVars
<1>3. ASSUME NEW s \in Slots, RefreshContent(s)
      PROVE  CountCovers'
  BY <1>3, <1>a, <1>c, CountKept DEF RefreshContent, sortVars
<1>4. ASSUME NEW s \in Slots, RestoreLoadOrder(s)
      PROVE  CountCovers'
  BY <1>4, <1>a, <1>c, CountKept DEF RestoreLoadOrder, sortVars
<1>5. ASSUME NEW s \in Slots, UpdateMasterlist(s)
      PROVE  CountCovers'
  BY <1>5, <1>a, <1>c, CountKept DEF UpdateMasterlist, sortVars
<1>6. ASSUME NEW s \in Slots, FilterByOverlap(s)
      PROVE  CountCovers'
  BY <1>6, <1>a, <1>c, CountKept DEF FilterByOverlap, sortVars
<1>7. CASE ApplySort
  <2>1. CASE ApplySucceeds(shown, unapplied, enabled)
    <3>1. Editing' = Editing
      BY <2>1, EditingControl DEF ApplySucceeds, Editing, Fix
    <3>2. unapplied' = unapplied - 1
      BY <1>7, <2>1, <1>d DEF ApplySort, ApplySucceeds, Decrement, CountCovers, Bit
    <3>3. sorting' = FALSE /\ Bit(sorting) = 1 /\ editor' = editor
      BY <1>7, <2>1 DEF ApplySort, ApplySucceeds, Bit
    <3>4. FinishedSorts' = FinishedSorts
      BY <1>7, <1>b DEF ApplySort
    <3>5. Bit(sorting') = 0 /\ Bit(Editing') = Bit(Editing)
      BY <3>1, <3>3 DEF Bit
    <3>6. QED
      BY <1>d, <3>1, <3>2, <3>3, <3>4, <3>5 DEF CountCovers
  <2>2. CASE NotApplied(unapplied, enabled) /\ UNCHANGED <<sorting, proposed>>
    BY <1>7, <2>2, <1>b, CountKept DEF ApplySort, NotApplied
  <2>3. QED
    BY <1>7, <2>1, <2>2 DEF ApplySort
<1>8. CASE DiscardSort
  <2>1. Editing' = Editing
    BY <1>8, EditingControl DEF DiscardSort, Editing
  <2>2. Bit(sorting) = 1 /\ sorting' = FALSE /\ editor' = editor
    BY <1>8 DEF DiscardSort, Bit
  <2>3. unapplied' = unapplied - 1
    <3>1. unapplied > 0
      BY <1>d, <2>2 DEF CountCovers
    <3>2. unapplied' = Decrement(unapplied)
      BY <1>8 DEF DiscardSort
    <3>3. QED
      BY <3>1, <3>2 DEF Decrement
  <2>4. FinishedSorts' = FinishedSorts
    BY <1>8, <1>b DEF DiscardSort
  <2>5. Bit(sorting') = 0 /\ Bit(Editing') = Bit(Editing)
    BY <2>1, <2>2 DEF Bit
  <2>6. QED
    BY <1>d, <2>1, <2>2, <2>3, <2>4, <2>5 DEF CountCovers
<1>9. CASE FixAmbiguousLoadOrder
  BY <1>9, <1>b, CountKept DEF FixAmbiguousLoadOrder, sortVars, Fix
<1>10. CASE EditMetadata
  <2>1. CASE shown.game = game
    <3>1. ~Editing /\ enabled' = EnterEditingState(enabled)
      BY <1>10, <2>1 DEF EditMetadata
    <3>2. Editing'
      BY <3>1 DEF EnterEditingState, EditingControls, Editing
    <3>3. Bit(Editing) = 0 /\ Bit(Editing') = 1
      BY <3>1, <3>2 DEF Bit
    <3>4. Bit(sorting') = Bit(sorting) /\ unapplied' = unapplied + 1
      BY <1>10, <2>1 DEF EditMetadata
    <3>5. FinishedSorts' = FinishedSorts
      BY <1>10, <1>b DEF EditMetadata
    <3>6. unapplied >= Bit(sorting) + Bit(Editing) + Cardinality(FinishedSorts)
      BY DEF CountCovers
    <3>7. unapplied' >= Bit(sorting') + Bit(Editing') + Cardinality(FinishedSorts')
      BY <1>d, <3>3, <3>4, <3>5, <3>6
    <3>8. QED
      BY <3>2, <3>7 DEF CountCovers
  <2>2. CASE shown.game # game
    BY <1>10, <2>2, <1>b, CountKept DEF EditMetadata
  <2>3. QED
    BY <2>1, <2>2
<1>11. ASSUME editor # NoGame, editor' = NoGame, CloseEditor, UNCHANGED <<sorting, jobs>>
       PROVE  CountCovers'
  <2>1. Bit(Editing) = 1 /\ Bit(Editing') = 0 /\ Bit(sorting') = Bit(sorting)
    BY <1>11 DEF CountCovers, CloseEditor, ExitEditingState, EditingControls,
       Editing, Bit
  <2>2. unapplied' = unapplied - 1
    BY <1>11, <1>d, <2>1 DEF CloseEditor, Decrement, CountCovers
  <2>3. QED
    BY <1>11, <1>b, <1>d, <2>1, <2>2 DEF CountCovers
<1>12. CASE AcceptEdits
  <2>1. CASE UNCHANGED <<unapplied, enabled>>
    <3>1. Editing' = Editing /\ Bit(Editing') = Bit(Editing)
          /\ Bit(sorting') = Bit(sorting)
      BY <1>12, <2>1 DEF AcceptEdits, Editing
    <3>2. QED
      BY <1>12, <2>1, <1>b, <1>d, <3>1 DEF AcceptEdits, CountCovers
  <2>2. QED
    BY <1>11, <1>12, <2>1 DEF AcceptEdits
<1>13. CASE RejectEdits
  BY <1>11, <1>13 DEF RejectEdits
<1>14. CASE Quit
  BY <1>14, <1>b, CountKept DEF Quit, sortVars
<1>15. QED
  BY <1>1, <1>2, <1>3, <1>4, <1>5, <1>6, <1>7, <1>8, <1>9, <1>10, <1>12, <1>13,
     <1>14 DEF UserStep

LEMMA CountNext == TypeOK /\ CountCovers /\ [Next]_vars => CountCovers'
<1> SUFFICES ASSUME TypeOK, CountCovers, [Next]_vars PROVE CountCovers'
  OBVIOUS
<1>1. ASSUME NEW s \in Slots, JobStep(s)
      PROVE  CountCovers'
  BY <1>1, CountWorker, CountHandler DEF JobStep
<1>2. CASE UserStep
  BY <1>2, CountUser
<1>3. CASE UNCHANGED vars
  <2>1. FinishedSorts' = FinishedSorts
    BY <1>3 DEF vars, FinishedSorts, At
  <2>2. QED
    BY <1>3, <2>1, CountKept DEF vars, sortVars
<1>4. QED
  BY <1>1, <1>2, <1>3 DEF Next

\* However sorts, their handlers and the user's actions interleave, the change
\* count covers the pending load order, the edits and every sort still to show.
THEOREM CountCorrect == Spec => []CountCovers
BY TypeInit, TypeNext, CountInit, CountNext, PTL DEF Spec

\* So closing the window always asks first while there is something to lose.
THEOREM PendingChangesAreCounted == Spec => []PendingChangesCounted
<1>1. TypeOK /\ CountCovers => PendingChangesCounted
  BY FinishedFinite DEF TypeOK, CountCovers, PendingChangesCounted, Bit
<1>2. QED
  BY <1>1, TypeCorrect, CountCorrect, PTL

-----------------------------------------------------------------------------
(* The progress dialog, for every user.                                    *)

\* A step that leaves a job in some slot keeps the dialog accounted for.
LEMMA SomeJobLeft ==
  ASSUME NEW s \in Slots, ~Free(s)'
  PROVE  ProgressMeansWork'
BY DEF ProgressMeansWork, Idle

\* Of a worker or handler step: it is a step of the job in its slot.
LEMMA StepHasJob ==
  ASSUME TypeOK, NEW s \in Slots, WorkerStep(s) \/ HandlerStep(s)
  PROVE  jobs[s] \in Job /\ ~Free(s)
<1>1. jobs[s].kind # "none"
  BY KindsFacts
     DEF WorkerStep, HandlerStep, At, SwitchGame, BeginJob, FinishQuery,
         FinishSort, FinishUpdate, HandleProgressUpdate, HandleError, Failed,
         HandleGameLoaded, HandleStartupGameDataLoaded,
         HandleMasterlistUpdated, HandleUpdateBeforeSort, Handled,
         HandlePluginsManualSorted, HandlePluginsAutoSorted, Kinds, LoadKinds,
         SortKinds
<1>2. jobs[s] # NoJob
  BY <1>1 DEF NoJob
<1>3. QED
  BY <1>2 DEF TypeOK, Free

\* Workers write one slot and leave a job of the same kind and game in it.
LEMMA WorkerWrites ==
  ASSUME TypeOK, NEW s \in Slots, WorkerStep(s)
  PROVE  /\ jobs'[s].kind = jobs[s].kind /\ jobs'[s].game = jobs[s].game
         /\ \A t \in Slots \ {s} : jobs'[t] = jobs[t]
         /\ ~Free(s)'
<1>1. jobs[s] \in Job /\ jobs \in [Slots -> Job \cup {NoJob}]
  BY StepHasJob DEF TypeOK
<1>2. \/ \E stage, posted : Advance(s, stage, posted)
      \/ \E r : Finish(s, r)
      \/ \E r : jobs' = [jobs EXCEPT ![s].stage = "updated", ![s].result = r]
  BY DEF WorkerStep, SwitchGame, BeginJob, FinishQuery, FinishSort, FinishUpdate
<1>3. /\ jobs'[s].kind = jobs[s].kind /\ jobs'[s].game = jobs[s].game
      /\ \A t \in Slots \ {s} : jobs'[t] = jobs[t]
  BY <1>1, <1>2 DEF Advance, Finish, Job
<1>4. ~Free(s)'
  BY <1>1, <1>3 DEF Free, NoJob, Job, Kinds, LoadKinds, SortKinds
<1>5. QED
  BY <1>3, <1>4

\* Handlers free their slot and close the dialog, or keep a job in the slot.
LEMMA HandlerWrites ==
  ASSUME TypeOK, NEW s \in Slots, HandlerStep(s)
  PROVE  /\ \A t \in Slots \ {s} : jobs'[t] = jobs[t]
         /\ (Free(s)' /\ progress' = FALSE) \/ ~Free(s)'
<1>1. jobs[s] \in Job /\ jobs \in [Slots -> Job \cup {NoJob}]
  BY StepHasJob DEF TypeOK
<1>2. \/ Release(s) /\ ResetProgress
      \/ StartSort(s, "autosort")
      \/ jobs' = [jobs EXCEPT ![s].posted = FALSE]
      \/ jobs' = [jobs EXCEPT ![s].stage = "queued", ![s].result = "none"]
  BY DEF HandlerStep, HandleProgressUpdate, HandleError, HandleGameLoaded,
         HandleStartupGameDataLoaded, HandleMasterlistUpdated,
         HandleUpdateBeforeSort, HandlePluginsManualSorted,
         HandlePluginsAutoSorted
<1>3. CASE Release(s) /\ ResetProgress
  BY <1>1, <1>3 DEF Release, ResetProgress, Free
<1>4. CASE StartSort(s, "autosort")
  <2>1. PICK stage : jobs' = [jobs EXCEPT ![s] = NewJob("autosort", stage)]
    BY <1>4 DEF StartSort
  <2>2. QED
    BY <1>1, <2>1 DEF NewJob, NoJob, Free
<1>5. CASE \/ jobs' = [jobs EXCEPT ![s].posted = FALSE]
           \/ jobs' = [jobs EXCEPT ![s].stage = "queued", ![s].result = "none"]
  BY <1>1, <1>5 DEF NoJob, Free, Job, Kinds, LoadKinds, SortKinds
<1>6. QED
  BY <1>2, <1>3, <1>4, <1>5

\* The user's actions start one job, or leave the jobs and the dialog alone.
LEMMA UserWrites ==
  ASSUME TypeOK, UserStep
  PROVE  \/ UNCHANGED <<jobs, progress>>
         \/ \E s \in Slots :
              /\ Free(s)
              /\ ~Free(s)'
              /\ \A t \in Slots \ {s} : jobs'[t] = jobs[t]
<1>a. jobs \in [Slots -> Job \cup {NoJob}]
  BY DEF TypeOK
<1>1. ASSUME NEW s \in Slots, Free(s), NEW kind \in Kinds, NEW stage,
             NEW g,
             \/ jobs' = [jobs EXCEPT ![s] = NewJob(kind, stage)]
             \/ jobs' = [jobs EXCEPT ![s] = [NewJob(kind, stage) EXCEPT !.game = g]]
      PROVE  ~Free(s)' /\ \A t \in Slots \ {s} : jobs'[t] = jobs[t]
  <2>1. jobs'[s].kind # "none" /\ \A t \in Slots \ {s} : jobs'[t] = jobs[t]
    BY <1>1, <1>a DEF NewJob, Kinds, LoadKinds, SortKinds
  <2>2. QED
    BY <2>1 DEF Free, NoJob
<1>2. ASSUME NEW s \in Slots, ChangeGame(s)
      PROVE  Free(s) /\ ~Free(s)' /\ \A t \in Slots \ {s} : jobs'[t] = jobs[t]
  BY <1>1, <1>2 DEF ChangeGame, Kinds, LoadKinds
<1>3. ASSUME NEW s \in Slots, Sort(s)
      PROVE  Free(s) /\ ~Free(s)' /\ \A t \in Slots \ {s} : jobs'[t] = jobs[t]
  <2>1. PICK stage : jobs' = [jobs EXCEPT ![s] = NewJob("sort", stage)]
    BY <1>3 DEF Sort, StartSort
  <2>2. QED
    BY <1>1, <1>3, <2>1 DEF Sort, Kinds, SortKinds
<1>4. ASSUME NEW s \in Slots,
             RefreshContent(s) \/ RestoreLoadOrder(s) \/ UpdateMasterlist(s)
               \/ FilterByOverlap(s)
      PROVE  Free(s) /\ ~Free(s)' /\ \A t \in Slots \ {s} : jobs'[t] = jobs[t]
  <2>1. PICK kind \in Kinds, stage \in Stages : StartJob(s, kind, stage)
    BY <1>4 DEF RefreshContent, RestoreLoadOrder, UpdateMasterlist,
                FilterByOverlap, Kinds, LoadKinds, Stages
  <2>2. QED
    BY <1>1, <2>1 DEF StartJob
<1>5. QED
  BY <1>2, <1>3, <1>4
     DEF UserStep, ApplySort, DiscardSort, FixAmbiguousLoadOrder, EditMetadata,
         AcceptEdits, RejectEdits, Quit

LEMMA ProgressNext == TypeOK /\ ProgressMeansWork /\ [Next]_vars => ProgressMeansWork'
<1> SUFFICES ASSUME TypeOK, ProgressMeansWork, [Next]_vars
             PROVE  ProgressMeansWork'
  OBVIOUS
<1>1. ASSUME NEW s \in Slots, JobStep(s)
      PROVE  ProgressMeansWork'
  BY <1>1, WorkerWrites, HandlerWrites, SomeJobLeft DEF JobStep, ProgressMeansWork
<1>2. CASE UserStep
  <2>1. CASE UNCHANGED <<jobs, progress>>
    BY <2>1 DEF ProgressMeansWork, Idle, Free
  <2>2. QED
    BY <1>2, <2>1, UserWrites, SomeJobLeft
<1>3. CASE UNCHANGED vars
  BY <1>3 DEF vars, ProgressMeansWork, Idle, Free
<1>4. QED
  BY <1>1, <1>2, <1>3 DEF Next

\* The modal progress dialog is open only while a job is in flight, whose
\* result or failure closes it: no interleaving of jobs leaves it behind.
THEOREM ProgressAlwaysMeansWork == Spec => []ProgressMeansWork
<1>1. Init => ProgressMeansWork
  BY DEF Init, ProgressMeansWork
<1>2. QED
  BY <1>1, ProgressNext, TypeCorrect, PTL DEF Spec

-----------------------------------------------------------------------------
(* The careful user.  At most one job is in flight, and none while a sorted  *)
(* load order or the editing state is pending; so a job's result meets the   *)
(* window as the job left it, and each property is a part of the invariant.  *)

OneJob == \A s, t \in Slots : ~Free(s) /\ ~Free(t) => s = t
IdleWhilePending == sorting \/ Editing => Idle

\* A job is for the current game, but for a change of game before its switch.
JobsMatchGame ==
  \A s \in Slots : ~Free(s) => (jobs[s].game # game <=> At(s, {"change"}, "queued"))

CountExact ==
  unapplied = Bit(sorting) + Bit(Editing) + Cardinality(FinishedSorts)

ControlsOff ==
  /\ ~(sorting /\ Editing)
  /\ sorting => SortingControls \cap enabled = {}
  /\ Editing => EditingControls \cap enabled = {}
  /\ editor # NoGame => Editing /\ editor = game

\* A sort is counted twice, so that discarding its order leaves it counted.
SortsCounted ==
  /\ sorting => sortCount[game] >= 2
  /\ \A s \in FinishedSorts : sortCount[jobs[s].game] >= 2

ProposalKept == sorting => shown = proposed /\ shown.game = game

CarefulInv ==
  /\ OneJob
  /\ IdleWhilePending
  /\ JobsMatchGame
  /\ CountExact
  /\ ControlsOff
  /\ SortsCounted
  /\ ProposalKept

LEMMA IdleCounts ==
  /\ Idle => FinishedSorts = {} /\ Cardinality(FinishedSorts) = 0
  /\ Idle' => FinishedSorts' = {} /\ Cardinality(FinishedSorts') = 0
<1>1. Idle => FinishedSorts = {}
  BY DEF Idle, Free, FinishedSorts, At, NoJob, SortKinds
<1>2. Idle' => FinishedSorts' = {}
  BY DEF Idle, Free, FinishedSorts, At, NoJob, SortKinds
<1>3. QED
  BY <1>1, <1>2, FS_EmptySet

\* A step that writes only the slot of the one job.
LEMMA OnlyJob ==
  ASSUME OneJob, NEW s \in Slots, ~Free(s),
         \A t \in Slots \ {s} : jobs'[t] = jobs[t]
  PROVE  /\ OneJob'
         /\ Free(s)' => Idle'
         /\ Cardinality(FinishedSorts) = Bit(s \in FinishedSorts)
         /\ Cardinality(FinishedSorts') = Bit((s \in FinishedSorts)')
         /\ FinishedSorts' \subseteq {s}
<1>1. \A t \in Slots \ {s} : Free(t) /\ Free(t)'
  BY DEF OneJob, Free
<1>2. OneJob' /\ (Free(s)' => Idle')
  BY <1>1 DEF OneJob, Idle
<1>3. FinishedSorts \subseteq {s} /\ FinishedSorts' \subseteq {s}
  BY <1>1 DEF FinishedSorts, At, Free, NoJob, SortKinds
<1>4. /\ s \in FinishedSorts => FinishedSorts = {s}
      /\ s \notin FinishedSorts => FinishedSorts = {}
      /\ (s \in FinishedSorts)' => FinishedSorts' = {s}
      /\ ~(s \in FinishedSorts)' => FinishedSorts' = {}
  BY <1>3
<1>5. Cardinality({s}) = 1 /\ Cardinality({}) = 0
  BY FS_EmptySet, FS_Singleton
<1>6. QED
  BY <1>2, <1>3, <1>4, <1>5 DEF Bit

\* While a job is in flight nothing is pending, and what a step does without
\* proposing an order or entering the editing state keeps it so.
LEMMA QuietKept ==
  ASSUME TypeOK, CarefulInv, NEW s \in Slots, ~Free(s),
         editor' = editor, sorting' = FALSE,
         "EditMetadata" \in enabled => "EditMetadata" \in enabled'
  PROVE  IdleWhilePending' /\ ControlsOff' /\ ProposalKept'
<1>1. ~sorting /\ ~Editing
  BY DEF CarefulInv, IdleWhilePending, Idle
<1>2. ~Editing' /\ editor' = NoGame
  BY <1>1 DEF Editing, CarefulInv, ControlsOff
<1>3. QED
  BY <1>2 DEF IdleWhilePending, ControlsOff, ProposalKept

\* What is left to show of a step of the one job that keeps the window quiet.
LEMMA QuietStep ==
  ASSUME TypeOK, TypeOK', CarefulInv, NEW s \in Slots, ~Free(s),
         \A t \in Slots \ {s} : jobs'[t] = jobs[t],
         editor' = editor, sorting' = FALSE,
         "EditMetadata" \in enabled => "EditMetadata" \in enabled',
         ~Free(s)' => (jobs'[s].game # game' <=> (At(s, {"change"}, "queued"))'),
         unapplied' + Bit(s \in FinishedSorts)
           = unapplied + Bit((s \in FinishedSorts)'),
         (s \in FinishedSorts)' => sortCount'[jobs'[s].game] >= 2
  PROVE  CarefulInv'
<1>1. OneJob' /\ IdleWhilePending' /\ ControlsOff' /\ ProposalKept'
  BY OnlyJob, QuietKept DEF CarefulInv
<1>2. JobsMatchGame'
  <2>1. \A t \in Slots \ {s} : Free(t)'
    BY DEF CarefulInv, OneJob, Free
  <2>2. QED
    BY <2>1 DEF JobsMatchGame
<1>3. CountExact'
  <2>1. Bit(sorting) = 0 /\ Bit(Editing) = 0 /\ ~Editing
    BY DEF CarefulInv, IdleWhilePending, Idle, Bit
  <2>2. Bit(sorting') = 0 /\ Bit(Editing') = 0
    BY <2>1 DEF Editing, Bit
  <2>3. unapplied = Bit(s \in FinishedSorts)
    BY <2>1, OnlyJob DEF CarefulInv, CountExact, Bit
  <2>4. unapplied' = Bit((s \in FinishedSorts)')
    <3>1. /\ Bit(s \in FinishedSorts) \in Nat
          /\ Bit((s \in FinishedSorts)') \in Nat
      BY DEF Bit
    <3>2. QED
      BY <2>3, <3>1 DEF TypeOK
  <2>5. QED
    BY <2>2, <2>4, OnlyJob DEF CarefulInv, CountExact, Bit
<1>4. SortsCounted'
  BY OnlyJob DEF CarefulInv, SortsCounted
<1>5. QED
  BY <1>1, <1>2, <1>3, <1>4 DEF CarefulInv

LEMMA CarefulWorker ==
  ASSUME TypeOK, TypeOK', CarefulInv, NEW s \in Slots, WorkerStep(s)
  PROVE  CarefulInv'
<1>1. jobs[s] \in Job /\ ~Free(s)
  BY StepHasJob
<1>2. /\ jobs'[s].kind = jobs[s].kind /\ jobs'[s].game = jobs[s].game
      /\ \A t \in Slots \ {s} : jobs'[t] = jobs[t]
      /\ ~Free(s)'
  BY WorkerWrites
<1>3. editor' = editor /\ enabled' = enabled /\ sorting' = sorting
  BY DEF WorkerStep, SwitchGame, BeginJob, FinishQuery, FinishSort,
         FinishUpdate, sortVars
<1>4. sorting = FALSE /\ (jobs[s].game # game <=> At(s, {"change"}, "queued"))
  BY <1>1 DEF CarefulInv, IdleWhilePending, Idle, JobsMatchGame, TypeOK
<1>5. s \notin FinishedSorts
  BY <1>1 DEF WorkerStep, SwitchGame, BeginJob, FinishQuery, FinishSort,
              FinishUpdate, FinishedSorts, At, SortKinds
<1>6. jobs \in [Slots -> Job \cup {NoJob}]
  BY DEF TypeOK
<1>7. CASE FinishSort(s)
  <2>1. game' = game /\ ~At(s, {"change"}, "queued")
    BY <1>7 DEF FinishSort, At, SortKinds
  <2>2. jobs'[s].stage = "finished"
    BY <1>1, <1>6, <1>7 DEF FinishSort, Finish, Job
  <2>3. jobs'[s].game = game' /\ ~(At(s, {"change"}, "queued"))'
    BY <1>2, <1>4, <2>1, <2>2 DEF At
  <2>4. CASE /\ \E o \in Orders : Finish(s, o)
             /\ CountSort(s)
             /\ unapplied' = unapplied + 1
    <3>1. (s \in FinishedSorts)'
      <4>1. jobs'[s].result \in Orders /\ jobs'[s].kind \in SortKinds
        BY <1>1, <1>2, <1>6, <1>7, <2>4 DEF FinishSort, At, Finish, Job
      <4>2. QED
        BY <2>2, <4>1 DEF FinishedSorts, At
    <3>2. sortCount'[jobs'[s].game] >= 2
      BY <1>1, <1>2, <2>4 DEF CountSort, TypeOK, Job
    <3>3. unapplied' + Bit(s \in FinishedSorts)
            = unapplied + Bit((s \in FinishedSorts)')
      BY <1>5, <2>4, <3>1 DEF Bit, TypeOK
    <3>4. QED
      BY <1>1, <1>2, <1>3, <1>4, <2>3, <3>2, <3>3, QuietStep
  <2>5. CASE /\ \E r \in {"failed", "failedSilently", "error"} : Finish(s, r)
             /\ unapplied' = unapplied
    <3>1. ~(s \in FinishedSorts)'
      <4>1. jobs'[s].result \notin Orders
        BY <1>1, <1>6, <2>5, OrdersAssumption DEF Finish, Job, Outcomes
      <4>2. QED
        BY <4>1 DEF FinishedSorts
    <3>2. unapplied' + Bit(s \in FinishedSorts)
            = unapplied + Bit((s \in FinishedSorts)')
      BY <1>5, <2>5, <3>1 DEF Bit, TypeOK
    <3>3. QED
      BY <1>1, <1>2, <1>3, <1>4, <2>3, <3>1, <3>2, QuietStep
  <2>6. QED
    BY <1>7, <2>4, <2>5 DEF FinishSort
<1>8. CASE ~FinishSort(s)
  <2>1. unapplied' = unapplied /\ ~(s \in FinishedSorts)'
    <3>1. unapplied' = unapplied
      BY <1>8 DEF WorkerStep, SwitchGame, BeginJob, FinishQuery, FinishUpdate,
                  sortVars
    <3>2. jobs[s].kind \notin SortKinds \/ jobs'[s].stage # "finished"
      BY <1>1, <1>6, <1>8
         DEF WorkerStep, SwitchGame, BeginJob, FinishQuery, FinishUpdate, At,
             Advance, LoadKinds, SortKinds, Job
    <3>3. QED
      BY <1>2, <3>1, <3>2 DEF FinishedSorts, At
  <2>2. jobs'[s].game = game' /\ ~(At(s, {"change"}, "queued"))'
    <3>1. CASE SwitchGame(s)
      <4>1. game' = jobs[s].game /\ jobs'[s].stage = "switched"
        BY <1>1, <1>6, <3>1 DEF SwitchGame, Advance, Job
      <4>2. QED
        BY <1>2, <4>1 DEF At
    <3>2. CASE ~SwitchGame(s)
      <4>1. game' = game /\ jobs'[s].stage # "queued" /\ ~At(s, {"change"}, "queued")
        BY <1>1, <1>6, <1>8, <3>2
           DEF WorkerStep, BeginJob, FinishQuery, FinishUpdate, Advance, Finish,
               At, LoadKinds, SortKinds, Job
      <4>2. QED
        BY <1>2, <1>4, <4>1 DEF At
    <3>3. QED
      BY <3>1, <3>2
  <2>3. unapplied' + Bit(s \in FinishedSorts)
          = unapplied + Bit((s \in FinishedSorts)')
    BY <1>5, <2>1
  <2>4. QED
    BY <1>1, <1>2, <1>3, <1>4, <2>1, <2>2, <2>3, QuietStep
<1>9. QED
  BY <1>7, <1>8

\* A handler that keeps the window quiet takes the job's result away.
LEMMA QuietRelease ==
  ASSUME TypeOK, TypeOK', CarefulInv, NEW s \in Slots, ~Free(s), Release(s),
         editor' = editor, sorting' = FALSE,
         "EditMetadata" \in enabled => "EditMetadata" \in enabled',
         unapplied' + Bit(s \in FinishedSorts) = unapplied
  PROVE  CarefulInv'
<1>1. /\ jobs \in [Slots -> Job \cup {NoJob}]
      /\ jobs' = [jobs EXCEPT ![s] = NoJob]
  BY DEF TypeOK, Release
<1>2. \A t \in Slots \ {s} : jobs'[t] = jobs[t]
  BY <1>1
<1>3. Free(s)' /\ ~(s \in FinishedSorts)'
  BY <1>1 DEF Free, FinishedSorts, At, NoJob, SortKinds
<1>4. unapplied' + Bit(s \in FinishedSorts)
        = unapplied + Bit((s \in FinishedSorts)')
  <2>1. Bit((s \in FinishedSorts)') = 0
    BY <1>3 DEF Bit
  <2>2. QED
    BY <2>1 DEF TypeOK
<1>5. QED
  BY <1>2, <1>3, <1>4, QuietStep

\* The result of a sort, when it is a new order, becomes the proposal.
LEMMA ProposalMade ==
  ASSUME TypeOK, TypeOK', CarefulInv, NEW s \in FinishedSorts, Release(s),
         editor' = editor, game' = game, sortCount' = sortCount,
         sorting' = TRUE, shown' = ItemsOf(s), proposed' = ItemsOf(s),
         enabled' = SortedControls(s), LoadOrderChanged(s),
         unapplied' = SortedCount(s)
  PROVE  CarefulInv'
<1>1. /\ s \in Slots
      /\ jobs[s].kind \in SortKinds
      /\ jobs[s] \in Job
      /\ ~Free(s)
  BY BusySlot, KindsFacts DEF FinishedSorts, At, TypeOK, JobsOK, Free, NoJob, SortKinds
<1>2. sorting = FALSE /\ ~Editing /\ jobs[s].game = game
  BY <1>1 DEF CarefulInv, IdleWhilePending, Idle, JobsMatchGame, At, TypeOK, SortKinds
<1>3. /\ jobs \in [Slots -> Job \cup {NoJob}]
      /\ jobs' = [jobs EXCEPT ![s] = NoJob]
  BY DEF TypeOK, Release
<1>4. Idle' /\ OneJob'
  <2>1. Free(s)' /\ \A t \in Slots \ {s} : jobs'[t] = jobs[t]
    BY <1>1, <1>3 DEF Free
  <2>2. QED
    BY <1>1, <2>1, OnlyJob DEF CarefulInv
<1>5. ~Editing' /\ SortingControls \cap enabled' = {}
  <2>1. SortingControls \cap GameControls = {}
    BY DEF SortingControls, GameControls
  <2>2. QED
    BY <1>2, <2>1, EditingControl
       DEF SortedControls, EnterSortingState, EnableGameActions, Editing
<1>6. IdleWhilePending' /\ JobsMatchGame'
  BY <1>4 DEF IdleWhilePending, JobsMatchGame, Idle
<1>7. ControlsOff' /\ ProposalKept'
  BY <1>2, <1>5 DEF CarefulInv, ControlsOff, ProposalKept, ItemsOf
<1>8. SortsCounted'
  BY <1>1, <1>2, <1>4, IdleCounts DEF CarefulInv, SortsCounted
<1>9. CountExact'
  <2>1. unapplied = 1
    <3>1. \A t \in Slots \ {s} : jobs'[t] = jobs[t]
      BY <1>3
    <3>2. Cardinality(FinishedSorts) = 1
      BY <1>1, <3>1, OnlyJob DEF CarefulInv, Bit
    <3>3. QED
      BY <1>2, <3>2 DEF CarefulInv, CountExact, Bit
  <2>2. unapplied' = 1
    BY <2>1 DEF SortedCount
  <2>3. QED
    BY <1>4, <1>5, <2>2, IdleCounts DEF CountExact, Bit
<1>10. QED
  BY <1>4, <1>6, <1>7, <1>8, <1>9 DEF CarefulInv

\* What an unchanged or applied order leaves of the count.
LEMMA SortTaken ==
  ASSUME TypeOK, CarefulInv, NEW s \in FinishedSorts
  PROVE  Decrement(unapplied) + Bit(s \in FinishedSorts) = unapplied
<1>1. /\ s \in Slots /\ ~Free(s)
      /\ IsFiniteSet(FinishedSorts) /\ Cardinality(FinishedSorts) # 0
  BY FinishedFinite, FS_EmptySet DEF FinishedSorts, At, Free, NoJob, SortKinds
<1>2. unapplied >= 1 /\ unapplied \in Nat
  BY <1>1, FinishedFinite DEF CarefulInv, CountExact, Bit, TypeOK
<1>3. QED
  BY <1>2 DEF Decrement, Bit

LEMMA CarefulHandler ==
  ASSUME TypeOK, TypeOK', CarefulInv, NEW s \in Slots, HandlerStep(s)
  PROVE  CarefulInv'
<1>1. /\ jobs[s] \in Job /\ ~Free(s)
      /\ jobs \in [Slots -> Job \cup {NoJob}]
  BY StepHasJob DEF TypeOK
<1>2. /\ sorting = FALSE /\ ~Editing
      /\ jobs[s].game # game <=> At(s, {"change"}, "queued")
  BY <1>1 DEF CarefulInv, IdleWhilePending, Idle, JobsMatchGame, TypeOK
<1>3. \A t \in Slots \ {s} : jobs'[t] = jobs[t]
  BY HandlerWrites
<1>4. ASSUME NEW kinds, NEW results, Handled(s, kinds, results),
             kinds \cap SortKinds = {} \/ results \cap Orders = {}
      PROVE  s \notin FinishedSorts
  BY <1>4 DEF Handled, At, FinishedSorts
<1>5. "error" \notin Orders /\ "failed" \notin Orders /\ "failedSilently" \notin Orders
  BY OrdersAssumption DEF Outcomes
<1>6. ASSUME s \notin FinishedSorts, unapplied' = unapplied
      PROVE  unapplied' + Bit(s \in FinishedSorts) = unapplied
  BY <1>6 DEF Bit, TypeOK
<1>7. ASSUME ShowGameData(s) \/ MasterlistUpdated(s)
      PROVE  "EditMetadata" \in enabled => "EditMetadata" \in enabled'
  BY <1>7, EditingControl DEF ShowGameData, MasterlistUpdated
<1>8. CASE HandleProgressUpdate(s)
  <2>1. /\ jobs'[s].kind = jobs[s].kind /\ jobs'[s].stage = jobs[s].stage
        /\ jobs'[s].result = jobs[s].result /\ jobs'[s].game = jobs[s].game
    BY <1>1, <1>8 DEF HandleProgressUpdate, Job
  <2>2. (s \in FinishedSorts)' <=> s \in FinishedSorts
    BY <2>1 DEF FinishedSorts, At
  <2>3. unapplied' + Bit(s \in FinishedSorts)
          = unapplied + Bit((s \in FinishedSorts)')
    BY <1>8, <2>2 DEF HandleProgressUpdate, sortVars, Bit, TypeOK
  <2>4. (s \in FinishedSorts)' => sortCount'[jobs'[s].game] >= 2
    BY <1>8, <2>1, <2>2 DEF HandleProgressUpdate, gameVars, CarefulInv, SortsCounted
  <2>5. jobs'[s].game # game' <=> (At(s, {"change"}, "queued"))'
    BY <1>2, <1>8, <2>1 DEF HandleProgressUpdate, At
  <2>6. QED
    BY <1>1, <1>2, <1>3, <1>8, <2>3, <2>4, <2>5, QuietStep
       DEF HandleProgressUpdate, sortVars
<1>9. CASE HandleError(s)
  <2>1. s \notin FinishedSorts
    BY <1>4, <1>5, <1>9 DEF HandleError, Failed
  <2>2. QED
    BY <1>1, <1>2, <1>6, <1>9, <2>1, QuietRelease DEF HandleError, sortVars
<1>10. CASE HandleGameLoaded(s)
  <2>1. s \notin FinishedSorts
    BY <1>4, <1>10 DEF HandleGameLoaded, SortKinds
  <2>2. QED
    BY <1>1, <1>2, <1>6, <1>7, <1>10, <2>1, QuietRelease
       DEF HandleGameLoaded, sortVars
<1>11. CASE HandleStartupGameDataLoaded(s)
  <2>1. s \notin FinishedSorts
    BY <1>4, <1>11 DEF HandleStartupGameDataLoaded, SortKinds
  <2>2. CASE Release(s)
    BY <1>1, <1>2, <1>6, <1>7, <1>11, <2>1, <2>2, QuietRelease
       DEF HandleStartupGameDataLoaded, sortVars
  <2>3. CASE StartSort(s, "autosort")
    <3>1. PICK stage \in {"updating", "queued"} :
            jobs' = [jobs EXCEPT ![s] = NewJob("autosort", stage)]
      BY <2>3 DEF StartSort
    <3>2. jobs'[s].game = game' /\ ~(At(s, {"change"}, "queued"))'
      BY <1>1, <1>11, <3>1 DEF HandleStartupGameDataLoaded, NewJob, At
    <3>3. ~(s \in FinishedSorts)'
      BY <1>1, <3>1 DEF NewJob, FinishedSorts, At
    <3>4. unapplied' + Bit(s \in FinishedSorts)
            = unapplied + Bit((s \in FinishedSorts)')
      BY <1>11, <2>1, <3>3 DEF HandleStartupGameDataLoaded, sortVars
    <3>5. QED
      BY <1>1, <1>2, <1>3, <1>7, <1>11, <3>2, <3>3, <3>4, QuietStep
         DEF HandleStartupGameDataLoaded, sortVars
  <2>4. QED
    BY <1>11, <2>2, <2>3 DEF HandleStartupGameDataLoaded
<1>12. CASE HandleMasterlistUpdated(s)
  <2>1. s \notin FinishedSorts
    BY <1>4, <1>12 DEF HandleMasterlistUpdated, SortKinds
  <2>2. QED
    BY <1>1, <1>2, <1>6, <1>7, <1>12, <2>1, QuietRelease
       DEF HandleMasterlistUpdated, sortVars
<1>13. CASE HandleUpdateBeforeSort(s)
  <2>1. /\ jobs'[s].kind = jobs[s].kind /\ jobs'[s].stage = "queued"
        /\ jobs'[s].game = jobs[s].game
    BY <1>1, <1>13 DEF HandleUpdateBeforeSort, Job
  <2>2. s \notin FinishedSorts /\ ~(s \in FinishedSorts)'
    BY <1>13, <2>1 DEF HandleUpdateBeforeSort, FinishedSorts, At
  <2>3. jobs'[s].game = game' /\ ~(At(s, {"change"}, "queued"))'
    BY <1>2, <1>13, <2>1 DEF HandleUpdateBeforeSort, At, SortKinds
  <2>4. unapplied' + Bit(s \in FinishedSorts)
          = unapplied + Bit((s \in FinishedSorts)')
    BY <1>13, <2>2 DEF HandleUpdateBeforeSort, sortVars
  <2>5. QED
    BY <1>1, <1>2, <1>3, <1>7, <1>13, <2>2, <2>3, <2>4, QuietStep
       DEF HandleUpdateBeforeSort, sortVars
<1>14. CASE HandlePluginsManualSorted(s)
  <2>1. CASE Handled(s, {"sort"}, Orders)
    <3>1. s \in FinishedSorts
      BY <2>1 DEF Handled, At, FinishedSorts, SortKinds
    <3>2. jobs[s].result \notin {"failed", "failedSilently"}
      BY <1>5, <2>1 DEF Handled
    <3>3. CASE LoadOrderChanged(s)
      BY <1>14, <2>1, <3>1, <3>2, <3>3, ProposalMade
         DEF HandlePluginsManualSorted, Handled, SortedItems, gameVars
    <3>4. CASE ~LoadOrderChanged(s)
      <4>1. /\ unapplied' = Decrement(unapplied) /\ sorting' = sorting
            /\ enabled' = CheckForAmbiguousLoadOrder(EnableGameActions(enabled))
        BY <1>14, <3>2, <3>4
           DEF HandlePluginsManualSorted, Handled, SortedCount, SortedControls
      <4>2. "EditMetadata" \in enabled => "EditMetadata" \in enabled'
        BY <4>1, EditingControl
      <4>3. QED
        BY <1>1, <1>2, <1>14, <3>1, <4>1, <4>2, SortTaken, QuietRelease
           DEF HandlePluginsManualSorted
    <3>5. QED
      BY <3>3, <3>4
  <2>2. CASE Handled(s, {"sort"}, {"failed", "failedSilently"})
    <3>1. s \notin FinishedSorts
      BY <1>4, <1>5, <2>2
    <3>2. /\ unapplied' = unapplied /\ sorting' = sorting
          /\ enabled' = CheckForAmbiguousLoadOrder(enabled)
      BY <1>5, <1>14, <2>2 DEF HandlePluginsManualSorted, Handled, sortVars
    <3>3. "EditMetadata" \in enabled => "EditMetadata" \in enabled'
      BY <3>2, EditingControl
    <3>4. QED
      BY <1>1, <1>2, <1>6, <1>14, <3>1, <3>2, <3>3, QuietRelease
         DEF HandlePluginsManualSorted
  <2>3. QED
    BY <1>14, <2>1, <2>2 DEF HandlePluginsManualSorted
<1>15. CASE HandlePluginsAutoSorted(s)
  <2>1. Handled(s, {"autosort"}, Orders \cup {"failed", "failedSilently"})
    BY <1>15 DEF HandlePluginsAutoSorted
  <2>2. CASE jobs[s].result \in Orders
    <3>1. s \in FinishedSorts
      BY <2>1, <2>2 DEF Handled, At, FinishedSorts, SortKinds
    <3>2. /\ shown' = SortedItems(s)
          /\ \/ /\ LoadOrderChanged(s)
                /\ ApplySucceeds(SortedItems(s), SortedCount(s), SortedControls(s))
             \/ /\ NotApplied(SortedCount(s), SortedControls(s))
                /\ sorting' = LoadOrderChanged(s)
                /\ LoadOrderChanged(s) => proposed' = ItemsOf(s)
      BY <1>2, <1>15, <2>2 DEF HandlePluginsAutoSorted, LoadOrderChanged
    <3>3. CASE /\ LoadOrderChanged(s)
               /\ ApplySucceeds(SortedItems(s), SortedCount(s), SortedControls(s))
      <4>1. /\ unapplied' = Decrement(unapplied) /\ sorting' = FALSE
            /\ \E a : enabled' = ExitSortingState(SortedControls(s)) \cup {c \in {Fix} : a}
        BY <3>3 DEF ApplySucceeds, SortedCount
      <4>2. "EditMetadata" \in enabled => "EditMetadata" \in enabled'
        BY <4>1, EditingControl DEF SortedControls
      <4>3. QED
        BY <1>1, <1>15, <3>1, <4>1, <4>2, SortTaken, QuietRelease
           DEF HandlePluginsAutoSorted
    <3>4. CASE /\ LoadOrderChanged(s)
               /\ NotApplied(SortedCount(s), SortedControls(s))
               /\ sorting' = TRUE
               /\ proposed' = ItemsOf(s)
      BY <1>15, <3>1, <3>2, <3>4, ProposalMade
         DEF HandlePluginsAutoSorted, NotApplied, SortedItems
    <3>5. CASE /\ ~LoadOrderChanged(s)
               /\ NotApplied(SortedCount(s), SortedControls(s))
               /\ sorting' = FALSE
      <4>1. /\ unapplied' = Decrement(unapplied)
            /\ enabled' = EnableGameActions(enabled)
        BY <3>5 DEF NotApplied, SortedCount, SortedControls
      <4>2. "EditMetadata" \in enabled => "EditMetadata" \in enabled'
        BY <4>1, EditingControl
      <4>3. QED
        BY <1>1, <1>15, <3>1, <3>5, <4>1, <4>2, SortTaken, QuietRelease
           DEF HandlePluginsAutoSorted
    <3>6. QED
      BY <3>2, <3>3, <3>4, <3>5 DEF LoadOrderChanged
  <2>3. CASE jobs[s].result \notin Orders
    <3>1. s \notin FinishedSorts
      BY <2>3 DEF FinishedSorts
    <3>2. unapplied' = unapplied /\ enabled' = enabled /\ sorting' = FALSE
      BY <1>2, <1>15, <2>3 DEF HandlePluginsAutoSorted, NotApplied
    <3>3. QED
      BY <1>1, <1>6, <1>15, <3>1, <3>2, QuietRelease DEF HandlePluginsAutoSorted
  <2>4. QED
    BY <2>2, <2>3
<1>16. QED
  BY <1>8, <1>9, <1>10, <1>11, <1>12, <1>13, <1>14, <1>15 DEF HandlerStep

\* What the careful user does not do, and what the controls prevent.
LEMMA MayFacts ==
  ASSUME CarefulUser, TypeOK, CarefulInv, NEW act, May(act)
  PROVE  /\ Idle
         /\ act \in {"FilterByOverlap", "RestoreLoadOrder"} => ~sorting /\ ~Editing
         /\ act = "EditMetadata" => ~sorting
<1>1. Idle
  BY DEF May, CarefulUser, Idle
<1>2. /\ act \in UserActs[Mode]
      /\ sorting => Mode = "sorting"
      /\ ~sorting /\ Editing => Mode = "editing"
  BY DEF May, Mode
<1>3. QED
  BY <1>1, <1>2 DEF CarefulUser

LEMMA ControlsFree ==
  ASSUME CarefulInv
  PROVE  /\ enabled \cap SortingControls # {} => ~sorting /\ ~Editing
         /\ enabled \cap EditingControls # {} => ~Editing
BY DEF CarefulInv, ControlsOff, EditingControls

\* The user starts a job when nothing is pending.
LEMMA JobStarted ==
  ASSUME TypeOK, CarefulInv, Idle, ~sorting, ~Editing,
         NEW s \in Slots, NEW j \in Job, jobs' = [jobs EXCEPT ![s] = j],
         j.stage # "finished",
         j.game # game <=> j.kind = "change" /\ j.stage = "queued",
         UNCHANGED <<game, unapplied, sorting, editor, enabled>>
  PROVE  CarefulInv'
<1>1. jobs'[s] = j /\ \A t \in Slots \ {s} : Free(t)'
  BY DEF TypeOK, Idle, Free
<1>2. OneJob' /\ JobsMatchGame'
  BY <1>1 DEF OneJob, JobsMatchGame, At
<1>3. ~Editing' /\ sorting' = sorting
  BY DEF Editing
<1>4. editor' = NoGame
  BY DEF CarefulInv, ControlsOff
<1>5. IdleWhilePending' /\ ControlsOff' /\ ProposalKept'
  BY <1>3, <1>4 DEF IdleWhilePending, ControlsOff, ProposalKept
<1>6. FinishedSorts' = {}
  <2>1. \A t \in Slots : ~(jobs'[t].kind \in SortKinds /\ jobs'[t].stage = "finished")
    BY <1>1 DEF Free, NoJob, SortKinds
  <2>2. QED
    BY <2>1 DEF FinishedSorts, At
<1>7. CountExact'
  BY <1>3, <1>6, IdleCounts, FS_EmptySet DEF CarefulInv, CountExact, Bit
<1>8. SortsCounted'
  BY <1>3, <1>6 DEF SortsCounted
<1>9. QED
  BY <1>2, <1>5, <1>7, <1>8 DEF CarefulInv

\* The user does something else while no job is in flight.
LEMMA IdleKept ==
  ASSUME TypeOK, CarefulInv, Idle, UNCHANGED <<game, jobs>>,
         unapplied' = Bit(sorting') + Bit(Editing'),
         ControlsOff', ProposalKept', sorting' => sortCount'[game] >= 2
  PROVE  CarefulInv'
<1>1. Idle' /\ FinishedSorts' = {} /\ Cardinality(FinishedSorts') = 0
  BY IdleCounts DEF Idle, Free
<1>2. OneJob' /\ IdleWhilePending' /\ JobsMatchGame'
  BY <1>1 DEF Idle, OneJob, IdleWhilePending, JobsMatchGame
<1>3. CountExact'
  BY <1>1 DEF CountExact, Bit
<1>4. SortsCounted'
  BY <1>1 DEF SortsCounted
<1>5. QED
  BY <1>2, <1>3, <1>4 DEF CarefulInv

LEMMA CarefulStart ==
  ASSUME CarefulUser, TypeOK, TypeOK', CarefulInv, NEW s \in Slots,
         \/ ChangeGame(s)
         \/ Sort(s)
         \/ RefreshContent(s)
         \/ RestoreLoadOrder(s)
         \/ UpdateMasterlist(s)
         \/ FilterByOverlap(s)
  PROVE  CarefulInv'
<1>1. CASE ChangeGame(s)
  <2>1. PICK g \in Games \ {game} :
          jobs' = [jobs EXCEPT ![s] = [NewJob("change", "queued") EXCEPT !.game = g]]
    BY <1>1 DEF ChangeGame
  <2> DEFINE j == [NewJob("change", "queued") EXCEPT !.game = g]
  <2>2. /\ j \in Job /\ j.stage = "queued" /\ j.kind = "change" /\ j.game = g
    BY DEF NewJob, Job, Stages, Outcomes, Kinds, LoadKinds
  <2>3. Idle /\ ~sorting /\ ~Editing
    BY <1>1, MayFacts, ControlsFree DEF ChangeGame, SortingControls
  <2> HIDE DEF j
  <2>4. QED
    BY <1>1, <2>1, <2>2, <2>3, JobStarted DEF j, ChangeGame, sortVars
<1>2. ASSUME NEW kind \in Kinds, NEW stage \in {"queued", "updating"},
             kind # "change", jobs' = [jobs EXCEPT ![s] = NewJob(kind, stage)]
      PROVE  \E j \in Job :
               /\ jobs' = [jobs EXCEPT ![s] = j]
               /\ j.stage # "finished"
               /\ j.game # game <=> j.kind = "change" /\ j.stage = "queued"
  <2>1. /\ NewJob(kind, stage).stage = stage
        /\ NewJob(kind, stage).kind = kind
        /\ NewJob(kind, stage).game = game
    BY DEF NewJob
  <2>2. NewJob(kind, stage) \in Job
    BY NewJobType DEF TypeOK, Stages
  <2>3. QED
    BY <1>2, <2>1, <2>2
<1>3. CASE Sort(s)
  <2>1. PICK stage \in {"queued", "updating"} :
          jobs' = [jobs EXCEPT ![s] = NewJob("sort", stage)]
    BY <1>3 DEF Sort, StartSort
  <2>2. Idle /\ ~sorting /\ ~Editing
    BY <1>3, MayFacts, ControlsFree DEF Sort, EditingControls
  <2>3. QED
    BY <1>2, <1>3, <2>1, <2>2, JobStarted DEF Sort, sortVars, Kinds, SortKinds
<1>4. CASE RefreshContent(s) \/ RestoreLoadOrder(s) \/ UpdateMasterlist(s)
             \/ FilterByOverlap(s)
  <2>1. PICK kind \in Kinds \ {"change"}, stage \in {"queued", "updating"} :
          StartJob(s, kind, stage)
    BY <1>4 DEF RefreshContent, RestoreLoadOrder, UpdateMasterlist,
                FilterByOverlap, Kinds, LoadKinds
  <2>2. Idle /\ ~sorting /\ ~Editing
    <3>1. CASE RefreshContent(s)
      BY <3>1, MayFacts, ControlsFree DEF RefreshContent, SortingControls
    <3>2. CASE RestoreLoadOrder(s)
      BY <3>2, MayFacts DEF RestoreLoadOrder
    <3>3. CASE UpdateMasterlist(s)
      <4>1. "UpdateMasterlists" \in SortingControls /\ "UpdateMasterlist" \in EditingControls
        BY DEF SortingControls, EditingControls
      <4>2. QED
        BY <3>3, <4>1, MayFacts, ControlsFree DEF UpdateMasterlist
    <3>4. CASE FilterByOverlap(s)
      BY <3>4, MayFacts DEF FilterByOverlap
    <3>5. QED
      BY <1>4, <3>1, <3>2, <3>3, <3>4
  <2>3. UNCHANGED <<game, unapplied, sorting, editor, enabled>>
    BY <1>4 DEF RefreshContent, RestoreLoadOrder, UpdateMasterlist,
                FilterByOverlap, sortVars
  <2>4. QED
    BY <1>2, <2>1, <2>2, <2>3, JobStarted DEF StartJob
<1>5. QED
  BY <1>1, <1>3, <1>4

\* The controls, the editor and the proposal are left alone.
LEMMA IdleSame ==
  ASSUME TypeOK, CarefulInv, Idle,
         UNCHANGED <<game, jobs, sortCount, unapplied, sorting, proposed, shown,
                     editor>>,
         enabled' \subseteq enabled, enabled \subseteq enabled' \cup {Fix}
  PROVE  CarefulInv'
<1>1. Editing' = Editing
  BY DEF Editing, Fix
<1>2. ControlsOff'
  BY <1>1 DEF CarefulInv, ControlsOff
<1>3. ProposalKept' /\ (sorting' => sortCount'[game] >= 2)
  BY DEF CarefulInv, ProposalKept, SortsCounted
<1>4. unapplied' = Bit(sorting') + Bit(Editing')
  BY <1>1, IdleCounts DEF CarefulInv, CountExact, Bit
<1>5. QED
  BY <1>2, <1>3, <1>4, IdleKept

\* The pending order is applied or discarded.
LEMMA ProposalTaken ==
  ASSUME TypeOK, CarefulInv, Idle, sorting, UNCHANGED <<game, jobs, editor>>,
         unapplied' = Decrement(unapplied), sorting' = FALSE,
         "EditMetadata" \in enabled => "EditMetadata" \in enabled'
  PROVE  CarefulInv'
<1>1. ~Editing /\ editor = NoGame /\ unapplied = 1
  BY IdleCounts DEF CarefulInv, ControlsOff, CountExact, Bit
<1>2. ~Editing' /\ unapplied' = 0
  BY <1>1 DEF Editing, Decrement
<1>3. ControlsOff' /\ ProposalKept'
  BY <1>1, <1>2 DEF ControlsOff, ProposalKept
<1>4. QED
  BY <1>2, <1>3, IdleKept DEF Bit

\* The editing state is left.
LEMMA EditorClosed ==
  ASSUME TypeOK, CarefulInv, Idle, Editing, editor' = NoGame, CloseEditor,
         UNCHANGED <<game, jobs, sorting>>
  PROVE  CarefulInv'
<1>1. sorting = FALSE /\ unapplied = 1
  BY IdleCounts DEF CarefulInv, ControlsOff, CountExact, Bit, TypeOK
<1>2. ~Editing'
  BY DEF CloseEditor, ExitEditingState, EditingControls, Editing
<1>3. unapplied' = 0
  BY <1>1 DEF CloseEditor, Decrement
<1>4. ControlsOff' /\ ProposalKept'
  BY <1>1, <1>2 DEF ControlsOff, ProposalKept
<1>5. QED
  BY <1>1, <1>2, <1>3, <1>4, IdleKept DEF Bit

LEMMA CarefulOther ==
  ASSUME CarefulUser, TypeOK, TypeOK', CarefulInv,
         \/ ApplySort
         \/ DiscardSort
         \/ FixAmbiguousLoadOrder
         \/ EditMetadata
         \/ AcceptEdits
         \/ RejectEdits
         \/ Quit
  PROVE  CarefulInv'
<1>1. Idle
  BY MayFacts DEF ApplySort, DiscardSort, FixAmbiguousLoadOrder, EditMetadata,
                  AcceptEdits, RejectEdits, Quit
<1>2. CASE ApplySort
  <2>1. CASE ApplySucceeds(shown, unapplied, enabled)
    <3>1. "EditMetadata" \in enabled => "EditMetadata" \in enabled'
      BY <2>1, EditingControl DEF ApplySucceeds
    <3>2. QED
      BY <1>1, <1>2, <2>1, <3>1, ProposalTaken DEF ApplySort, ApplySucceeds
  <2>2. CASE NotApplied(unapplied, enabled) /\ UNCHANGED <<sorting, proposed>>
    BY <1>1, <1>2, <2>2, IdleSame DEF ApplySort, NotApplied
  <2>3. QED
    BY <1>2, <2>1, <2>2 DEF ApplySort
<1>3. CASE DiscardSort
  <2>1. "EditMetadata" \in enabled => "EditMetadata" \in enabled'
    BY <1>3, EditingControl DEF DiscardSort
  <2>2. QED
    BY <1>1, <1>3, <2>1, ProposalTaken DEF DiscardSort
<1>4. CASE FixAmbiguousLoadOrder
  BY <1>1, <1>4, IdleSame DEF FixAmbiguousLoadOrder, sortVars
<1>5. CASE EditMetadata
  <2>1. ~sorting /\ ~Editing
    BY <1>5, MayFacts DEF EditMetadata
  <2>2. CASE /\ editor' = game
             /\ unapplied' = unapplied + 1
             /\ enabled' = EnterEditingState(enabled)
    <3>1. Editing' /\ EditingControls \cap enabled' = {}
      BY <2>2 DEF EnterEditingState, EditingControls, Editing
    <3>2. sorting' = sorting /\ game' = game /\ jobs' = jobs
      BY <1>5 DEF EditMetadata
    <3>3. ControlsOff' /\ ProposalKept'
      BY <2>1, <2>2, <3>1, <3>2 DEF ControlsOff, ProposalKept
    <3>4. unapplied = 0
      BY <1>1, <2>1, IdleCounts DEF CarefulInv, CountExact, Bit
    <3>5. unapplied' = Bit(sorting') + Bit(Editing')
      BY <2>1, <2>2, <3>1, <3>2, <3>4 DEF Bit
    <3>6. QED
      BY <1>1, <2>1, <3>2, <3>3, <3>5, IdleKept
  <2>3. CASE UNCHANGED <<editor, unapplied, enabled>>
    BY <1>1, <1>5, <2>3, IdleSame DEF EditMetadata, gameVars
  <2>4. QED
    BY <1>5, <2>2, <2>3 DEF EditMetadata
<1>6. CASE AcceptEdits
  <2>1. Editing /\ editor' = NoGame /\ ~sorting
    BY <1>6 DEF AcceptEdits, CarefulInv, ControlsOff
  <2>2. CASE CloseEditor
    BY <1>1, <1>6, <2>1, <2>2, EditorClosed DEF AcceptEdits
  <2>3. CASE UNCHANGED <<unapplied, enabled>>
    <3>1. Editing' = Editing /\ sorting' = sorting /\ UNCHANGED <<game, jobs>>
      BY <1>6, <2>3 DEF AcceptEdits, Editing
    <3>2. ControlsOff' /\ ProposalKept'
      BY <2>1, <2>3, <3>1 DEF CarefulInv, ControlsOff, ProposalKept
    <3>3. unapplied' = Bit(sorting') + Bit(Editing')
      BY <1>1, <2>3, <3>1, IdleCounts DEF CarefulInv, CountExact, Bit
    <3>4. QED
      BY <1>1, <2>1, <3>1, <3>2, <3>3, IdleKept
  <2>4. QED
    BY <1>6, <2>2, <2>3 DEF AcceptEdits
<1>7. CASE RejectEdits
  <2>1. Editing /\ editor' = NoGame
    BY <1>7 DEF RejectEdits, CarefulInv, ControlsOff
  <2>2. QED
    BY <1>1, <1>7, <2>1, EditorClosed DEF RejectEdits
<1>8. CASE Quit
  BY <1>1, <1>8, IdleSame DEF Quit, gameVars, sortVars
<1>9. QED
  BY <1>2, <1>3, <1>4, <1>5, <1>6, <1>7, <1>8

LEMMA CarefulInit == Init => CarefulInv
<1> SUFFICES ASSUME Init PROVE CarefulInv
  OBVIOUS
<1>1. PICK s \in Slots :
        jobs = [t \in Slots |-> IF t = s THEN NewJob("startup", "queued") ELSE NoJob]
  BY DEF Init
<1>2. OneJob /\ JobsMatchGame
  BY <1>1 DEF OneJob, JobsMatchGame, Free, At, NewJob
<1>3. FinishedSorts = {}
  BY <1>1 DEF FinishedSorts, At, NewJob, NoJob, SortKinds
<1>4. ~sorting /\ ~Editing /\ editor = NoGame /\ unapplied = 0
  BY DEF Init, Editing, Controls, EditingControls, GameControls
<1>5. CountExact /\ SortsCounted
  BY <1>3, <1>4, FS_EmptySet DEF CountExact, SortsCounted, Bit
<1>6. IdleWhilePending /\ ControlsOff /\ ProposalKept
  BY <1>4 DEF IdleWhilePending, ControlsOff, ProposalKept
<1>7. QED
  BY <1>2, <1>5, <1>6 DEF CarefulInv

LEMMA CarefulNext ==
  ASSUME CarefulUser
  PROVE  TypeOK /\ CarefulInv /\ [Next]_vars => CarefulInv'
<1> SUFFICES ASSUME TypeOK, CarefulInv, [Next]_vars PROVE CarefulInv'
  OBVIOUS
<1>1. TypeOK'
  BY TypeNext
<1>2. ASSUME NEW s \in Slots, JobStep(s)
      PROVE  CarefulInv'
  BY <1>1, <1>2, CarefulWorker, CarefulHandler DEF JobStep
<1>3. CASE UserStep
  BY <1>1, <1>3, CarefulStart, CarefulOther DEF UserStep
<1>4. CASE UNCHANGED vars
  BY <1>4
     DEF vars, sortVars, gameVars, CarefulInv, OneJob, IdleWhilePending,
         JobsMatchGame, CountExact, ControlsOff, SortsCounted, ProposalKept,
         Idle, Free, At, FinishedSorts, Editing, Bit
<1>5. QED
  BY <1>2, <1>3, <1>4 DEF Next

LEMMA CarefulCorrect ==
  ASSUME CarefulUser
  PROVE  Spec => []CarefulInv
BY CarefulInit, CarefulNext, TypeCorrect, PTL DEF Spec

\* Whenever no job is in flight the change count is exactly what the user has
\* pending, so that closing the window asks about nothing else.
THEOREM CountIsAlwaysExact ==
  ASSUME CarefulUser
  PROVE  Spec => []CountIsExact
<1>1. CarefulInv => CountIsExact
  <2>1. Bit(sorting) \in Nat /\ Bit(Editing) \in Nat
    BY DEF Bit
  <2>2. QED
    BY <2>1, IdleCounts DEF CarefulInv, CountExact, CountIsExact
<1>2. QED
  BY <1>1, CarefulCorrect, PTL

\* What the documentation calls disabled while a sorted load order is pending
\* or the editor is open stays disabled: no handler re-enables it.
THEOREM FeaturesStayDisabled ==
  ASSUME CarefulUser
  PROVE  Spec => []FeaturesDisabledWhilePending
<1>1. CarefulInv => FeaturesDisabledWhilePending
  BY DEF CarefulInv, ControlsOff, FeaturesDisabledWhilePending
<1>2. QED
  BY <1>1, CarefulCorrect, PTL

\* The order that the Apply button would set is the one last proposed.
THEOREM ProposalStays ==
  ASSUME CarefulUser
  PROVE  Spec => []ProposalStaysDisplayed
<1>1. CarefulInv => ProposalStaysDisplayed
  BY DEF CarefulInv, ProposalKept, ProposalStaysDisplayed
<1>2. QED
  BY <1>1, CarefulCorrect, PTL

\* Edits are saved to the userlist of the game they were written for.
THEOREM EditsStayWithTheirGame ==
  ASSUME CarefulUser
  PROVE  Spec => []EditsGoToTheirGame
<1>1. CarefulInv => EditsGoToTheirGame
  BY DEF CarefulInv, ControlsOff, EditsGoToTheirGame
<1>2. QED
  BY <1>1, CarefulCorrect, PTL

-----------------------------------------------------------------------------
(* Steps of the careful user's window.                                     *)

\* Only a change of game switches games, and it finds nothing pending.
LEMMA GameSwitches ==
  ASSUME TypeOK, CarefulInv, [Next]_vars
  PROVE  \/ game' = game
         \/ /\ ~sorting /\ ~Editing /\ editor = NoGame
            /\ \E s \in Slots : SwitchGame(s)
<1>1. ASSUME NEW s \in Slots, JobStep(s), game' # game
      PROVE  SwitchGame(s) /\ ~sorting /\ ~Editing /\ editor = NoGame
  <2>1. SwitchGame(s)
    BY <1>1
       DEF JobStep, WorkerStep, HandlerStep, BeginJob, FinishQuery, FinishSort,
           FinishUpdate, HandleProgressUpdate, HandleError, HandleGameLoaded,
           HandleStartupGameDataLoaded, HandleMasterlistUpdated,
           HandleUpdateBeforeSort, HandlePluginsManualSorted,
           HandlePluginsAutoSorted
  <2>2. ~Free(s)
    BY <2>1, StepHasJob DEF WorkerStep
  <2>3. QED
    BY <2>1, <2>2 DEF CarefulInv, IdleWhilePending, Idle, ControlsOff
<1>2. CASE UserStep
  BY <1>2 DEF UserStep, ChangeGame, Sort, RefreshContent, RestoreLoadOrder,
              UpdateMasterlist, FilterByOverlap, ApplySort, DiscardSort,
              FixAmbiguousLoadOrder, EditMetadata, AcceptEdits, RejectEdits, Quit
<1>3. CASE UNCHANGED vars
  BY <1>3 DEF vars
<1>4. QED
  BY <1>1, <1>2, <1>3 DEF Next

\* The current game does not change under a pending load order or an open
\* editor, although the worker thread sets it without asking the window.
THEOREM GameStaysFixed ==
  ASSUME CarefulUser
  PROVE  Spec => GameFixedWhilePending
<1>1. TypeOK /\ CarefulInv /\ [Next]_vars
        => [(sorting \/ editor # NoGame) => game' = game]_vars
  BY GameSwitches
<1>2. QED
  BY <1>1, TypeCorrect, CarefulCorrect, PTL DEF Spec, GameFixedWhilePending

\* Which steps write sort counts, and what they write.
LEMMA SortCountWritten ==
  ASSUME TypeOK, [Next]_vars
  PROVE  \/ sortCount' = sortCount
         \/ \E s \in Slots :
              SwitchGame(s) \/ (FinishSort(s) /\ sortCount' # sortCount)
         \/ DiscardSort
<1>1. ASSUME NEW s \in Slots, JobStep(s), sortCount' # sortCount
      PROVE  SwitchGame(s) \/ FinishSort(s)
  BY <1>1
     DEF JobStep, WorkerStep, HandlerStep, BeginJob, FinishQuery, FinishUpdate,
         HandleProgressUpdate, HandleError, HandleGameLoaded,
         HandleStartupGameDataLoaded, HandleMasterlistUpdated,
         HandleUpdateBeforeSort, HandlePluginsManualSorted,
         HandlePluginsAutoSorted, gameVars
<1>2. CASE UserStep
  BY <1>2 DEF UserStep, ChangeGame, Sort, RefreshContent, RestoreLoadOrder,
              UpdateMasterlist, FilterByOverlap, ApplySort,
              FixAmbiguousLoadOrder, EditMetadata, AcceptEdits, RejectEdits,
              Quit, gameVars
<1>3. CASE UNCHANGED vars
  BY <1>3 DEF vars, gameVars
<1>4. QED
  BY <1>1, <1>2, <1>3 DEF Next

\* A game that has been sorted counts as unsorted again only when another game
\* is left for it: discarding the sorted order, however often, does not undo
\* the count.
THEOREM SortedStaysCounted ==
  ASSUME CarefulUser
  PROVE  Spec => SortedUntilReloaded
<1> DEFINE A == \A g \in Games : sortCount[g] > 0 /\ sortCount'[g] = 0
                                   => game # g /\ game' = g
<1>1. TypeOK /\ CarefulInv /\ [Next]_vars => A
  <2> SUFFICES ASSUME TypeOK, CarefulInv, [Next]_vars, NEW g \in Games,
                      sortCount[g] > 0, sortCount'[g] = 0
               PROVE  game # g /\ game' = g
    OBVIOUS
  <2>1. sortCount \in [Games -> Nat] /\ game \in Games
    BY DEF TypeOK
  <2>2. ASSUME NEW s \in Slots, SwitchGame(s)
        PROVE  game # g /\ game' = g
    <3>1. jobs[s] \in Job /\ jobs[s].game # game
      BY <2>2, StepHasJob DEF WorkerStep, SwitchGame, CarefulInv, JobsMatchGame
    <3>2. game' = jobs[s].game /\ sortCount' = [sortCount EXCEPT ![jobs[s].game] = 0]
      BY <2>2 DEF SwitchGame
    <3>3. QED
      BY <2>1, <3>1, <3>2
  <2>3. ASSUME NEW s \in Slots, FinishSort(s), sortCount' # sortCount
        PROVE  FALSE
    <3>1. \E n \in {1, 2} : sortCount' = [sortCount EXCEPT ![jobs[s].game] = @ + n]
      BY <2>3 DEF FinishSort, CountSort
    <3>2. QED
      BY <2>1, <3>1
  <2>4. ~DiscardSort
    <3>1. ASSUME DiscardSort
          PROVE  FALSE
      <4>1. sortCount[game] >= 2
        BY <3>1 DEF DiscardSort, CarefulInv, SortsCounted
      <4>2. sortCount' = [sortCount EXCEPT ![game] = Decrement(@)]
        BY <3>1 DEF DiscardSort
      <4>3. sortCount'[game] # 0
        BY <2>1, <4>1, <4>2 DEF Decrement
      <4>4. QED
        BY <2>1, <4>2, <4>3
    <3>2. QED
      BY <3>1
  <2>5. QED
    BY <2>2, <2>3, <2>4, SortCountWritten
<1>2. QED
  BY <1>1, TypeCorrect, CarefulCorrect, PTL DEF Spec, SortedUntilReloaded

-----------------------------------------------------------------------------
(* The window implements SortSession: each of its steps is a step of the     *)
(* promise about sorted load orders, or changes nothing that it is about.   *)

\* With no proposal before or after it, a step may only stutter ...
LEMMA SessionStutters ==
  ASSUME ~sorting, ~sorting', UNCHANGED <<game, loadOrder>>
  PROVE  UNCHANGED Session!vars
BY DEF Session!vars

\* ... read or set a game's load order ...
LEMMA SessionReloads ==
  ASSUME ~sorting, ~sorting', game' = game, NEW g \in Games, NEW o \in Orders,
         loadOrder' = [loadOrder EXCEPT ![g] = o]
  PROVE  Session!Next
BY DEF Session!Next, Session!Reload

\* ... or make the current game's new order the proposal.
LEMMA SessionProposes ==
  ASSUME ~sorting, sorting' = TRUE, UNCHANGED <<game, loadOrder>>,
         NEW o \in Orders, o # loadOrder[game],
         shown' = [game |-> game, order |-> o]
  PROVE  Session!Next
BY DEF Session!Next, Session!Propose

\* Reading the load order state again.
LEMMA SessionReads ==
  ASSUME ~sorting, ~sorting', game' = game, NEW g \in Games, ReadLoadOrder(g)
  PROVE  Session!Next
BY SessionReloads DEF ReadLoadOrder

LEMMA SessionWorker ==
  ASSUME TypeOK, CarefulInv, NEW s \in Slots, WorkerStep(s)
  PROVE  Session!Next \/ UNCHANGED Session!vars
<1>1. jobs[s] \in Job /\ ~Free(s)
  BY StepHasJob
<1>2. ~sorting /\ sorting' = sorting
  BY <1>1 DEF CarefulInv, IdleWhilePending, Idle, WorkerStep, SwitchGame,
              BeginJob, FinishQuery, FinishSort, FinishUpdate, sortVars
<1>3. CASE SwitchGame(s)
  <2>1. /\ game' = jobs[s].game /\ loadOrder' = loadOrder
        /\ jobs[s].game \in Games \ {game}
    BY <1>1, <1>3 DEF SwitchGame, Job, CarefulInv, JobsMatchGame
  <2>2. QED
    BY <1>2, <2>1 DEF Session!Next, Session!ChangeGame
<1>4. CASE BeginJob(s)
  <2>1. jobs[s].game \in Games /\ game' = game
    BY <1>1, <1>4 DEF BeginJob, Job
  <2>2. QED
    BY <1>2, <1>4, <2>1, SessionReads, SessionStutters DEF BeginJob
<1>5. CASE FinishQuery(s) \/ FinishSort(s) \/ FinishUpdate(s)
  BY <1>2, <1>5, SessionStutters DEF FinishQuery, FinishSort, FinishUpdate, gameVars
<1>6. QED
  BY <1>3, <1>4, <1>5 DEF WorkerStep

\* A sort's result that differs from the current load order.
LEMMA SessionSorted ==
  ASSUME TypeOK, CarefulInv, NEW s \in FinishedSorts, LoadOrderChanged(s)
  PROVE  /\ jobs[s].game = game
         /\ jobs[s].result \in Orders \ {loadOrder[game]}
<1>1. s \in Slots /\ ~Free(s) /\ ~At(s, {"change"}, "queued")
  BY DEF FinishedSorts, At, Free, NoJob, SortKinds
<1>2. QED
  BY <1>1 DEF CarefulInv, JobsMatchGame, LoadOrderChanged, FinishedSorts

LEMMA SessionHandler ==
  ASSUME TypeOK, CarefulInv, NEW s \in Slots, HandlerStep(s)
  PROVE  Session!Next \/ UNCHANGED Session!vars
<1>1. jobs[s] \in Job /\ ~Free(s)
  BY StepHasJob
<1>2. sorting = FALSE
  BY <1>1 DEF CarefulInv, IdleWhilePending, Idle, TypeOK
<1>3. CASE /\ ~HandlePluginsManualSorted(s)
           /\ ~HandlePluginsAutoSorted(s)
  <2>1. UNCHANGED <<game, loadOrder, sorting>>
    BY <1>3
       DEF HandlerStep, HandleProgressUpdate, HandleError, HandleGameLoaded,
           HandleStartupGameDataLoaded, HandleMasterlistUpdated,
           HandleUpdateBeforeSort, gameVars, sortVars
  <2>2. QED
    BY <1>2, <2>1, SessionStutters
<1>4. CASE HandlePluginsManualSorted(s)
  <2>1. UNCHANGED <<game, loadOrder>>
    BY <1>4 DEF HandlePluginsManualSorted, gameVars
  <2>2. CASE sorting'
    <3>1. /\ Handled(s, {"sort"}, Orders) /\ LoadOrderChanged(s)
          /\ shown' = ItemsOf(s) /\ sorting' = TRUE
      BY <1>2, <1>4, <2>2 DEF HandlePluginsManualSorted, SortedItems, sortVars
    <3>2. s \in FinishedSorts
      BY <3>1 DEF Handled, At, FinishedSorts, SortKinds
    <3>3. QED
      BY <1>2, <2>1, <3>1, <3>2, SessionSorted, SessionProposes DEF ItemsOf
  <2>3. CASE ~sorting'
    BY <1>2, <2>1, <2>3, SessionStutters
  <2>4. QED
    BY <2>2, <2>3
<1>5. CASE HandlePluginsAutoSorted(s)
  <2>1. game' = game
    BY <1>5 DEF HandlePluginsAutoSorted
  <2>2. CASE ~(jobs[s].result \in Orders /\ LoadOrderChanged(s))
    <3>1. ~sorting' /\ loadOrder' = loadOrder
      BY <1>2, <1>5, <2>2 DEF HandlePluginsAutoSorted, NotApplied
    <3>2. QED
      BY <1>2, <2>1, <3>1, SessionStutters
  <2>3. CASE jobs[s].result \in Orders /\ LoadOrderChanged(s)
    <3>1. s \in FinishedSorts
      BY <1>5, <2>3 DEF HandlePluginsAutoSorted, Handled, At, FinishedSorts,
                        SortKinds
    <3>2. /\ shown' = ItemsOf(s)
          /\ \/ ApplySucceeds(ItemsOf(s), SortedCount(s), SortedControls(s))
             \/ NotApplied(SortedCount(s), SortedControls(s)) /\ sorting' = TRUE
      BY <1>5, <2>3 DEF HandlePluginsAutoSorted, SortedItems
    <3>3. CASE ApplySucceeds(ItemsOf(s), SortedCount(s), SortedControls(s))
      <4>1. ~sorting' /\ loadOrder' = [loadOrder EXCEPT ![game] = jobs[s].result]
        BY <3>3 DEF ApplySucceeds, ItemsOf
      <4>2. QED
        BY <1>2, <2>1, <2>3, <4>1, SessionReloads DEF TypeOK
    <3>4. CASE NotApplied(SortedCount(s), SortedControls(s)) /\ sorting' = TRUE
      <4>1. loadOrder' = loadOrder
        BY <3>4 DEF NotApplied
      <4>2. /\ jobs[s].result \in Orders \ {loadOrder[game]}
            /\ shown' = [game |-> game, order |-> jobs[s].result]
        BY <2>3, <3>1, <3>2, SessionSorted DEF ItemsOf
      <4>3. QED
        BY <1>2, <2>1, <3>4, <4>1, <4>2, SessionProposes
    <3>5. QED
      BY <3>2, <3>3, <3>4
  <2>4. QED
    BY <2>2, <2>3
<1>6. QED
  BY <1>3, <1>4, <1>5

\* The user decides on the proposal, or leaves it alone.
LEMMA SessionUser ==
  ASSUME CarefulUser, TypeOK, CarefulInv, UserStep
  PROVE  Session!Next \/ UNCHANGED Session!vars
<1>1. ASSUME UNCHANGED <<game, loadOrder, sorting, shown>>
      PROVE  UNCHANGED Session!vars
  BY <1>1 DEF Session!vars
<1>2. sorting => /\ shown \in Items /\ shown.game = game /\ shown # Nothing
                 /\ sorting = TRUE
  BY DEF TypeOK, CarefulInv, ProposalKept
<1>3. ASSUME NEW s \in Slots, RestoreLoadOrder(s)
      PROVE  Session!Next
  <2>1. ~sorting /\ ~sorting' /\ game' = game /\ game \in Games
    BY <1>3, MayFacts DEF RestoreLoadOrder, sortVars, TypeOK
  <2>2. QED
    BY <1>3, <2>1, SessionReads DEF RestoreLoadOrder
<1>4. CASE ApplySort
  <2>1. CASE ApplySucceeds(shown, unapplied, enabled)
    <3>1. /\ ~sorting' /\ game' = game
          /\ loadOrder' = [loadOrder EXCEPT ![shown.game] = shown.order]
      BY <1>2, <1>4, <2>1 DEF ApplySort, ApplySucceeds
    <3>2. QED
      BY <1>2, <1>4, <3>1 DEF ApplySort, Session!Next, Session!Apply
  <2>2. CASE NotApplied(unapplied, enabled) /\ UNCHANGED <<sorting, proposed>>
    BY <1>1, <1>4, <2>2 DEF ApplySort, NotApplied
  <2>3. QED
    BY <1>4, <2>1, <2>2 DEF ApplySort
<1>5. CASE DiscardSort
  BY <1>2, <1>5 DEF DiscardSort, Session!Next, Session!Discard
<1>6. ASSUME NEW s \in Slots,
             ChangeGame(s) \/ Sort(s) \/ RefreshContent(s) \/ UpdateMasterlist(s)
               \/ FilterByOverlap(s)
      PROVE  UNCHANGED <<game, loadOrder, sorting, shown>>
  BY <1>6 DEF ChangeGame, Sort, RefreshContent, UpdateMasterlist, FilterByOverlap,
              gameVars, sortVars
<1>7. CASE FixAmbiguousLoadOrder \/ EditMetadata \/ AcceptEdits \/ RejectEdits
             \/ Quit
  BY <1>1, <1>7 DEF FixAmbiguousLoadOrder, EditMetadata, AcceptEdits,
                    RejectEdits, Quit, gameVars, sortVars
<1>8. QED
  BY <1>1, <1>3, <1>4, <1>5, <1>6, <1>7 DEF UserStep

\* For the careful user the window keeps the promise about sorted load orders:
\* until the proposal is applied or discarded nothing else touches it, the
\* game's own load order, or which game is current, and applying it sets
\* exactly the proposed order.
THEOREM SortSessionImplemented ==
  ASSUME CarefulUser
  PROVE  Spec => ImplementsSortSession
<1>1. Init => Session!Init
  BY DEF Init, Session!Init
<1>2. TypeOK /\ CarefulInv /\ [Next]_vars => [Session!Next]_(Session!vars)
  <2> SUFFICES ASSUME TypeOK, CarefulInv, [Next]_vars
               PROVE  Session!Next \/ UNCHANGED Session!vars
    OBVIOUS
  <2>1. ASSUME NEW s \in Slots, JobStep(s)
        PROVE  Session!Next \/ UNCHANGED Session!vars
    BY <2>1, SessionWorker, SessionHandler DEF JobStep
  <2>2. CASE UserStep
    BY <2>2, SessionUser
  <2>3. CASE UNCHANGED vars
    BY <2>3 DEF vars, gameVars, sortVars, Session!vars
  <2>4. QED
    BY <2>1, <2>2, <2>3 DEF Next
<1>3. QED
  BY <1>1, <1>2, TypeCorrect, CarefulCorrect, PTL
     DEF Spec, ImplementsSortSession, Session!Spec
=============================================================================
