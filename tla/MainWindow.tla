----------------------------- MODULE MainWindow -----------------------------
(***************************************************************************)
(* LOOT's main window (src/src/gui/qt/main_window.cpp) with the queries it  *)
(* runs on worker threads (src/src/gui/query/types) and the parts of        *)
(* gui::Game that they change.                                             *)
(*                                                                         *)
(* A job is one query or group of tasks.  Its worker steps (BeginJob,       *)
(* FinishQuery, ...) run beside the main thread; the main thread shows the  *)
(* job's progress message and then handles its result.  User actions and   *)
(* handlers are atomic, as they all run on the main thread.                *)
(***************************************************************************)
EXTENDS Naturals, FiniteSets

CONSTANTS
  Games,      \* the installed games
  Orders,     \* the load orders a game can have
  Slots,      \* bound: at most one job per slot is in flight
  NoGame,     \* "no game"
  Nothing,    \* "no plugins displayed", "no order proposed"
  UserActs,   \* UserActs[mode]: what the user does in that mode
  Patient,    \* TRUE: the user starts nothing while a job is in flight
  UpdateBeforeSort, \* the values that setting may have
  Ambiguity,  \* what IsLoadOrderAmbiguous() may return
  AutoSort,   \* the values the --auto-sort option may have
  MaxCount    \* bound: the user starts no change once a count reaches it

VARIABLES
  game,       \* GamesManager::currentGame_
  loadOrder,  \* the load order held by each game's libloot handle
  ambiguous,  \* what each handle's IsLoadOrderAmbiguous() returns
  sortCount,  \* Game::sortCount_ of each game
  unapplied,  \* LootState's unapplied change count
  shown,      \* pluginItemModel: the game and order of the listed plugins
  editor,     \* the game whose plugin is in the visible editor, or NoGame
  sorting,    \* actionApplySort->isVisible()
  proposed,   \* history: the sorted order the user was last offered
  enabled,    \* the enabled controls
  progress,   \* progressDialog is open; it is modal and has no cancel button
  jobs,       \* jobs[s]: the background job in slot s, or NoJob
  auto,       \* how far the --auto-sort sequence has got
  window      \* "open", "closed" or "crashed"

sortVars == <<unapplied, sorting, proposed>>
gameVars == <<loadOrder, ambiguous, sortCount>>
vars == <<game, gameVars, sortVars, shown, editor, enabled, progress, jobs,
          auto, window>>

-----------------------------------------------------------------------------
(* Controls: the widgets and actions whose availability changes.           *)

SortingControls ==
  {"Settings", "UpdateMasterlists", "gameComboBox", "RefreshContent"}
EditingControls ==
  SortingControls \cup {"OpenGroupsEditor", "ClearAllUserMetadata",
    "EditMetadata", "ClearMetadata", "UpdateMasterlist", "Sort"}
GameControls == {"menuGame", "Sort", "UpdateMasterlist"}
Fix == "FixAmbiguousLoadOrder"
Controls == EditingControls \cup GameControls \cup {Fix}

EnableGameActions(controls) == (controls \cup GameControls) \ {Fix}
EnterEditingState_KeepsGames(controls) ==
  controls \ (EditingControls \ {"gameComboBox"})
EnterEditingState(controls) == controls \ EditingControls
ExitEditingState(controls) == controls \cup EditingControls
EnterSortingState_KeepsRefresh(controls) ==
  controls \ (SortingControls \ {"RefreshContent"})
EnterSortingState_KeepsGames(controls) ==
  controls \ (SortingControls \ {"gameComboBox"})
EnterSortingState(controls) == controls \ SortingControls
ExitSortingState(controls) == controls \cup SortingControls
CheckForAmbiguousLoadOrder(controls) ==
  IF ambiguous[game] THEN controls \cup {Fix} ELSE controls \ {Fix}

Editing == "EditMetadata" \notin enabled

-----------------------------------------------------------------------------
(* Jobs.                                                                   *)

LoadKinds == {"startup", "refresh", "change"}
SortKinds == {"sort", "autosort"}
Kinds == LoadKinds \cup SortKinds \cup {"update", "overlap"}

\* updating -> updated: the masterlist update that may precede a sort, or be
\* the whole job; queued -> running -> finished: a query, which for a change
\* of game is "switched" between the first two.
Stages == {"updating", "updated", "queued", "switched", "running", "finished"}

\* "failed" and "failedSilently": Game::sortPlugins returned no plugins, with
\* or without adding an error message; "error": the query threw.
Outcomes ==
  {"none", "failed", "failedSilently", "error", "changed", "unchanged"}

Items == [game : Games, order : Orders]
Job == [kind : Kinds, game : Games, stage : Stages, posted : BOOLEAN,
        result : Orders \cup Outcomes]
NoJob == [kind |-> "none", stage |-> "idle"]

ASSUME OrdersAssumption == Orders \cap Outcomes = {}
ASSUME SentinelAssumption == NoGame \notin Games /\ Nothing \notin Items
ASSUME SlotsAssumption == IsFiniteSet(Slots)
ASSUME AutoSortAssumption == AutoSort \subseteq {"off", "loading"}
ASSUME AmbiguityAssumption == Ambiguity \subseteq BOOLEAN
ASSUME UpdateAssumption == UpdateBeforeSort \subseteq BOOLEAN
ASSUME BoundAssumption == MaxCount \in Nat

Free(s) == jobs[s] = NoJob
NewJob(kind, stage) ==
  [kind |-> kind, game |-> game, stage |-> stage, posted |-> FALSE,
   result |-> "none"]
At(s, kinds, stage) == jobs[s].kind \in kinds /\ jobs[s].stage = stage

\* A worker posts a progress message (or not) and moves on.
Advance(s, stage, posted) ==
  jobs' = [jobs EXCEPT ![s].stage = stage, ![s].posted = posted]
\* The worker is done: its result is posted to the main thread.
Finish(s, result) ==
  jobs' = [jobs EXCEPT ![s].stage = "finished", ![s].result = result]
\* The main thread takes the result, once it has taken the progress message.
Handled(s, kinds, results) ==
  /\ window = "open"
  /\ At(s, kinds, "finished")
  /\ ~jobs[s].posted
  /\ jobs[s].result \in results
Release(s) == jobs' = [jobs EXCEPT ![s] = NoJob]

\* Load order state is read again; other programs may have changed it.
ReadLoadOrder(g) ==
  /\ \E o \in Orders : loadOrder' = [loadOrder EXCEPT ![g] = o]
  /\ \E a \in Ambiguity : ambiguous' = [ambiguous EXCEPT ![g] = a]

Decrement_Unguarded(count) == count - 1
Decrement(count) == IF count > 0 THEN count - 1 ELSE count

ResetProgress_Forgotten == UNCHANGED progress
ResetProgress == progress' = FALSE

-----------------------------------------------------------------------------
Init ==
  /\ game \in Games
  /\ loadOrder \in [Games -> Orders]
  /\ ambiguous = [g \in Games |-> FALSE]
  /\ sortCount = [g \in Games |-> 0]
  /\ unapplied = 0
  /\ shown = Nothing
  /\ editor = NoGame
  /\ sorting = FALSE
  /\ proposed = Nothing
  /\ enabled = Controls \ GameControls
  /\ progress = FALSE
  /\ \E s \in Slots :
       jobs = [t \in Slots |-> IF t = s THEN NewJob("startup", "queued")
                                        ELSE NoJob]
  /\ auto \in AutoSort
  /\ window = "open"

-----------------------------------------------------------------------------
(* Worker threads.                                                         *)

\* ChangeGameQuery: set and initialise the new current game, before anything
\* is posted to the main thread.
SwitchGame(s) ==
  /\ At(s, {"change"}, "queued")
  /\ game' = jobs[s].game
  /\ sortCount' = [sortCount EXCEPT ![jobs[s].game] = 0]
  /\ Advance(s, "switched", FALSE)
  /\ UNCHANGED <<loadOrder, ambiguous, sortVars, shown, editor, enabled,
                 progress, auto, window>>

\* The query posts its progress message (the overlap query has none) and
\* reads the load order state; the overlap query reads it only if plugins are
\* not yet fully loaded.
BeginJob(s) ==
  /\ \/ At(s, Kinds \ {"change", "update"}, "queued")
     \/ At(s, {"change"}, "switched")
  /\ \/ ReadLoadOrder(jobs[s].game)
     \/ jobs[s].kind = "overlap" /\ UNCHANGED <<loadOrder, ambiguous>>
  /\ Advance(s, "running", jobs[s].kind # "overlap")
  /\ UNCHANGED <<game, sortCount, sortVars, shown, editor, enabled, progress,
                 auto, window>>

\* The plugins are loaded and listed in load order, or something threw.
FinishQuery(s) ==
  /\ \/ /\ At(s, LoadKinds \cup {"overlap"}, "running")
        /\ \E r \in {loadOrder[jobs[s].game], "error"} : Finish(s, r)
     \/ /\ At(s, {"change"}, "switched")    \* initialising the game threw
        /\ Finish(s, "error")
  /\ UNCHANGED <<game, gameVars, sortVars, shown, editor, enabled, progress,
                 auto, window>>

\* Game::sortPlugins counts a successful sort, and SortPluginsQuery counts it
\* again after turning the plugin names into items, which may throw.
CountSort_Once(s) == sortCount' = [sortCount EXCEPT ![jobs[s].game] = @ + 1]
CountSort(s) == sortCount' = [sortCount EXCEPT ![jobs[s].game] = @ + 2]

FinishSort(s) ==
  /\ At(s, SortKinds, "running")
  /\ \/ /\ \E o \in Orders : Finish(s, o)
        /\ CountSort(s)
        /\ unapplied' = unapplied + 1
     \/ /\ \E r \in {"failed", "failedSilently"} : Finish(s, r)
        /\ UNCHANGED <<sortCount, unapplied>>
     \/ /\ Finish(s, "error")
        /\ sortCount' = [sortCount EXCEPT ![jobs[s].game] = @ + 1]
        /\ UNCHANGED unapplied
  /\ UNCHANGED <<game, loadOrder, ambiguous, sorting, proposed, shown, editor,
                 enabled, progress, auto, window>>

\* The update tasks are done: of a masterlist update, or before a sort.
FinishUpdate(s) ==
  /\ \E r \in {"changed", "unchanged", "error"} :
       \/ At(s, {"update"}, "updating") /\ Finish(s, r)
       \/ /\ At(s, SortKinds, "updating")
          /\ jobs' = [jobs EXCEPT ![s].stage = "updated", ![s].result = r]
  /\ UNCHANGED <<game, gameVars, sortVars, shown, editor, enabled, progress,
                 auto, window>>

-----------------------------------------------------------------------------
(* The main thread: progress messages and results.                         *)

HandleProgressUpdate(s) ==
  /\ window = "open"
  /\ jobs[s].kind # "none"
  /\ jobs[s].posted
  /\ jobs' = [jobs EXCEPT ![s].posted = FALSE]
  /\ progress' = TRUE
  /\ UNCHANGED <<game, gameVars, sortVars, shown, editor, enabled, auto,
                 window>>

IsAuto(s) == jobs[s].kind = "autosort" \/ (jobs[s].kind = "startup" /\ auto = "loading")

Failed_NotSort(s) == Handled(s, Kinds \ SortKinds, {"error"})
Failed(s) == Handled(s, Kinds, {"error"})

\* A query failed: the progress dialog is closed and the error is reported.
HandleError(s) ==
  /\ Failed(s)
  /\ Release(s)
  /\ ResetProgress
  /\ auto' = IF IsAuto(s) THEN "cancelled" ELSE auto
  /\ UNCHANGED <<game, gameVars, sortVars, shown, editor, enabled, window>>

\* handleGameDataLoaded: list the plugins and enable the game actions, then
\* check for an ambiguous load order.
ItemsOf(s) == [game |-> jobs[s].game, order |-> jobs[s].result]
ShowGameData(s) ==
  /\ shown' = ItemsOf(s)
  /\ enabled' = CheckForAmbiguousLoadOrder(EnableGameActions(enabled))

HandleGameLoaded(s) ==
  /\ Handled(s, {"refresh", "change", "overlap"}, Orders)
  /\ ShowGameData(s)
  /\ Release(s)
  /\ ResetProgress
  /\ UNCHANGED <<game, gameVars, sortVars, editor, auto, window>>

\* MainWindow::sortPlugins: update the masterlist first, if so set.
StartSort(s, kind) ==
  \E update \in UpdateBeforeSort :
    /\ jobs' = [jobs EXCEPT ![s] =
                  NewJob(kind, IF update THEN "updating" ELSE "queued")]
    /\ progress' = update

HandleStartupGameDataLoaded(s) ==
  /\ Handled(s, {"startup"}, Orders)
  /\ ShowGameData(s)
  /\ \/ /\ auto = "loading"
        /\ StartSort(s, "autosort")
        /\ auto' = "sorting"
     \/ /\ auto' = IF auto = "loading" THEN "cancelled" ELSE auto
        /\ Release(s)
        /\ ResetProgress
  /\ UNCHANGED <<game, gameVars, sortVars, editor, window>>

\* handleMasterlistUpdated: the current game's metadata is reloaded and its
\* plugins are listed in its load order, without a check for ambiguity.
MasterlistUpdated(s) ==
  IF jobs[s].result = "changed"
  THEN /\ shown' = [game |-> game, order |-> loadOrder[game]]
       /\ enabled' = EnableGameActions(enabled)
  ELSE UNCHANGED <<shown, enabled>>

HandleMasterlistUpdated(s) ==
  /\ Handled(s, {"update"}, {"changed", "unchanged"})
  /\ MasterlistUpdated(s)
  /\ Release(s)
  /\ ResetProgress
  /\ UNCHANGED <<game, gameVars, sortVars, editor, auto, window>>

\* The sort is started whether or not the update before it succeeded.
HandleUpdateBeforeSort(s) ==
  /\ window = "open"
  /\ At(s, SortKinds, "updated")
  /\ MasterlistUpdated(s)
  /\ jobs' = [jobs EXCEPT ![s].stage = "queued", ![s].result = "none"]
  /\ ResetProgress
  /\ UNCHANGED <<game, gameVars, sortVars, editor, auto, window>>

\* hasLoadOrderChanged compares with the current game's load order; plugins of
\* another game always differ.
LoadOrderChanged(s) ==
  jobs[s].game # game \/ jobs[s].result # loadOrder[game]

\* handlePluginsSorted with a sorted load order, which is displayed; if it is
\* a change then the user must apply or discard it.
SortedControls(s) ==
  EnableGameActions(IF LoadOrderChanged(s) THEN EnterSortingState(enabled)
                                           ELSE enabled)
SortedItems_Current(s) == [game |-> game, order |-> loadOrder[game]]
SortedItems(s) == ItemsOf(s)
SortedCount_Always(s) == Decrement(unapplied)
SortedCount(s) ==
  IF LoadOrderChanged(s) THEN unapplied ELSE Decrement(unapplied)

HandlePluginsManualSorted(s) ==
  /\ \/ /\ Handled(s, {"sort"}, Orders)
        /\ shown' = SortedItems(s)
        /\ unapplied' = SortedCount(s)
        /\ \/ /\ LoadOrderChanged(s)
              /\ sorting' = TRUE
              /\ proposed' = ItemsOf(s)
              /\ enabled' = SortedControls(s)
           \/ /\ ~LoadOrderChanged(s)
              /\ enabled' = CheckForAmbiguousLoadOrder(SortedControls(s))
              /\ UNCHANGED <<sorting, proposed>>
     \/ /\ Handled(s, {"sort"}, {"failed", "failedSilently"})
        /\ enabled' = CheckForAmbiguousLoadOrder(enabled)
        /\ UNCHANGED <<shown, sortVars>>
  /\ Release(s)
  /\ ResetProgress
  /\ UNCHANGED <<game, gameVars, editor, auto, window>>

\* ApplySortQuery and on_actionApplySort_triggered, with the given plugins
\* listed, change count and controls: the load order is set, or that throws.
ApplySucceeds(items, count, controls) ==
  /\ items.game = game
  /\ loadOrder' = [loadOrder EXCEPT ![game] = items.order]
  /\ \E a \in Ambiguity :
       /\ ambiguous' = [ambiguous EXCEPT ![game] = a]
       /\ enabled' = ExitSortingState(controls) \cup {c \in {Fix} : a}
  /\ unapplied' = Decrement(count)
  /\ sorting' = FALSE
  /\ proposed' = Nothing

NotApplied_Counted(count, controls) ==
  /\ unapplied' = Decrement(count)
  /\ enabled' = controls
  /\ UNCHANGED <<loadOrder, ambiguous>>
NotApplied(count, controls) ==
  /\ unapplied' = count
  /\ enabled' = controls
  /\ UNCHANGED <<loadOrder, ambiguous>>

\* If an order is pending it is applied, and unless there is an error message
\* (as there is when a failed sort added one) the window is asked to close.
HandlePluginsAutoSorted(s) ==
  /\ Handled(s, {"autosort"}, Orders \cup {"failed", "failedSilently"})
  /\ LET sorted == jobs[s].result \in Orders
         items == IF sorted THEN SortedItems(s) ELSE shown
         count == IF sorted THEN SortedCount(s) ELSE unapplied
         controls == IF sorted THEN SortedControls(s) ELSE enabled
         proposal == sorted /\ LoadOrderChanged(s)
     IN  /\ shown' = items
         /\ \/ (sorting \/ proposal) /\ ApplySucceeds(items, count, controls)
            \/ /\ NotApplied(count, controls)
               /\ sorting' = (sorting \/ proposal)
               /\ proposed' = IF proposal THEN ItemsOf(s) ELSE proposed
  /\ \/ jobs[s].result # "failed" /\ auto' = "quitting"
     \/ auto' = "cancelled"
  /\ \/ window' = "open" /\ (auto' = "cancelled" \/ unapplied' > 0)
     \/ window' = "closed" /\ auto' = "quitting"
  /\ Release(s)
  /\ ResetProgress
  /\ UNCHANGED <<game, sortCount, editor>>

-----------------------------------------------------------------------------
(* The user.                                                               *)

Mode == IF sorting THEN "sorting" ELSE IF Editing THEN "editing" ELSE "idle"

\* The progress dialog blocks the main window; there is a free slot for a job.
May(act) ==
  /\ window = "open"
  /\ ~progress
  /\ act \in UserActs[Mode]
  /\ Patient => \A s \in Slots : Free(s)

StartJob(s, kind, stage) ==
  /\ Free(s)
  /\ jobs' = [jobs EXCEPT ![s] = NewJob(kind, stage)]

ChangeGame(s) ==
  /\ May("ChangeGame")
  /\ "gameComboBox" \in enabled
  /\ Free(s)
  /\ \E g \in Games \ {game} :
       jobs' = [jobs EXCEPT ![s] = [NewJob("change", "queued") EXCEPT !.game = g]]
  /\ UNCHANGED <<game, gameVars, sortVars, shown, editor, enabled, progress,
                 auto, window>>

\* "Sort" is hidden while a sorted load order is pending.
Sort(s) ==
  /\ May("Sort")
  /\ "Sort" \in enabled
  /\ ~sorting
  /\ sortCount[game] < MaxCount
  /\ unapplied < MaxCount
  /\ Free(s)
  /\ StartSort(s, "sort")
  /\ UNCHANGED <<game, gameVars, sortVars, shown, editor, enabled, auto,
                 window>>

ApplySort ==
  /\ May("ApplySort")
  /\ sorting
  /\ \/ ApplySucceeds(shown, unapplied, enabled)
     \/ NotApplied(unapplied, enabled) /\ UNCHANGED <<sorting, proposed>>
  /\ UNCHANGED <<game, sortCount, shown, editor, progress, jobs, auto,
                 window>>

\* The items of the listed plugins are put back in the current game's load
\* order; those that are not plugins of the current game are dropped.
DiscardSort ==
  /\ May("DiscardSort")
  /\ sorting
  /\ unapplied' = Decrement(unapplied)
  /\ sortCount' = [sortCount EXCEPT ![game] = Decrement(@)]
  /\ shown' = IF shown.game = game
              THEN [game |-> game, order |-> loadOrder[game]]
              ELSE Nothing
  /\ sorting' = FALSE
  /\ proposed' = Nothing
  /\ enabled' = CheckForAmbiguousLoadOrder(ExitSortingState(enabled))
  /\ UNCHANGED <<game, loadOrder, ambiguous, editor, progress, jobs, auto,
                 window>>

RefreshContent(s) ==
  /\ May("RefreshContent")
  /\ {"menuGame", "RefreshContent"} \subseteq enabled
  /\ StartJob(s, "refresh", "queued")
  /\ UNCHANGED <<game, gameVars, sortVars, shown, editor, enabled, progress,
                 auto, window>>

\* Set the load order to any backed-up one, then refresh.
RestoreLoadOrder(s) ==
  /\ May("RestoreLoadOrder")
  /\ "menuGame" \in enabled
  /\ StartJob(s, "refresh", "queued")
  /\ ReadLoadOrder(game)
  /\ UNCHANGED <<game, sortCount, sortVars, shown, editor, enabled, progress,
                 auto, window>>

FixAmbiguousLoadOrder ==
  /\ May("FixAmbiguousLoadOrder")
  /\ {"menuGame", Fix} \subseteq enabled
  /\ \E a \in Ambiguity :
       /\ ambiguous' = [ambiguous EXCEPT ![game] = a]
       /\ enabled' = enabled \ {c \in {Fix} : ~a}
  /\ UNCHANGED <<game, loadOrder, sortCount, sortVars, shown, editor, progress,
                 jobs, auto, window>>

\* The update of the current game's masterlist, or of every game's.
UpdateMasterlist(s) ==
  /\ May("UpdateMasterlist")
  /\ "UpdateMasterlists" \in enabled \/ ("UpdateMasterlist" \in enabled /\ ~sorting)
  /\ StartJob(s, "update", "updating")
  /\ progress' = TRUE
  /\ UNCHANGED <<game, gameVars, sortVars, shown, editor, enabled, auto,
                 window>>

FilterByOverlap(s) ==
  /\ May("FilterByOverlap")
  /\ shown # Nothing
  /\ StartJob(s, "overlap", "queued")
  /\ progress' = TRUE
  /\ UNCHANGED <<game, gameVars, sortVars, shown, editor, enabled, auto,
                 window>>

\* The editor looks its plugin up in the current game, which dereferences null
\* if the plugins listed are another game's.
EditMetadata ==
  /\ May("EditMetadata")
  /\ ~Editing
  /\ unapplied < MaxCount
  /\ shown # Nothing
  /\ \/ /\ shown.game = game
        /\ editor' = game
        /\ unapplied' = unapplied + 1
        /\ enabled' = EnterEditingState(enabled)
        /\ UNCHANGED window
     \/ /\ shown.game # game
        /\ window' = "crashed"
        /\ UNCHANGED <<editor, unapplied, enabled>>
  /\ UNCHANGED <<game, gameVars, sorting, proposed, shown, progress, jobs,
                 auto>>

CloseEditor_NotCounted ==
  /\ UNCHANGED unapplied
  /\ enabled' = ExitEditingState(enabled)
CloseEditor ==
  /\ unapplied' = Decrement(unapplied)
  /\ enabled' = ExitEditingState(enabled)

\* The editor is hidden before the metadata is saved to the current game's
\* userlist, which may throw.
AcceptEdits ==
  /\ May("AcceptEdits")
  /\ editor # NoGame
  /\ editor' = NoGame
  /\ CloseEditor \/ UNCHANGED <<unapplied, enabled>>
  /\ UNCHANGED <<game, gameVars, sorting, proposed, shown, progress, jobs,
                 auto, window>>

RejectEdits ==
  /\ May("RejectEdits")
  /\ editor # NoGame
  /\ editor' = NoGame
  /\ CloseEditor
  /\ UNCHANGED <<game, gameVars, sorting, proposed, shown, progress, jobs,
                 auto, window>>

\* The user is asked to confirm if there are unapplied changes, and does.
Quit ==
  /\ May("Quit")
  /\ window' = "closed"
  /\ UNCHANGED <<game, gameVars, sortVars, shown, editor, enabled, progress,
                 jobs, auto>>

-----------------------------------------------------------------------------
WorkerStep(s) ==
  \/ SwitchGame(s)
  \/ BeginJob(s)
  \/ FinishQuery(s)
  \/ FinishSort(s)
  \/ FinishUpdate(s)

HandlerStep(s) ==
  \/ HandleProgressUpdate(s)
  \/ HandleError(s)
  \/ HandleGameLoaded(s)
  \/ HandleStartupGameDataLoaded(s)
  \/ HandleMasterlistUpdated(s)
  \/ HandleUpdateBeforeSort(s)
  \/ HandlePluginsManualSorted(s)
  \/ HandlePluginsAutoSorted(s)

JobStep(s) == window = "open" /\ (WorkerStep(s) \/ HandlerStep(s))

UserStep ==
  \/ \E s \in Slots :
       \/ ChangeGame(s)
       \/ Sort(s)
       \/ RefreshContent(s)
       \/ RestoreLoadOrder(s)
       \/ UpdateMasterlist(s)
       \/ FilterByOverlap(s)
  \/ ApplySort
  \/ DiscardSort
  \/ FixAmbiguousLoadOrder
  \/ EditMetadata
  \/ AcceptEdits
  \/ RejectEdits
  \/ Quit

Next == (\E s \in Slots : JobStep(s)) \/ UserStep

\* Threads and the event loop are scheduled, queries end and network requests
\* time out; nothing says the user ever does anything.
Fairness == \A s \in Slots : WF_vars(JobStep(s))

Spec == Init /\ [][Next]_vars /\ Fairness

-----------------------------------------------------------------------------
(* Properties.                                                             *)

TypeOK ==
  /\ game \in Games
  /\ loadOrder \in [Games -> Orders]
  /\ ambiguous \in [Games -> BOOLEAN]
  /\ sortCount \in [Games -> Nat]
  /\ unapplied \in Nat
  /\ shown \in Items \cup {Nothing} /\ (sorting => shown # Nothing)
  /\ editor \in Games \cup {NoGame}
  /\ sorting \in BOOLEAN
  /\ proposed \in Items \cup {Nothing}
  /\ enabled \subseteq Controls
  /\ progress \in BOOLEAN
  /\ jobs \in [Slots -> Job \cup {NoJob}]
  /\ auto \in {"off", "loading", "sorting", "cancelled", "quitting"}
  /\ window \in {"open", "closed", "crashed"}

Bit(b) == IF b THEN 1 ELSE 0
Idle == \A s \in Slots : Free(s)

\* While a sorted load order awaits a decision or metadata edits have not been
\* closed, the change count is not zero, so that closing the window asks first
\* (closeEvent), however jobs, handlers and user actions interleave.
PendingChangesCounted == (sorting \/ Editing) => unapplied > 0

\* The stronger fact that makes it inductive: the count covers the pending
\* order, the open edits and every successful sort not yet handled.
FinishedSorts ==
  {s \in Slots : At(s, SortKinds, "finished") /\ jobs[s].result \in Orders}
CountCovers ==
  /\ unapplied >= Bit(sorting) + Bit(Editing) + Cardinality(FinishedSorts)
  /\ editor # NoGame => Editing

\* The modal progress dialog, which has no cancel button, is open only while
\* some job is in flight whose result will close it.
ProgressMeansWork == progress => ~Idle

(* For a user who finishes one thing before starting the next.             *)

\* What is asked of that user: to start nothing while a job is in flight, and
\* to decide on a sorted load order, or close the editor, before the actions
\* that the window leaves enabled although they would interfere.
CarefulUser ==
  /\ Patient = TRUE
  /\ {"FilterByOverlap", "RestoreLoadOrder", "EditMetadata"}
       \cap UserActs["sorting"] = {}
  /\ {"FilterByOverlap", "RestoreLoadOrder"} \cap UserActs["editing"] = {}

\* Between jobs the count is exact, so closing asks only about real changes.
CountIsExact == Idle => unapplied = Bit(sorting) + Bit(Editing)

\* The features the docs call disabled while a sorted load order is pending or
\* the editor is open are disabled
\* (docs/app/usage/main.rst:10).
FeaturesDisabledWhilePending ==
  /\ sorting => SortingControls \cap enabled = {}
  /\ editor # NoGame => EditingControls \cap enabled = {}

\* What the Apply button would set is the order that sorting proposed, for the
\* game that was sorted.
ProposalStaysDisplayed == sorting => shown = proposed

\* Metadata is saved to the userlist of the game it was written for.
EditsGoToTheirGame == editor # NoGame => editor = game

\* The current game does not change under a pending sort or an open editor.
GameFixedWhilePending ==
  [][(sorting \/ editor # NoGame) => game' = game]_vars

\* A game that has been sorted is reported as unsorted again only after it has
\* been left and reloaded: discarding a sorted order does not lose the count.
SortedUntilReloaded ==
  [][\A g \in Games : sortCount[g] > 0 /\ sortCount'[g] = 0
                         => game # g /\ game' = g]_vars

\* The promise about calculated load orders, as an abstract specification.
Session == INSTANCE SortSession WITH
  active <- game,
  order <- loadOrder,
  pending <- IF sorting THEN shown ELSE Nothing,
  None <- Nothing
ImplementsSortSession == Session!Spec

\* The window never stays blocked, and the --auto-sort sequence comes to an end.
ProgressEnds == (progress /\ window = "open") ~> (~progress \/ window # "open")
AutoSortEnds ==
  (auto \in {"loading", "sorting"} /\ window = "open")
    ~> (auto \in {"cancelled", "quitting"} \/ window # "open")
=============================================================================
