# LOOT: specification, model checking and proofs

TLA+ modules for [LOOT](../src/README.md), the plugin load order optimiser: the
behaviour of its main window and background jobs, of game detection, settings
and start-up, of group metadata across masterlist updates, of the two metadata
editors, of the plugin list with its filters and search, of what is said about
plugins, of load order backups, and of masterlist updates, with the instances
that TLC checks and the theorems that TLAPS proves.

Sources are given relative to `src/src/gui/`; `mw` is `qt/main_window.cpp`.

## 1. The system

LOOT is a Qt program. One **main thread** runs `MainWindow`'s slots one at a
time; slow work is packed in *queries* run by *tasks* in worker threads, whose
results, errors and progress messages come back to the main thread as queued
calls. libloot (external) holds each game's load order, plugins and metadata.

| component | state | operations | hard behaviour |
|---|---|---|---|
| Main window (`mw`, `query/`) | enabled/visible controls, listed plugins, plugin in the editor, count of unapplied changes, progress dialog, current game | change game, sort, apply, discard, refresh, edit metadata, filter by overlap, restore, fix ambiguous order, update masterlist, close, `--auto-sort` | handlers, results and user actions interleave; jobs fail half way; two modes (sorting, editing) share controls; a modal dialog without cancel |
| Group metadata (`state/game/game.cpp`, `qt/groups_editor/`) | masterlist and user groups, plugins' groups, messages, both metadata files | load metadata, recover removed groups, edit groups, set a plugin's group, clear, save | masterlist changes under the user's feet, indirect references, cycles, failed saves |
| Load order backups (`state/game/helpers.cpp`, `qt/restore_load_order_dialog.cpp`) | backup files, the load order | back up, prune, list, restore, delete, set the load order | failures and crashes between steps, other programs |
| Masterlist updates (`qt/tasks/`, `qt/helpers.cpp`) | masterlist files, revisions on record, metadata in use | request, reply, error, write, record, gather, load | several tasks of which some fail, double signals, timeouts, torn files, crashes |
| Game data loading (`query/types/get_game_data_query.h`, `game.cpp`) | plugins, messages of a game | three loading threads | unsynchronised messages, one thread throwing |
| Games and settings (`state/games_manager.cpp`, `state/loot_state.cpp`, `state/loot_settings.cpp`, `qt/settings/`) | settings file, configured and installed games, current game, hidden messages | start-up, detect, change game, edit settings, hide, close | copies of one game's settings, games replaced half way, old files, kills |
| Game detection (`state/game/detection/`) | the machine: installs, launchers' files, Registry | find installs, match them with configured games | one install found in several ways, several copies of a game, derived names |
| Groups editor (`qt/groups_editor/`) | graph, moved plugins, node positions | edits, save, close | unsaved changes, renames, groups nothing defines |
| Metadata editor (`qt/plugin_editor/`) | one plugin's group and tables | edit, save, cancel, clear | user and other metadata told apart by comparison, failed saves |
| Plugin list, filters, search (`qt/plugin_item_model.cpp`, `qt/filters_widget.cpp`, ...) | cards, filters, search results, counts | every handler that replaces cards or messages, clicks, typing | slots of several signals that read what others write; indices into lists that changed |
| Validation (`state/game/validation.cpp`, `plugin_item.cpp`) | none | a plugin's messages, counts of active plugins, load order indices | three kinds of plugins, optional data, conditions that fail |
| Data folder backup, painting, logging, translation | | | straight-line code |

What makes each correct, in short: a calculated load order is applied or
discarded exactly once, to its own game, and unapplied changes are always
counted; games keep their identity and settings whatever is installed or
detected; user metadata never refers to a missing group and loses nothing; an
editor saves what it shows and forgets no change; what the window shows is never
stale; what is replaced is backed up first; what is downloaded is what is used;
and every wait of the user ends. The hazards of the code, each at its line, are in
`PROJECT.json`.

## 2. Modules and runs

| module | models | instance, runs |
|---|---|---|
| `SortSession` | abstract: what LOOT promises about calculated load orders | refined by `MainWindow` |
| `MainWindow` | the window, its controls and its jobs | `MCMainWindow`: `robust`; `MCCareful`: `careful` |
| `Detection` | operators: installs found on a machine, merged with configured games | used by `Application` |
| `Application` | settings file, start-up, games, Settings dialog, hidden messages | `MCApplication`: `application`, and `hidden_messages` |
| `GroupRecovery` | metadata lists, recovery, editors | `MCGroups`: `groups`, `group_faults`, and `chain_recovery` |
| `Editors` | the groups editor and the metadata editor | `MCEditors`: `editors` |
| `Validation` | operators: cards, their messages, general messages | used by `PluginList` |
| `PluginList` | the list, its filters, search and counts | `MCPluginList`: `plugin_list` |
| `LoadOrderBackups` | backups and setting the load order | `MCBackups`: `backups` |
| `MasterlistUpdates` | update tasks, results, files, loading | `MCUpdates`: `updates`, and `stale_masterlist` |
| `MainWindowProofs`, `ApplicationProofs` (and of `Detection`), `GroupRecoveryProofs`, `EditorsProofs`, `PluginListProofs` (and of `Validation`), `LoadOrderBackupsProofs`, `MasterlistUpdatesProofs` | theorems | |
| `FoldLemmas` | induction over folds, for the proofs | |

`hidden_messages`, `chain_recovery` and `stale_masterlist` are disagreements of
the code with what it documents: TLC is expected to find the violation.

The modules share no variables: each models its component with what the others
do to it as actions. `MainWindow`'s jobs are atomic queries in `PluginList` and
`Application`; what a load finds (`Loads` in `PluginList`) is computed by
`Validation`; the groups that `GroupRecovery` brings back are user groups for
`Editors`.

Deadlock is checked except where the system stops: the closed window in
`MainWindow`; the last of `MaxStarts` sessions in `Application`; and in
`Editors` a pane whose metadata could not be saved, which leaves the window in
its editing state, with nothing to open, until LOOT is restarted.

### 2.1 `MainWindow`

**State.** `enabled` is the set of controls whose availability the code
changes; `sorting` is the visibility of Apply; `editor` the game whose plugin
is in the visible editor; `shown` what the plugin model lists; `unapplied` the
change count of `state/change_count.h` (wrapping at zero in the code, hence
`Decrement`'s guard); `progress` the modal progress dialog; `jobs` the
background jobs, each with its kind, its game, its stage, the progress messages
still posted and its outcome; `auto` the stage of `--auto-sort`. `proposed` is
history.

**Actions.** One per slot or result handler, each atomic as Qt runs it: a
handler includes everything it calls (enabling controls, resetting the progress
dialog, replacing the items). A job's worker steps (`JobStep`) run at any time.

**Choices.** Events of different jobs are delivered in any order, which
includes Qt's; within a job progress comes before the result. Message boxes are
dismissed at once. Opening and accepting the restore dialog is one action, as it
is window-modal. Other programs may change the load order, so reading it is
nondeterministic. Exceptions other than a failed apply, save, load or job are
not modelled. `++` on the count is taken as atomic: the data race on it is
undefined behaviour that no build is known to split. Editing metadata while
another game's plugins are listed makes the code dereference a null plugin; the
model then is `crashed`. The enabling of the plugin menu, layout and
notifications are left out.

**`robust`**: two games, two orders, two jobs at once, a user who takes the
actions of `SwitchActs` in any order that the controls allow, even with jobs in
flight: changing games, sorting, applying, discarding, opening the editor and
closing it without saving, filtering by overlap and updating the masterlist. It
does not have all that the window allows: at most two jobs, no new changes by
the user beyond `MaxCount` (jobs may still count), no restoring, refreshing,
saving of edits, quitting or `--auto-sort` (these are in `careful`), and none of
the slots that are left out. Two slots are what it takes for one job to overtake
another. Shows `TypeOK` (no wrap, no missing item), `PendingChangesCounted`,
`CountCovers`, `ProgressMeansWork`.

**`careful`**: one slot, a user who finishes a thing first (`Patient`), every
setting, `--auto-sort`. Shows the documented behaviour: exact count, disabled
features, the displayed proposal, edits and proposals stay with their game, the
session's sort count, `SortSession` implemented, and two liveness properties.
`MCCareful` also has TLC evaluate `CarefulUser`, the hypothesis of the theorems.
It restricts the user because the unrestricted one breaks some of these: see
section 5.

**Fairness**: weak fairness of each job's steps. Worker threads run, the event
loop delivers queued calls, and a network request ends because every request
sets `TRANSFER_TIMEOUT_MS`. Nothing is assumed of the user.

### 2.2 `GroupRecovery`

`Game::loadMetadata` on a changed masterlist: removed groups that user metadata
refers to, directly or through others, come back as user groups named
"(Recovered)"; their load-afters, the plugins in them and the messages follow.
The masterlist is any set of groups with any load-afters up to the instance's;
the user's edits may make the groups cyclic. The processing queue is modelled by
the least set closed under its step (`ProcessQueue`), which is what the loop leaves
if it ends. The queue does not tell which groups it has had, so it ends only if
no group it is given loads after itself, directly or through others
(`QueueEnds`): otherwise `UpdateNeverEnds`, and the user kills LOOT. While there
is no userlist file (`exists`), an update keeps the metadata in memory; once there
is one, an update loads it again, and edits whose save failed are dropped
(`Reloaded`). The history variable `missed` has the groups whose removal no saved
recovery answered.

Left out: the `default` group, group descriptions, duplicates in lists (sets),
metadata of plugins that are not installed, masterlists that fail to parse
(they leave the groups as they were). Users do not type "(Recovered)" names, an
editing session makes one change, a rename gives a new name, masterlists define
the groups they name.

- `groups`: sequences of updates and edits; saving never fails, and masterlists
  are acyclic (`ThreeGroups`). `ReferencesExist`, `LoadAftersKept`,
  `NoCycleIntroduced`, `RecoveryReported`.
- `group_faults`: saving may fail, the masterlist file of a game may be updated
  while another game is loaded, and a masterlist may have a group that loads
  after itself, whose recovery never ends. References may then
  dangle, and `DanglingOnlyMissed` says to what: to groups whose removal was missed
  in one of these ways. Neither edits nor recovery from metadata that has
  dangling references add any. `NoCycleIntroduced`, `TypeOK`. Two masterlist
  groups, one edge and no plugin keep the instance small; failing steps need no third group, and
  the theorem has no such bounds.
- `chain_recovery`: with a chain of three a removed group is passed over because
  the queue is filled before it is processed.

### 2.3 `LoadOrderBackups`

`Game::setLoadOrder` as the steps it takes: `BackUp` makes the file, `Write`
writes it or, unnoticed, does not; `Prune` removes the oldest automatic backup
while there are more than `MaxBackups`; then the load order is set, or something
throws. `Restart` may come between any two. Times of backups count creations
(the clock does not go back; no two backups in one millisecond); the three files
of older versions (`loadorder.bak.N`) are older than all. Load orders are model
values; leaving out uninstalled plugins on restore is not modelled.

`backups`: `MaxBackups = 2` and five new backups, so that pruning happens several
times, one legacy file, three symmetric orders. `BackedUpBeforeSet`,
`NoMoreThanMax`, `OnlyOldestRemoved`, `TypeOK`. Note what is *not* claimed: the
backup holds the load order LOOT has read, which another program may have
replaced since.

### 2.4 `MasterlistUpdates`

One task per file (`Prelude` and each game's masterlist). A task waits for its
reply; a failed request emits `error` when `errorOccurred` comes and still gets
`finished`, whose handler looks at the status only. Data equal to the file's
content (by hash) only refreshes the record; otherwise the file is emptied,
written and put on record in three steps between which LOOT may be killed.
Writing the record is checked no more than the code checks it: only a record that
cannot be opened is an error (the fault `record`). One that is opened and not
written, as on a full disk, or during which LOOT is killed, is left without a
revision that can be read, and the task reports success all the same. Only
the first signal of a task counts; when all tasks have one, either the first
error is shown and nothing is loaded, or what was updated is. `Faults` says what
may go wrong. The trailing `finished` of a failed request is taken to be handled
before the user starts something else. A sort with "update masterlist before
sorting" is, up to the sort, `UpdateMasterlist`.

`updates`: two games, one with a local path as its source (whose errors differ),
one revised masterlist, all faults, one file there from the start (`Present`:
any files may be, and the theorems say so). `StaleOnlyAfterError`, `UpdatesRepair`,
`UpdateEnds`, `TypeOK`. `stale_masterlist`: after one request failed, the next
update reports that nothing was necessary while the old masterlist is in use.

Fairness: weak fairness of each task's steps (a request is answered, fails or
times out) and of the handler of the results.

### 2.5 `Detection` and `Application`

`Detection` translates `state/game/detection/`: from a *world* (the installs on
the disk and the claims that launchers' files and Registry values make about
them) each detector, in the code's order, gives a sequence of installs;
duplicates go; each that is left fills the paths of the first configured game it
matches or becomes a new one, with a derived name and folder, and the games are
sorted. Paths stand for directories, names are records of base, store and
index. Parsing the launchers' files, and finding them, is left out.

`Application` is what uses it. `Start` reads the file (migrating old entries,
dropping bad ones), applies the arguments, detects, picks the initial game and
shows it unless there was an error. The Settings dialog holds inputs that are
copies of the settings; accepting it detects again, replaces the `Game` objects
and may stop half way by an exception. The history variable `accepted` says
whether that has happened since the start, and whether the dialog was recorded
to its end since then. Each `Game` object has
settings of its own (`installed`), which are recorded in `settings` at certain
moments only. `Close` saves; `Kill` may leave a truncated file. The machine may
change at any moment outside the dialog.

- `application`: Skyrim SE and Enderal SE, which share a master file; two
  directories; a Windows machine with Steam and Registry installs and a Linux
  one; no settings file, or an old one with a bad entry; two starts, one of them
  with `--game-path`; one install or removal; one edit. Two starts are what it
  takes to load what was saved, one change to have a start after it. Shows
  `TypeOK`, `FoldersUnique`, `CopiesAgree`, `DetectionIsStable`,
  `ConfiguredGamesKept`. `CopiesAgree` speaks of the time until an accept is cut
  short: why not of the time after it is in section 5.
- `hidden_messages`: accepting the Settings dialog unhides the hidden messages
  of all games but the current one.

### 2.6 `Editors`

The groups editor's graph (nodes keep the identity that they were made with when
they are renamed), its moved plugins, node positions and unsaved changes; the
metadata editor's group and one of its eight tables, which work alike; what both
save, with saving that may fail. `GroupRecovery` has the same saves against
masterlist updates; here the masterlist is fixed and sessions have many edits.

`editors`: two plugins, one put in a group by the masterlist; a masterlist that
refers to a group it does not define; empty user metadata, or a user group with
both plugins; three edits, which is what moving, renaming and removing need.
`RemovalRule`, `UnsavedChangesNoticed`, `SavedGraphIsReopened`, `SavePaneKeeps`,
`TypeOK`. The first three assume that no two groups have had one name
(`clashed`), which the editor does not enforce: section 5.

### 2.7 `Validation` and `PluginList`

`Validation` computes, from what is known of a game, the cards of its plugins
(`checkInstallValidity`, `PluginItem`'s constructor, `mapToLoadOrderTuples`) and
the general messages (`Game::getMessages`). A message is its type, source and
subject. Metadata conditions are libloot's and are a flag.

`PluginList` shows them: `list` is the model with its proxy, the search and the
counts; `widget` the sidebar's inputs. A handler is the composition of all the
slots that its signals reach, in the order they reach them (`Redisplay`,
`ContentChanged`, `SetCard`, ...), so that a forgotten or misplaced one leaves
something stale. The warnings filter's memory starts as the code's default filters, which
hide bash tags and locations (`DefaultFilters`), not as the boxes that are
restored from the last session. Clearing all metadata, editing while a sorted order is pending,
and changing games behave as the code does, with what section 5 says of them.

`plugin_list`: two games, one of them with two loads that differ in order,
groups, tags and messages, a limit of one full plugin so that it is exceeded;
filters of the last session; a regular expression that also matches the empty
string, an invalid one; two events (loads, edits, filters, searches) and any
number of clicks on the warnings filter and its parts. `NothingStaleShown`,
`WarningsFilterRestores`.

## 3. Proofs

TLAPS proves, for every value of the constants:

- `MainWindowProofs`: for every user, `TypeCorrect`; `ProgressAlwaysMeansWork`
  (`ProgressMeansWork`); and `CountCorrect`, the inductive invariant that the
  count covers the pending order, the open editor and every sort that has been
  counted but not yet shown, and from it `PendingChangesAreCounted`, that closing
  with unapplied changes asks first. `PendingChangesCounted` alone is not
  inductive: the worker counts before the window shows, so the jobs in flight
  have to be in the invariant, as a finite set whose cardinality each step
  changes by at most one. For the careful user (`CarefulUser`: nothing
  is started while a job is in flight, and what replaces a pending order or
  edits is left alone), everything the run `careful` checks: `CountIsAlwaysExact`,
  `FeaturesStayDisabled`, `ProposalStays`, `EditsStayWithTheirGame`,
  `GameStaysFixed`, `SortedStaysCounted` and `SortSessionImplemented`, the
  refinement of `SortSession`, step by step. None of these is inductive;
  `CarefulInv` is: at most one job is in flight (`OneJob`), none while an order or
  the editor is pending (`IdleWhilePending`), and it is for the current game
  unless it is about to change that (`JobsMatchGame`); so its result meets the
  window as the job left it, and the count, the disabled controls, the games'
  sort counts and the proposal can be said exactly.
- `LoadOrderBackupsProofs`: `TypeCorrect`; `BackupPrecedesSet`, which follows the
  backup from its making (`Inv`: it is there, automatic, and no backup is later,
  so that pruning, which removes only what is older than `MaxBackups >= 1`
  others, spares it); `NoMoreThanMaxKept`; `OnlyOldestPruned`, from the fact that
  all automatic backups but the oldest are later than it.
- `MasterlistUpdatesProofs`: `TypeCorrect`; `NoSilentStaleness`
  (`StaleOnlyAfterError`) and `UpdatesAreRepairs` (`UpdatesRepair`), for any
  games, local sources, revisions and faults. Neither property says anything
  while an update runs, so the inductive invariant `IInv` does: a task that has
  not ended has emitted no success, or its error was shown (`FileInv`); its file
  is torn until it is written, and then is what it received; and if the metadata
  in use is not what the files hold, some task of the update will still say so,
  by `updated` or by `error` (`Mirrors`, `Pending`). `UpdatesRepair` allows a record
  that cannot be read, as its write may fail silently; a file that is whole
  never has a record of another revision. When results without an
  error are handled, every task has therefore ended and nothing is pending that
  is not loaded.
- `ApplicationProofs`, for any games, machines, settings files and command lines,
  and any number of starts, edits and installs: `TypeCorrect`; `FoldersStayUnique`
  (`FoldersUnique`); `CopiesStayAlike` (`CopiesAgree`); `DetectionStable`
  (`DetectionIsStable`); `ConfiguredStays` (`ConfiguredGamesKept`). The code finds
  a game by its folder, so that everything rests on folders being unique: only
  then does an entry stand for its game. `Inv` says this of every list of games
  at once (`Proper`), of the file too, and what the lists hold. What
  detection does to a list is one relation, `Detects`, proved of the whole of it:
  every configured game is still there with empty paths filled at most, folders
  stay unique because a derived name is one that is free (`deriveName` tries one
  more than there are), what was found is among the paths, and if it was before,
  nothing is added or filled. So detection is stable once all finds are in the
  settings, which is what `FindsRecorded` says for the machine last looked at.
  For `CopiesAgree` the object that is kept when the dialog is accepted has to be
  that of the same game in the dialog, which `CurrentTab` adds: the current
  game has a tab with its folder and kind, as it cannot be deleted.
- `GroupRecoveryProofs`, for any masterlists, names and plugins, with the bounds on
  the user's groups and edges of any size: `TypeCorrect`; `OnlyMissedDangle`
  (`DanglingOnlyMissed`), whatever fails; `ReferencesAlwaysExist`, under the
  assumptions of the run `groups` (`Saves = {TRUE}`, `~Elsewhere` and acyclic
  masterlists; without them it is false); `LoadAftersAreKept`, whatever fails;
  `RecoveriesAreReported`, if the userlist can be written. Masterlists may be
  cyclic, but where that keeps the queue from emptying there is no state after
  the update to say anything of: the three statements about updates are about
  those that end. `DanglingOnlyMissed` says nothing of a game that is not loaded,
  so its inductive invariant `MissedInv` adds that what is loaded is what is in
  the masterlist file, and that the userlist too refers to nothing but groups
  that exist or were missed. If saves succeed, masterlists change only while loaded and
  all updates end (`AcyclicQueueEnds`), nothing is ever missed, and all references
  exist. The
  step that needs work is the update (`RecoveredReferencesExist`): every name in
  the new metadata comes from a reference of the old one, from a group that is
  kept or renamed, or from a load-after of such a group, which is recovered
  because the queue is processed to its end (`RecoveryIsClosed`).
  `NoCycleIsIntroduced` (`NoCycleIntroduced`), whatever fails. Groups are acyclic if
  every set of them has a group that loads after none of the set, so that no
  paths, and no induction over them, are needed: the groups of a cycle after the
  update that existed before it, under their old names, would each load after
  another of them (`NoNewCycle`, `AcyclicLoadsAfter`). This needs new names to be
  distinct from all that the user's groups load after, which `CycleInv` says
  (`SuffixedExist`): a recovered name cannot be one that is referred to but does
  not exist. The property asks that the new masterlist is itself acyclic: if it is
  not, sorting has its cycle without any recovery.
- `EditorsProofs`, for any masterlist, userlists, plugins and names, and any number
  of edits: `TypeCorrect`; `GroupsWithPluginsStay` (`RemovalRule`);
  `EditsAreNoticed` (`UnsavedChangesNoticed`); `UneditedPaneKeeps`
  (`SavePaneKeeps`). Flags that are right are not enough to go on with: a group
  that is added has no plugins only because every plugin's group already has a
  node, so `RemovalInv` adds that (`Covered`). Adding several plugins goes through
  them one by one, and in between the flag of the group they are put in may be
  wrong (`FlagsBut`); it is set last. That the plain comparison of groups notices
  every edit rests on names being distinct (`AsMapTells`), which the state of the
  dialog keeps as long as `clashed` is false (`IsDialog`). `SavedGraphStays`
  (`SavedGraphIsReopened`) needs `GraphInv`: the user edits no node and no edge of
  the masterlist, so that the only one of its load-afters that can be missing is
  of a group that it refers to without defining it. If all of them are shown, no
  others are shown in their place, since a group's load-afters are finitely
  many (`CoverIsAll`, `MasterlistShownOnly`).
- `PluginListProofs`, for any games, loads, filters, texts and number of events:
  `NothingStaleIsShown` (`NothingStaleShown`), from what each slot that a handler
  reaches keeps and makes fresh; and `WarningsAreUndone`
  (`WarningsFilterRestores`), whose invariant says what the checkboxes that the
  warnings filter took were when it was enabled, or, if that was in an earlier
  session, that the memory is the default.
- `PluginListProofs`, of `Validation`, for any game, plugins, metadata and limits:
  `UnmetMastersReported` (an active plugin's missing or inactive master is an
  error on its card, unless it is for a bashed patch); `MastersOnlyImprove`
  (installing or activating other plugins makes no master missing or inactive);
  `IndicesIncrease` (active plugins of one kind have increasing indices); and
  `SharedSlotsReported`, which joins the two halves of the module: if a card
  shows a full plugin at the index that active light or medium plugins share, the
  general messages warn of it. It rests on `IndexBelowCount`: the plugins before
  one are among those that are counted, without itself.

- `FoldLemmas` has no counterpart in the code. A handler that goes through a list
  is a fold in the models, and what a fold computes needs induction. The library's
  induction theorems cannot be applied to an operator by the prover, so this
  module takes the operation and the invariant of the loop as operator constants,
  and proves the lemma `FoldInduction` for them from the well-foundedness of the natural
  numbers; a proof instantiates it with the handler's loop.

Assumptions are the named `ASSUME`s of the modules, which TLC evaluates in
every run: what constants are (games, names, finite lists of plugins); in
`Editors` that the first userlists and the masterlist are what metadata files
hold, a masterlist group's load-afters being finitely many; and in `Application`
that a settings file, if there is one, is one that LOOT has written, in this
version or an older one (`IsFile`: no two of its valid entries have one folder),
or is cut short. Names there are sequences of words, not strings, since the
prover knows nothing of strings.

Only model-checked: the liveness properties (`ProgressEnds`, `AutoSortEnds`,
`UpdateEnds`), which are out of the prover's reach. Every other property of a
passing run is a theorem.

## 4. Plan

Every component but those of section 6 is modelled. What is left, in order of
importance:

1. The three loading threads and `Game::messages_`, which are shared without a
   lock, as a module of accesses that begin and end.

## 5. Known divergences

Met while modelling; the models do as the code does. Three have a run.

- Accepting the Settings dialog loses hidden messages of all games but the
  current one (`qt/settings/game_tab.cpp:98`, run `hidden_messages`).
- With a chain of three, a removed group is passed over by the recovery
  (`state/game/game.cpp:606`, run `chain_recovery`). The removed groups of games that were
  not loaded when their masterlist was updated are never recovered (`mw:1763`), and
  neither are those of an update whose recovery could not be saved
  (`state/game/game.cpp:644`) or never ended: removed groups that load after each
  other in a cycle keep the queue from emptying (`state/game/game.cpp:619`).
- After one request failed, the next update says that none was necessary while
  the old masterlist is in use (`mw:2461`, run `stale_masterlist`).
- Editing while a sorted order is pending, and closing the editor, enables
  changing games (`mw:1047`); the overlap filter and restoring a backup replace
  the displayed order, which Apply then sets (`mw:2369`, `mw:3062`, `mw:2798`);
  `--auto-sort` goes on after errors (`mw:2909`, `mw:1315`).
- After *Clear All User Metadata* the cleared cards' load order indices count
  only plugins that had user metadata (`query/types/clear_all_metadata_query.h:76`): the
  third state of `PluginList` has a wrong one. Cards that are made again while a
  sorted order is pending get the old order's index and keep it after Apply.
- After changing games the model still hides the first game's hidden messages,
  and the content filters use its official plugins (`mw:420`, `mw:2839`).
- The search looks at unfiltered content (`qt/plugin_item_model.cpp:329`), *Find
  Next* with one result toggles its highlight, and the current result's number
  counts marked rows that are filtered out.
- If LOOT starts with the warnings filter and its parts enabled, as they were in the
  last session, disabling the filter leaves bash tags and locations hidden: its memory
  starts with those two (`qt/filters_widget.h:95`, `state/loot_settings.h:68`).
- A record of a masterlist's revision that is not written, on a full disk, is not
  noticed (`qt/helpers.cpp:89`): the update reports success, and the revision is
  shown as unknown (`qt/helpers.cpp:257`) until an update writes it again.
- A selection that vanishes from the sidebar's lists is dropped without a
  signal; a failed overlap query leaves its plugin selected; the groups
  editor's changes do not reach the sidebar's groups.
- Accepting the Settings dialog may throw after the `Game` objects are replaced
  and before their settings are recorded (`mw:2686`). Accepting it again
  does not always put that right: the current game's object is kept by its
  folder, which may be that of another game in the settings (one that was
  deleted, while a game that was added took its folder, in the dialog that was
  not recorded), and gets that game's name and source only. The proof of `CopiesAgree` found this.
- Started without a game, none can be chosen, as changing games writes the
  messages of the current one first. A game that is moved becomes a new entry.
  Entries that cannot be read are dropped without an error. A settings file
  cut short becomes default values, which closing saves.
- The groups editor lets a group take another one's name, drops self-loads and
  descriptions, shows groups that only the masterlist refers to as the user's
  (they come back), and lets one in use be removed if it had no node when the
  editor was opened. The metadata editor saves "X (Group does not exist)" as
  the name of a group. A failed save leaves the window in its editing state.

## 6. Not modelled

The three threads that load a game's data run in one step, and so does the check
for a new version of LOOT: their unsynchronised accesses to `Game::messages_`
are undefined behaviour inside that step, which no property of these modules
covers. The lifetimes of worker threads have no effect on the window. Painting,
layout (partly vendored), translation, logging, the data folder backup's zip and
settings that are copied field by field are I/O or library calls without a
protocol.
