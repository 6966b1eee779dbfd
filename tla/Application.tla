---------------------------- MODULE Application ----------------------------
(***************************************************************************)
(* The application's games and settings: the settings file, start-up, the   *)
(* games that are installed and the current one, the Settings dialog, the   *)
(* games drop-down, hidden messages and closing the window (LootState,      *)
(* LootSettings, GamesManager, SettingsDialog and their callers in          *)
(* MainWindow).                                                            *)
(*                                                                         *)
(* Every handler here runs in the main thread and is one action; changing   *)
(* the game runs in a worker, behind a dialog that keeps the user from      *)
(* anything else (module MainWindow), and is one action too.  Of a game's   *)
(* settings its master file and minimum header version are left out: they   *)
(* are handled as its local path and its masterlist source are.             *)
(***************************************************************************)
EXTENDS Detection

CONSTANTS
  NoGame, NoFile, NoDialog,
  Truncated,        \* what a settings file holds that was not written to its end
  Worlds,           \* what is on the machine at first
  Claims,           \* what launchers may claim later
  Files,            \* the settings files at first
  CommandLines,     \* the arguments that LOOT may be started with
  CustomNames,      \* names that the user may give to a game
  GeneralMessages, PluginMessages,
  MaxChanges,       \* bound: installs and removals of games
  MaxEdits,         \* bound: edits in the Settings dialog, and hidings
  MaxStarts         \* bound: how often LOOT is started

Messages == GeneralMessages \cup PluginMessages

\* A game's settings.  Masterlist sources are told apart as the migration of
\* old ones does; on Linux a store has a prefix for a game's local data.
Stores == {"", "steam", "gog", "epic", "microsoft"}
GameNames == [base : Range(Alphabetical), store : Stores, n : Nat]
Paths == Seq(STRING)
Locals == Paths \cup {<<r, sub>> : r \in Range(Roots), sub \in {"compatdata", "prefix"}}
Sources == {"default", "own", "old", "vr", "fork", "clone"}
Game == [id : Ids, folder : GameNames, name : GameNames, path : Paths, local : Locals,
         source : Sources, hidden : SUBSET Messages]

VARIABLES
  world, changes,   \* the machine, and how often it has changed
  finds,            \* the installs that detection finds on it
  file,             \* the settings file
  folders,          \* the games' folders in LOOT's data folder
  running, starts,
  settings,         \* LootSettings
  installed,        \* GamesManager: the Game objects, each with its settings
  current,          \* and the folder of the current one
  view,             \* what the window shows: a game, and what it hides
  dropdown,         \* the folders in the games drop-down
  dialog,           \* the Settings dialog's inputs
  edits,
  accepted,         \* history: were the Settings dialog's inputs always recorded to
                    \* the end since LOOT was started, or again after they were not?
  detected          \* history: the machine at the last detection

appVars == <<settings, installed, current, view, dropdown, dialog, accepted,
            detected>>
vars == <<world, finds, changes, file, folders, running, starts, edits, appVars>>

\* Folder names that are no game's.
AutoSelect == Name("auto", "", 0)
Unselected == Name("", "", 0)

Defaults == [game |-> AutoSelect, lastGame |-> AutoSelect, games |-> <<>>]
NoView == [game |-> NoGame, hidden |-> {}]

Folders(games) == {g.folder : g \in Range(games)}
Entry(games, folder) == games[CHOOSE i \in DOMAIN games :
                                /\ games[i].folder = folder
                                /\ \A j \in 1 .. i - 1 : games[j].folder # folder]
Put(games, folder, e) ==
  [i \in DOMAIN games |-> IF games[i] = Entry(games, folder) THEN e ELSE games[i]]
Replace(games, folder, field, value) ==
  Put(games, folder, [Entry(games, folder) EXCEPT ![field] = value])

NotRunning ==
  /\ running = FALSE
  /\ settings = Defaults
  /\ installed = <<>>
  /\ current = NoGame
  /\ view = NoView
  /\ dropdown = {}
  /\ dialog = NoDialog
  /\ accepted = "always"

Init ==
  /\ world \in Worlds
  /\ finds = FindGameInstalls(world)
  /\ changes = 0
  /\ file \in Files
  /\ folders = {}
  /\ starts = 0
  /\ edits = 0
  /\ detected = world
  /\ NotRunning

-----------------------------------------------------------------------------
(* The settings file.  A game is written under its gameId; files of older   *)
(* versions have a type, which total conversions share with the game they   *)
(* convert, a repository and branch for a masterlist source, and a local    *)
(* folder.                                                                 *)

ConversionOf(type) ==
  CASE type = "tes4" -> "nehrim" [] type = "tes5" -> "enderal"
    [] type = "tes5se" -> "enderalse" [] OTHER -> type

\* By the conversion's launcher if the path is there, or else by the entry.
IdOf(w, t) ==
  IF "id" \in DOMAIN t THEN t.id
  ELSE IF IF t.path \in DOMAIN w.dirs
          THEN w.dirs[t.path].id = ConversionOf(t.type)
          ELSE t.looksConverted
  THEN ConversionOf(t.type) ELSE t.type

\* Old branches of the official repositories become the current one, and the
\* VR games' sources become those of the games they are versions of.
MigrateSource(source) == IF source \in {"old", "vr"} THEN "default" ELSE source

\* A repository of GitHub's or on this machine becomes a source; the VR games'
\* own repositories are only replaced when the result is loaded again.
MigrateRepo(repo) == IF repo \in {"vr", "fork", "clone"} THEN repo ELSE "default"

\* Nothing for an entry that is not valid.
ConvertGame(w, t) ==
  IF t.valid = FALSE THEN <<>>
  ELSE <<[GameSettings(IdOf(w, t), t.folder) EXCEPT
            !.name = t.name,
            !.source = IF t.source # "none" THEN MigrateSource(t.source)
                       ELSE MigrateRepo(t.repo),
            !.path = t.path,
            !.local = t.local,
            !.hidden = t.hidden]>>

Written(g) == [f \in DOMAIN g \cup {"valid"} |-> IF f = "valid" THEN TRUE ELSE g[f]]
Saved(s) == [s EXCEPT !.games = [i \in DOMAIN s.games |-> Written(s.games[i])]]

Load(w, f) ==
  IF f \in {NoFile, Truncated} THEN Defaults
  ELSE [f EXCEPT !.games = FlattenSeq([i \in DOMAIN f.games |-> ConvertGame(w, f.games[i])])]

\* A file that LOOT, of this version or an older one, has written: of the games
\* that are valid no two have the same folder.
IsEntry(t) ==
  t.valid # FALSE =>
    /\ t.folder \in GameNames /\ t.name \in GameNames
    /\ IF "id" \in DOMAIN t THEN t.id \in Ids ELSE {t.type, ConversionOf(t.type)} \subseteq Ids
    /\ t.path \in Paths /\ t.local \in Locals
    /\ t.source \in Sources \cup {"none"}
    /\ t.hidden \subseteq Messages
IsFile(f) ==
  /\ DOMAIN f = {"game", "lastGame", "games"}
  /\ IsList(f.games)
  /\ \A i \in DOMAIN f.games : IsEntry(f.games[i])
  /\ \A i, j \in DOMAIN f.games :
       /\ f.games[i].valid # FALSE /\ f.games[j].valid # FALSE
       /\ f.games[i].folder = f.games[j].folder
       => i = j

IsWorld(w) == DOMAIN w = {"windows", "dirs", "claims"} /\ DOMAIN w.dirs \subseteq Paths

ASSUME FilesAssumption == \A f \in Files : f \in {NoFile, Truncated} \/ IsFile(f)
ASSUME PathsAssumption ==
  /\ \A w \in Worlds : IsWorld(w)
  /\ \A c \in Claims : c.path \in Paths
  /\ \A args \in CommandLines : args.path \in Paths
ASSUME NoGameAssumption == NoGame \notin GameNames
ASSUME CustomNamesAssumption == CustomNames \subseteq Range(Alphabetical)
ASSUME BoundsAssumption == {MaxChanges, MaxEdits, MaxStarts} \subseteq Nat

\* Reading the file reports an error; entries that are dropped only do if it
\* is their game that is not known.
LoadErs(f) ==
  \/ f = Truncated
  \/ f # NoFile /\ \E t \in Range(f.games) : t.valid = FALSE /\ t.unknown

-----------------------------------------------------------------------------
(* The games.                                                              *)

InstalledOf(w, games) == Where(games, LAMBDA s : IsInstalled(w, s))

Updated_Source(game, s) == [game EXCEPT !.source = s.source]
CurrentAmong_Kept(objects) == current

\* GamesManager::setInstalledGames: the current game's object is kept, and
\* updated, unless its paths have changed; there is no current game any more
\* when its object is not among the new ones.
NeedsRecreating(game, s) == game.path # s.path \/ game.local # s.local
Updated(game, s) == [game EXCEPT !.name = s.name, !.source = s.source]

Kept(s) ==
  /\ current = s.folder
  /\ ~NeedsRecreating(Entry(installed, current), s)

InstalledGames(games) ==
  LET found == InstalledOf(world, games)
  IN [i \in DOMAIN found |-> IF Kept(found[i])
                             THEN Updated(Entry(installed, current), found[i])
                             ELSE found[i]]

CurrentAmong(objects) == IF current \in Folders(objects) THEN current ELSE NoGame

\* The game named on the command line, or else the default game, or else the
\* last one, if it is installed; or else the first one that is.
InitialGame(cmdLineGame, s, games) ==
  LET wanted == CASE cmdLineGame # NoGame -> cmdLineGame
                  [] s.game # AutoSelect -> s.game
                  [] OTHER -> s.lastGame
  IN CASE wanted \in Folders(games) -> wanted
       [] games # <<>> -> games[1].folder
       [] OTHER -> NoGame

\* --game-path replaces the configured path of the game that --game names.
OverridePath(s, args) ==
  IF args.path # NoPath /\ args.game \in Folders(s.games)
  THEN [s EXCEPT !.games = Replace(@, args.game, "path", args.path)]
  ELSE s

\* refreshGamesDropdown.
Listed(objects) == Folders(objects)

\* The arguments or the settings file are at fault.
StartErs(args) ==
  \/ LoadErs(file)
  \/ args.autoSort /\ args.game = NoGame
  \/ args.path # NoPath /\ args.game \notin Folders(Load(world, file).games)

\* What the window shows once the first game's data has been loaded.
FirstView(found, first) == [game |-> first, hidden |-> Entry(found, first).hidden]

\* LootState::init and MainWindow::initialise: with an error, of which a game
\* that cannot be initialised is one too, no game is shown.
Start(args) ==
  /\ ~running
  /\ starts < MaxStarts
  /\ starts' = starts + 1
  /\ running' = TRUE
  /\ detected' = world
  /\ LET loaded == OverridePath(Load(world, file), args)
         games == FindInstalledGames(world, finds, loaded.games)
         found == InstalledOf(world, games)
         first == InitialGame(args.game, loaded, found)
     IN /\ settings' = [loaded EXCEPT !.games = games]
        /\ installed' = found
        /\ current' = first
        /\ dropdown' = Listed(found)
        /\ folders' = folders \cup ({first} \ {NoGame})
        /\ \/ /\ ~StartErs(args) /\ first # NoGame
              /\ view' = FirstView(found, first)
           \/ view' = NoView
  /\ dialog' = NoDialog
  /\ accepted' = "always"
  /\ UNCHANGED <<world, finds, changes, file, edits>>

Ready == running /\ dialog = NoDialog

\* recordCurrentGameHiddenMessages.
RecordHidden(s, games, c) ==
  IF c \in Folders(s.games) /\ c \in Folders(games)
  THEN [s EXCEPT !.games = Replace(@, c, "hidden", Entry(games, c).hidden)]
  ELSE s

\* handleGameChanged leaves the hidden messages that the model has.
ChangedView(f) == [view EXCEPT !.game = f]

\* ChangeGameQuery.  The old messages of the current game are written first,
\* which fails when there is none; a game that is not found leaves none, and
\* one that cannot be initialised stays the current one.
ChangeGame(f) ==
  /\ Ready
  /\ f \in dropdown \ {current}
  /\ current # NoGame
  /\ current' = IF f \in Folders(installed) THEN f ELSE NoGame
  /\ \E ok \in BOOLEAN :
       view' = IF ok /\ current' # NoGame THEN ChangedView(f) ELSE view
  /\ folders' = folders \cup ({current'} \ {NoGame})
  /\ UNCHANGED <<world, finds, changes, file, running, starts, edits, settings, installed,
                 dropdown, dialog, accepted, detected>>

\* A handler that changes which of the current game's messages are hidden.
SetHidden(hidden, shown) ==
  /\ Ready
  /\ current # NoGame
  /\ installed' = Replace(installed, current, "hidden", hidden)
  /\ current' = current
  /\ settings' = RecordHidden(settings, installed', current)
  /\ view' = [view EXCEPT !.hidden = shown]
  /\ UNCHANGED <<world, finds, changes, file, folders, running, starts, dropdown,
                 dialog, accepted, detected>>

Hidden == Entry(installed, current).hidden

\* Only a message that is shown can be hidden; it is added to what the model
\* hides, where the other handlers replace that.
Hide(m) ==
  /\ view.game # NoGame /\ m \notin view.hidden
  /\ current # NoGame
  /\ edits < MaxEdits
  /\ edits' = edits + 1
  /\ SetHidden(Hidden \cup {m}, view.hidden \cup {m})
Unhide(ms) ==
  /\ current # NoGame /\ Hidden \cap ms # {}
  /\ SetHidden(Hidden \ ms, Hidden \ ms)
  /\ UNCHANGED edits
UnhideAll == Unhide(Messages)
UnhideGeneral == Unhide(GeneralMessages)
UnhidePlugin == Unhide(PluginMessages)

-----------------------------------------------------------------------------
(* The Settings dialog.                                                    *)

\* The tabs do not hold hidden messages.
TabOf(s) == [s EXCEPT !.hidden = {}]

\* A default game that is not in the list leaves nothing selected, which is
\* recorded as an empty name.
InputsOf(s) ==
  [default |-> IF s.game \in Folders(s.games) \cup {AutoSelect} THEN s.game ELSE Unselected,
   listed |-> Folders(s.games) \cup {AutoSelect},
   tabs |-> [i \in DOMAIN s.games |-> TabOf(s.games[i])]]

OpenSettings ==
  /\ Ready
  /\ dialog' = InputsOf(settings)
  /\ UNCHANGED <<world, finds, changes, file, folders, running, starts, edits, settings,
                 installed, current, view, dropdown, accepted, detected>>

EditInputs(d) ==
  /\ edits < MaxEdits
  /\ edits' = edits + 1
  /\ dialog' = d
  /\ UNCHANGED <<world, finds, changes, file, folders, running, starts, settings,
                 installed, current, view, dropdown, accepted, detected>>

InDialog == dialog # NoDialog

ChooseDefault == InDialog /\ \E f \in dialog.listed \ {dialog.default} :
                   EditInputs([dialog EXCEPT !.default = f])

EditTab == InDialog /\ \E i \in DOMAIN dialog.tabs :
  \/ \E n \in {Name(c, "", 0) : c \in CustomNames} :
       EditInputs([dialog EXCEPT !.tabs[i].name = n])
  \/ \E p \in (DOMAIN world.dirs \cup {NoPath}) \ {dialog.tabs[i].path} :
       EditInputs([dialog EXCEPT !.tabs[i].path = p])

\* The current game's Delete button is disabled.
DeleteGame == InDialog /\ \E i \in DOMAIN dialog.tabs :
  /\ dialog.tabs[i].folder # current
  /\ EditInputs([dialog EXCEPT !.tabs = RemoveAt(@, i)])

\* A folder is derived that no other tab has and that is not on the disk.
NewFolder(g) == DeriveName(g, "", Folders(dialog.tabs) \cup folders)
AddGame == InDialog /\ \E g \in Ids, c \in CustomNames :
  EditInputs([dialog EXCEPT !.tabs =
                Append(@, [GameSettings(g, NewFolder(g)) EXCEPT !.name = Name(c, "", 0)])])

CancelSettings ==
  /\ InDialog
  /\ dialog' = NoDialog
  /\ UNCHANGED <<world, finds, changes, file, folders, running, starts, edits, settings,
                 installed, current, view, dropdown, accepted, detected>>

\* on_settingsDialog_accepted.  The general inputs are recorded, then the
\* games are detected and replaced, which throws when the current game is not
\* found any more, or has to be made again and cannot be initialised; then
\* neither the games' settings nor anything after them is recorded.
AcceptSettings ==
  /\ InDialog
  /\ dialog' = NoDialog
  /\ detected' = world
  /\ LET games == FindInstalledGames(world, finds, dialog.tabs)
         objects == InstalledGames(games)
         lost == current # NoGame /\ current \notin Folders(objects)
         recreated == /\ current # NoGame /\ ~lost
                      /\ ~Kept(Entry(games, current))
         general == [settings EXCEPT !.game = dialog.default]
     IN /\ installed' = objects
        /\ current' = CurrentAmong(objects)
        /\ \E throws \in IF lost THEN {TRUE} ELSE IF recreated THEN BOOLEAN ELSE {FALSE} :
             /\ IF throws
                THEN accepted' = "failed" /\ settings' = general /\ UNCHANGED <<file, dropdown>>
                ELSE /\ accepted' = IF accepted = "always" THEN accepted ELSE "again"
                     /\ settings' = RecordHidden([general EXCEPT !.games = games],
                                               objects, current')
                     /\ file' = Saved(settings')
                     /\ dropdown' = Listed(objects)
  /\ UNCHANGED <<world, finds, changes, folders, running, starts, edits, view>>

-----------------------------------------------------------------------------
(* The end of the program, and the machine it runs on.                     *)

Stop ==
  /\ running' = FALSE
  /\ settings' = Defaults
  /\ installed' = <<>>
  /\ current' = NoGame
  /\ view' = NoView
  /\ dropdown' = {}
  /\ dialog' = NoDialog
  /\ accepted' = "always"
  /\ UNCHANGED <<world, finds, changes, folders, starts, edits, detected>>

\* closeEvent: the current game becomes the last one, and the settings are
\* saved, whether LOOT has started without errors or not.
Close ==
  /\ Ready
  /\ Stop
  /\ LET last == IF current = NoGame THEN settings ELSE [settings EXCEPT !.lastGame = current]
     IN file' = Saved(RecordHidden(last, installed, current))

\* LOOT is killed, perhaps while it writes the file, which it does in place.
Kill ==
  /\ running
  /\ Stop
  /\ file' \in {file, Truncated}

\* While the Settings dialog is open, LOOT does not look at the machine: a
\* change then is one before the dialog is opened.
ChangeWorld(w) ==
  /\ dialog = NoDialog
  /\ changes < MaxChanges
  /\ changes' = changes + 1
  /\ world' = w
  /\ finds' = FindGameInstalls(w)
  /\ UNCHANGED <<file, folders, running, starts, edits, appVars>>

InstallGame == \E c \in Claims :
  ChangeWorld([world EXCEPT
    !.claims = @ \cup {[launcher |-> c.launcher, id |-> c.id, root |-> c.root]},
    !.dirs = [p \in DOMAIN @ \cup {c.path} |->
                IF p = c.path THEN [id |-> c.id, source |-> c.source] ELSE @[p]]])

\* What is removed, or moved, may still be claimed.
RemoveGame == \E p \in DOMAIN world.dirs :
  ChangeWorld([world EXCEPT !.dirs = [q \in DOMAIN @ \ {p} |-> @[q]]])

Next ==
  \/ \E args \in CommandLines : Start(args)
  \/ \E f \in dropdown : ChangeGame(f)
  \/ \E m \in Messages : Hide(m)
  \/ UnhideAll \/ UnhideGeneral \/ UnhidePlugin
  \/ OpenSettings \/ ChooseDefault \/ EditTab \/ DeleteGame \/ AddGame
  \/ CancelSettings \/ AcceptSettings
  \/ Close \/ Kill
  \/ InstallGame \/ RemoveGame

Spec == Init /\ [][Next]_vars

-----------------------------------------------------------------------------
(* Properties.                                                             *)

\* The state has its types.  The current game is one of those that were found.
TypeOK ==
  /\ running \in BOOLEAN /\ accepted \in {"always", "again", "failed"}
  /\ settings.games \in Seq(Game) /\ installed \in Seq(Game)
  /\ dialog # NoDialog => dialog.tabs \in Seq(Game)
  /\ current \in Folders(installed) \cup {NoGame}
  /\ view.hidden \subseteq Messages
  /\ changes \in 0 .. MaxChanges /\ edits \in 0 .. MaxEdits /\ starts \in 0 .. MaxStarts

Unique(games) == \A i, j \in DOMAIN games : games[i].folder = games[j].folder => i = j

\* Games are told apart by their LOOT folder, everywhere: whatever is detected,
\* added, deleted, recreated and overridden, in whatever order, no two games
\* come to have the same one.
FoldersUnique ==
  /\ Unique(settings.games)
  /\ Unique(installed)
  /\ dialog # NoDialog => Unique(dialog.tabs)

\* Each Game object has a copy of its settings.  Until an error cuts recording
\* the Settings dialog short, the copies agree, so that what is in effect is
\* what is saved: the games that were found, with all their settings, the
\* hidden messages among them.  Recording the dialog again need not mend them:
\* the current game's object is kept by its folder, which after the error may
\* be that of another game in the settings.
CopiesAgree ==
  running /\ accepted = "always" => installed = InstalledOf(detected, settings.games)

\* Detecting games again on a machine that has not changed finds no new game
\* and leaves every path alone: restarting does not make games multiply.
DetectionIsStable ==
  LET Located(games) == {[folder |-> g.folder, path |-> g.path] : g \in Range(games)}
  IN Ready /\ accepted # "failed" /\ world = detected =>
       LET again == FindInstalledGames(world, finds, settings.games)
       IN Len(again) = Len(settings.games) /\ Located(again) = Located(settings.games)

\* Detection keeps every configured game, and of each what is configured; it
\* only fills paths that are empty.
Configured(games, later) ==
  \A g \in Range(games) : \E h \in Range(later) :
    /\ h.folder = g.folder /\ h.id = g.id /\ h.name = g.name /\ h.source = g.source
    /\ g.path # NoPath => h.path = g.path
    /\ g.local # NoPath => h.local = g.local
ConfiguredGamesKept ==
  [][/\ ~running /\ running' =>
          \E args \in CommandLines :
            /\ Start(args)
            /\ Configured(OverridePath(Load(world, file), args).games, settings'.games)
     /\ dialog # NoDialog /\ settings'.games # settings.games /\ running' =>
          Configured(dialog.tabs, settings'.games)]_vars

\* A message stays hidden until it is unhidden: main.rst's "You can hide
\* individual messages".  Accepting the Settings dialog breaks it.
HiddenUntilUnhidden ==
  [][running /\ running' /\ ~(UnhideAll \/ UnhideGeneral \/ UnhidePlugin) =>
       \A g \in Range(settings.games), h \in Range(settings'.games) :
         g.folder = h.folder => g.hidden \subseteq h.hidden]_vars

=============================================================================
