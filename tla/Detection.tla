----------------------------- MODULE Detection -----------------------------
(***************************************************************************)
(* Game detection: where installs of the supported games are looked for,    *)
(* and how those that are found are merged with the configured games        *)
(* (src/src/gui/state/game/detection).  The order matters throughout: of    *)
(* several finds of one directory the first is kept, of several games that  *)
(* match a find the first is updated.                                       *)
(*                                                                         *)
(* A path stands for the directory it leads to, however it is spelled:      *)
(* equivalent() compares directories.  A name is a base, the store in       *)
(* brackets and an index, as deriveName appends them.                       *)
(***************************************************************************)
EXTENDS Integers, Sequences, FiniteSets, SequencesExt

CONSTANTS
  GameIds,      \* ALL_GAME_IDS, in their order
  Roots,        \* directories that a store may install to, in path order
  Languages,    \* the preferred languages, in their order
  Alphabetical  \* the games' names, in alphabetical order

KnownIds ==
  {"tes3", "tes4", "nehrim", "tes5", "enderal", "tes5se", "enderalse", "tes5vr",
   "fo3", "fonv", "fo4", "fo4vr", "starfield", "openmw", "oblivionRemastered"}
Ids == Range(GameIds)

IsList(s) == s \in Seq(Range(s))

ASSUME ListsAssumption ==
  IsList(GameIds) /\ IsList(Roots) /\ IsList(Languages) /\ IsList(Alphabetical)
ASSUME IdsAssumption == Ids \subseteq KnownIds
ASSUME NamesAssumption == Ids \subseteq Range(Alphabetical)

\* The stores that a game is sold in, as the detectors know them.
OnlySteam == {"tes5", "tes5vr", "fo4vr"}
OnGog == KnownIds \ (OnlySteam \cup {"enderal", "starfield", "openmw", "oblivionRemastered"})
OnEpic == {"tes5se", "fo3", "fonv", "fo4"}
OnMicrosoft ==
  {"tes3", "tes4", "tes5se", "fo3", "fonv", "fo4", "starfield", "oblivionRemastered"}

\* Games that have no folder of their own for local application data.
NoAppData == {"tes3", "oblivionRemastered"}

NoPath == <<>>

\* The elements of s that pass the test, in order.
Where(s, Test(_)) ==
  FlattenSeq([i \in 1 .. Len(s) |-> IF Test(s[i]) THEN <<s[i]>> ELSE <<>>])

\* The games whose main master file and executable a directory of g holds.
\* The executable is not looked for where no two games share a master file.
Holds(g) ==
  {g} \cup CASE g = "enderal" -> {"tes5"} [] g = "tes5" -> {"enderal"}
             [] g = "enderalse" -> {"tes5se"} [] g = "tes5se" -> {"enderalse"}
             [] OTHER -> {}

(* A world is what is on the machine: whether it runs Windows, the installs *)
(* (directory -> game and store), and the claims of launchers and Registry  *)
(* values that a game is installed in a root.                               *)
Valid(w, g, p) ==
  /\ p # NoPath
  /\ p \in DOMAIN w.dirs
  /\ g \in Holds(w.dirs[p].id)

Install(g, s, p, l) == [id |-> g, source |-> s, path |-> p, local |-> l]

Claimed(w, l, g, r) == [launcher |-> l, id |-> g, root |-> r] \in w.claims

\* What the files of the launchers say, of those games that LOOT knows: a file
\* that is not there or cannot be read makes no claim.
SteamManifest(w, g, r) == Claimed(w, "steam", g, r)
HeroicInstalled(w, store, g, r) == Claimed(w, store, g, r)
WinePrefix(w, g, r) == Claimed(w, "prefix", g, r)
EpicManifests(w, g) == Where(Roots, LAMBDA r : Claimed(w, "epic", g, r))
XboxContent(w, g, r) == Claimed(w, "xbox", g, r)

\* The Registry, which only Windows has.
InRegistry(w, value, g, r) == w.windows /\ Claimed(w, value, g, r)

\* Steam's Nehrim is in a subdirectory of its own.
SteamPath(g, r) == IF g = "nehrim" THEN <<r, "NehrimFiles">> ELSE <<r>>

\* Some games have a copy in each language, in directories of their own.
Copies(r, languages) == [i \in DOMAIN languages |-> <<r, languages[i]>>]
FiveLanguages == <<"en", "fr", "de", "it", "es">>
EpicCopies(g, r) == IF g \in {"fo3", "fonv"} THEN Copies(r, FiveLanguages) ELSE <<<<r>>>>
MicrosoftCopies(g, r) ==
  CASE g \in {"tes4", "fo3", "fonv"} -> Copies(r, FiveLanguages)
    [] g = "tes3" -> Copies(r, <<"en", "fr", "de">>)
    [] OTHER -> <<<<r>>>>

\* The first copy that is there, in the order of the preferred languages.
LocalisedPath(w, store, g, r) ==
  LET paths == CASE store = "epic" -> EpicCopies(g, r)
                 [] store = "microsoft" -> MicrosoftCopies(g, r)
      In(lang) == Where(paths, LAMBDA p : Len(p) = 2 /\ p[2] = lang)
      Unwanted(p) == Len(p) = 1 \/ p[2] \notin Range(Languages)
      sorted == FlattenSeq([i \in 1 .. Len(Languages) |-> In(Languages[i])])
                  \o Where(paths, Unwanted)
      there == Where(sorted, LAMBDA p : Valid(w, g, p))
  IN IF there = <<>> THEN NoPath ELSE Head(there)

\* The installs, for each root in order, at the path that at gives.
InRoots(w, at, g, s, local) ==
  LET one(r) == IF Valid(w, g, at[r]) THEN <<Install(g, s, at[r], local[r])>> ELSE <<>>
  IN FlattenSeq([i \in 1 .. Len(Roots) |-> one(Roots[i])])

NoLocal == [r \in Range(Roots) |-> NoPath]
EachGame(Of(_)) == FlattenSeq([i \in 1 .. Len(GameIds) |-> Of(GameIds[i])])

\* A game's app manifest.  On Linux its local path is in its Proton prefix.
SteamLocal(w, g, r) == IF w.windows \/ g \in NoAppData THEN NoPath ELSE <<r, "compatdata">>
SteamInstall(w, g, r) ==
  IF SteamManifest(w, g, r) /\ Valid(w, g, SteamPath(g, r))
  THEN <<Install(g, "steam", SteamPath(g, r), SteamLocal(w, g, r))>>
  ELSE <<>>
SteamLibraries(w) ==
  FlattenSeq([i \in 1 .. Len(Roots) |-> EachGame(LAMBDA g : SteamInstall(w, g, Roots[i]))])

\* Heroic's lists of installed games.  On Linux a game is skipped when its
\* Wine prefix, where its local path is, is not in Heroic's configuration.
HeroicLocal(w, g, r) == IF w.windows \/ g \in NoAppData THEN NoPath ELSE <<r, "prefix">>
Usable(w, g, r) == w.windows \/ g \in NoAppData \/ WinePrefix(w, g, r)
HeroicLocals(w, g) == [r \in Range(Roots) |-> HeroicLocal(w, g, r)]
HeroicGog(w, g) ==
  LET at == [r \in Range(Roots) |->
               IF HeroicInstalled(w, "heroic", g, r) /\ Usable(w, g, r)
               THEN <<r>> ELSE NoPath]
  IN InRoots(w, at, g, "gog", HeroicLocals(w, g))
HeroicEpic(w, g) ==
  LET at == [r \in Range(Roots) |->
               IF HeroicInstalled(w, "legendary", g, r) /\ Usable(w, g, r)
               THEN LocalisedPath(w, "epic", g, r) ELSE NoPath]
  IN InRoots(w, at, g, "epic", HeroicLocals(w, g))
Heroic(w) ==
  EachGame(LAMBDA g : IF g \in OnGog THEN HeroicGog(w, g) ELSE <<>>)
    \o EachGame(LAMBDA g : IF g \in OnEpic THEN HeroicEpic(w, g) ELSE <<>>)

\* Steam's and GOG's own Registry values.
SteamRegistry(w, g) ==
  LET at == [r \in Range(Roots) |->
               IF InRegistry(w, "steam registry", g, r) THEN SteamPath(g, r) ELSE NoPath]
  IN InRoots(w, at, g, "steam", NoLocal)
GogRegistry(w, g) ==
  LET at == [r \in Range(Roots) |->
               IF g \in OnGog /\ InRegistry(w, "gog registry", g, r) THEN <<r>> ELSE NoPath]
  IN InRoots(w, at, g, "gog", NoLocal)

\* The files that tell which store a directory came from.
SourceOf(w, g, p) ==
  LET s == w.dirs[p].source
  IN IF g \in OnlySteam THEN "steam"
     ELSE IF \/ s = "steam" /\ g # "openmw"
             \/ s = "gog" /\ g \in OnGog /\ g = w.dirs[p].id
             \/ s = "epic" /\ g \in OnEpic \ {"fo4"}
             \/ s = "microsoft" /\ g \in OnMicrosoft
          THEN s
          ELSE "unknown"

\* The directory above LOOT's own, and the game's Registry value, which the
\* Epic and Microsoft stores do not write.  On Linux, the usual directories
\* of OpenMW.
Found(w, l, g) == Where(Roots, LAMBDA r : Claimed(w, l, g, r) /\ Valid(w, g, <<r>>))
ByFiles(w, g, r) == Install(g, SourceOf(w, g, <<r>>), <<r>>, NoPath)
Siblings(w, g) ==
  LET there == Found(w, "sibling", g)
  IN [i \in DOMAIN there |-> ByFiles(w, g, there[i])]
FromRegistry(w, g) ==
  LET Find(r) == IF SourceOf(w, g, <<r>>) \in {"steam", "gog"} THEN ByFiles(w, g, r)
                 ELSE Install(g, "unknown", <<r>>, NoPath)
      there == Found(w, "registry", g)
  IN [i \in DOMAIN there |-> Find(there[i])]
UsualOpenMW(w) ==
  LET there == Found(w, "usual", "openmw")
  IN [i \in DOMAIN there |-> Install("openmw", "unknown", <<there[i]>>, NoPath)]
Generic(w, g) ==
  IF w.windows THEN Siblings(w, g) \o FromRegistry(w, g)
  ELSE IF g = "openmw" THEN UsualOpenMW(w) ELSE <<>>

\* The first manifest of the Epic launcher that names the game, and the first
\* Xbox folder that holds it.
Epic(w, g) ==
  LET roots == EpicManifests(w, g)
      path == LocalisedPath(w, "epic", g, Head(roots))
  IN IF g \in OnEpic /\ w.windows /\ roots # <<>> /\ path # NoPath
     THEN <<Install(g, "epic", path, NoPath)>>
     ELSE <<>>

Microsoft(w, g) ==
  LET at == [r \in Range(Roots) |->
               IF XboxContent(w, g, r) THEN LocalisedPath(w, "microsoft", g, r) ELSE NoPath]
      there == InRoots(w, at, g, "microsoft", NoLocal)
  IN IF g \in OnMicrosoft /\ w.windows /\ there # <<>> THEN <<Head(there)>> ELSE <<>>

Keep(kept, i) ==
  IF \E k \in Range(kept) : k.path = i.path THEN kept ELSE Append(kept, i)
Deduplicate(installs) == FoldLeft(Keep, <<>>, installs)

InstallsOf(w, g) ==
  SteamRegistry(w, g) \o GogRegistry(w, g) \o Generic(w, g) \o Epic(w, g) \o Microsoft(w, g)
FindGameInstalls(w) ==
  Deduplicate(SteamLibraries(w) \o Heroic(w) \o EachGame(LAMBDA g : InstallsOf(w, g)))

-----------------------------------------------------------------------------
(* Configured games.                                                       *)

Name(base, store, n) == [base |-> base, store |-> store, n |-> n]
Named(g) == Name(g, "", 0)

GameSettings(g, folder) ==
  [id |-> g, folder |-> folder, name |-> Named(g), path |-> NoPath,
   local |-> NoPath, source |-> "default", hidden |-> {}]

IsInstalled(w, s) == Valid(w, s.id, s.path)

\* Each find fills the empty paths of the first game that has its path, or
\* else of the first game of its kind that has none.
Filled_Overwriting(s, i) == [s EXCEPT !.path = i.path, !.local = i.local]
Filled(s, i) ==
  [s EXCEPT !.path = IF @ = NoPath THEN i.path ELSE @,
            !.local = IF @ = NoPath THEN i.local ELSE @]

Unfilled(games, i) == {k \in DOMAIN games : games[k].path = NoPath /\ games[k].id = i.id}
Matching(games, i) ==
  LET same == {k \in DOMAIN games : games[k].path = i.path}
  IN IF same # {} THEN same ELSE Unfilled(games, i)

First(match) == CHOOSE k \in match : \A m \in match : k <= m
Merge(acc, i) ==
  LET match == Matching(acc.games, i)
  IN IF match = {} THEN [acc EXCEPT !.new = Append(@, i)]
     ELSE [acc EXCEPT !.games[First(match)] = Filled(@, i)]
UpdateMatching(games, installs) ==
  FoldLeft(Merge, [games |-> games, new |-> <<>>], installs)

\* The stores that a game is found to come from, configured or new.
SourcesOf(w, games, new, g) ==
  {SourceOf(w, g, s.path) : s \in {t \in Range(games) : t.id = g /\ IsInstalled(w, t)}}
    \cup {i.source : i \in {j \in Range(new) : j.id = g}}

DeriveName_Plain(base, store, existing) == Name(base, store, 0)
DeriveName(base, store, existing) ==
  LET n == CHOOSE k \in 0 .. Cardinality(existing) :
             /\ Name(base, store, k) \notin existing
             /\ \A m \in 0 .. k - 1 : Name(base, store, m) \in existing
  IN Name(base, store, n)

\* New games are named after their store when there is more than one.
Suffix(w, games, new, i) ==
  IF Cardinality(SourcesOf(w, games, new, i.id)) > 1 /\ i.source # "unknown"
  THEN i.source ELSE ""
NewGame(gs, i, suffix) ==
  LET Derived(names) == DeriveName(i.id, suffix, names)
  IN [GameSettings(i.id, Derived({s.folder : s \in Range(gs)}))
        EXCEPT !.name = Derived({s.name : s \in Range(gs)}),
               !.path = i.path, !.local = i.local]
AppendNew(w, games, new) ==
  LET Add(gs, i) == Append(gs, NewGame(gs, i, Suffix(w, games, new, i)))
  IN FoldLeft(Add, games, new)

Rank(name) ==
  LET Place(s) == CASE s = "" -> 0 [] s = "epic" -> 1 [] s = "gog" -> 2
                    [] s = "microsoft" -> 3 [] OTHER -> 4
      base == CHOOSE i \in DOMAIN Alphabetical : Alphabetical[i] = name.base
  IN 1000 * base + (IF name.store = "" THEN name.n ELSE 100 * Place(name.store) + name.n)

SortedByName(games) ==
  LET Below(k) == {m \in DOMAIN games :
                     \/ Rank(games[m].name) < Rank(games[k].name)
                     \/ Rank(games[m].name) = Rank(games[k].name) /\ m < k}
      At(i) == CHOOSE k \in DOMAIN games : Cardinality(Below(k)) = i - 1
  IN [i \in DOMAIN games |-> games[At(i)]]

\* finds is FindGameInstalls(w).
FindInstalledGames(w, finds, games) ==
  LET merged == UpdateMatching(games, finds)
  IN SortedByName(AppendNew(w, merged.games, merged.new))
=============================================================================
