----------------------------- MODULE Validation -----------------------------
(***************************************************************************)
(* What LOOT says of a game's plugins: the card of a plugin with the         *)
(* messages that checking its installation gives, and the general messages   *)
(* about the numbers of active plugins and the game's paths                  *)
(* (checkInstallValidity, validateActivePluginCounts, validateGamePaths,    *)
(* PluginItem's constructor, mapToLoadOrderTuples, Game::getMessages).      *)
(*                                                                         *)
(* A game is a record: its id, the names that are active, the files that     *)
(* exist, the plugins that are loaded (a function of their names), the       *)
(* metadata lists (functions of the same names to metadata, or Failed if a   *)
(* condition in it cannot be evaluated), the groups, the load order and what *)
(* it supports.  A message is its type, its source and what it is about; two *)
(* that say the same of one plugin count as one.  Names are model values;    *)
(* what their extensions decide is in the records.                          *)
(***************************************************************************)
EXTENDS Naturals, FiniteSets, Sequences

CONSTANTS
  FullLimit,   \* the safe number of active full plugins
  MwseLimit,   \* the same if MWSE is installed
  OpenMwLimit,
  MediumLimit, LightLimit,
  Failed,      \* metadata that cannot be evaluated
  None         \* no group, no header version

ASSUME LimitsAssumption ==
  /\ FullLimit \in Nat \ {0} /\ MwseLimit \in Nat /\ OpenMwLimit \in Nat
  /\ MediumLimit \in Nat /\ LightLimit \in Nat

Message(type, source, about) == [type |-> type, source |-> source, about |-> about]
Error(source, about) == Message("error", source, about)
Warning(source, about) == Message("warn", source, about)
Note(source, about) == Message("say", source, about)
When(condition, message) == IF condition THEN {message} ELSE {}

-----------------------------------------------------------------------------
(* The metadata of a plugin: the user's, which takes precedence, merged with  *)
(* the masterlist's.                                                        *)

NoMetadata ==
  [requirements |-> {}, incompatibilities |-> {}, after |-> {}, group |-> None,
   messages |-> {}, tags |-> {}, dirty |-> {}, details |-> {}]

Merge(user, other) ==
  [f \in DOMAIN user |->
     IF f = "group" THEN IF user.group = None THEN other.group ELSE user.group
     ELSE user[f] \cup other[f]]

Evaluated(list, name) == IF list[name] = Failed THEN NoMetadata ELSE list[name]
EvalErrors(game, name) ==
  {Error("conditionEvalFailed", {list}) :
     list \in {x \in {"user", "masterlist"} : game[x][name] = Failed}}
Metadata(game, name) ==
  Merge(Evaluated(game.user, name), Evaluated(game.masterlist, name))

-----------------------------------------------------------------------------
(* Files that metadata refers to.  Files of one display name share a message. *)

Displayed(files) == {file.display : file \in files}

MissingRequirement(display) == Error("requirementMetadata", display)
RequirementMessages(game, metadata) ==
  LET missing == {file \in metadata.requirements :
                    ~(file.name \in game.files /\ file.holds)}
  IN {MissingRequirement(display) : display \in Displayed(missing)}

PresentIncompatibility(display) == Error("incompatibilityMetadata", display)
IncompatibilityMessages(game, metadata) ==
  LET present == {file \in metadata.incompatibilities :
                    /\ file.name \in game.files
                    /\ file.isPlugin => file.name \in game.active}
  IN {PresentIncompatibility(display) : display \in Displayed(present)}

-----------------------------------------------------------------------------
(* Masters. *)

MissingMaster(type, master) == Message(type, "missingMaster", master)
InactiveMaster(master) == Error("inactiveMaster", master)
SelfMaster == Error("selfMaster", None)
NonMasterMaster(master) == Error("lightPluginRequiresNonMaster", master)
BlueprintMaster(master) == Warning("blueprintMasterMaster", master)

\* A plugin that is active needs its masters to be, unless it is for a bashed
\* patch; some games need them to be installed in any case.
FilterTagged(plugin, metadata) ==
  "Filter" \in plugin.tags \/ \E tag \in metadata.tags : tag.name = "Filter"
ExpectActive(game, plugin, metadata) ==
  plugin.name \in game.active /\ ~FilterTagged(plugin, metadata)
ExpectInstalled(game) == game.id \in {"tes3", "openmw", "starfield"}
IsLightMaster(plugin) == plugin.light /\ plugin.extension # "esp"

MasterMessages(game, plugin, metadata, master) ==
  LET active == ExpectActive(game, plugin, metadata)
      missing == (active \/ ExpectInstalled(game)) /\ master \notin game.files
      other == game.plugins[master]
      loaded == master \in DOMAIN game.plugins
  IN When(missing, MissingMaster(IF active THEN "error" ELSE "warn", master))
       \cup When(~missing /\ active /\ master \notin game.active, InactiveMaster(master))
       \cup When(plugin.name = master, SelfMaster)
       \cup When(loaded /\ IsLightMaster(plugin) /\ ~other.light /\ ~other.master,
                 NonMasterMaster(master))
       \cup When(loaded /\ game.id = "starfield" /\ ~plugin.blueprint
                   /\ other.blueprint /\ other.master,
                 BlueprintMaster(master))

ValidateMasters(game, plugin, metadata) ==
  UNION {MasterMessages(game, plugin, metadata, m) : m \in plugin.masters}

-----------------------------------------------------------------------------
(* The plugin itself, its group and its tags. *)

InvalidLight == Error("invalidLightPlugin", None)
InvalidMedium == Error("invalidMediumPlugin", None)
InvalidUpdate == Error("invalidUpdatePlugin", None)
UnsupportedLight(game, plugin) ==
  Message(IF game.id = "tes5vr" \/ plugin.extension = "esl" THEN "error" ELSE "warn",
          "lightPluginNotSupported", None)
UnsupportedBlueprint == Warning("blueprintNonMaster", None)
ShipsWrongExtension == Warning("blueprintShipsNonEsm", None)
ShipsNotBlueprint == Warning("blueprintShipsNonBlueprint", None)
InvalidHeaderVersion == Warning("invalidHeaderVersion", None)
UndefinedGroup(group) == Error("missingGroup", group)
OverriddenTags(tags) == Note("bashTagsOverride", tags)
DirtyMessage(info) == Warning("cleaningMetadata", info)

TypeMessages(game, plugin) ==
  When(plugin.light /\ ~plugin.validLight, InvalidLight)
    \cup When(plugin.medium /\ ~plugin.validMedium, InvalidMedium)
    \cup When(plugin.update /\ ~plugin.validUpdate, InvalidUpdate)
    \cup When(~game.supportsLight /\ plugin.light, UnsupportedLight(game, plugin))
    \cup When(plugin.blueprint /\ ~plugin.master, UnsupportedBlueprint)
    \cup When(game.id = "starfield" /\ plugin.ships /\ plugin.extension # "esm",
              ShipsWrongExtension)
    \cup When(game.id = "starfield" /\ plugin.ships /\ ~plugin.blueprint,
              ShipsNotBlueprint)

VersionMessages(game, plugin) ==
  When(plugin.version # None /\ plugin.version < game.minimumVersion, InvalidHeaderVersion)
GroupMessages(game, metadata) ==
  When(metadata.group \notin game.groups \cup {None}, UndefinedGroup(metadata.group))

\* A tag that one adds and the other removes.
TagConflicts(tags, others) ==
  {tag.name : tag \in {t \in tags : \E o \in others : o.name = t.name /\ o.adds # t.adds}}
TagMessages(game, plugin, metadata) ==
  LET conflicts == TagConflicts(metadata.tags, game.bashTags[plugin.name])
  IN When(conflicts # {}, OverriddenTags(conflicts))

CheckInstallValidity(game, plugin, metadata) ==
  (IF plugin.name \in game.active
   THEN RequirementMessages(game, metadata) \cup IncompatibilityMessages(game, metadata)
   ELSE {})
    \cup ValidateMasters(game, plugin, metadata)
    \cup TypeMessages(game, plugin)
    \cup VersionMessages(game, plugin)
    \cup GroupMessages(game, metadata)
    \cup TagMessages(game, plugin, metadata)
    \cup {DirtyMessage(info) : info \in metadata.dirty}

-----------------------------------------------------------------------------
(* Cards.  Plugins of the three kinds are numbered on their own: light ones   *)
(* share one of the indices of full ones, medium ones the index before it.   *)

Kind(plugin) == IF plugin.light THEN "light" ELSE IF plugin.medium THEN "medium" ELSE "full"

\* The metadata that the user gave the plugin counts whatever its conditions.
Trait(condition, name) == IF condition THEN {name} ELSE {}
Card(game, name) ==
  LET plugin == game.plugins[name]
      metadata == Metadata(game, name)
  IN [name |-> name, kind |-> Kind(plugin), index |-> None,
      group |-> metadata.group,
      traits |-> Trait(name \in game.active, "active") \cup Trait(plugin.empty, "empty")
                   \cup Trait(name \in game.creationClub, "creationClub")
                   \cup Trait(metadata.after # {}, "loadAfter")
                   \cup Trait(name \in game.userLoadAfter, "loadAfterUser")
                   \cup Trait(metadata.after # {} \/ metadata.requirements # {}
                                \/ metadata.group # None, "loadOrder"),
      details |-> plugin.details \cup metadata.details
                    \cup Trait(plugin.tags # {} \/ metadata.tags # {}, "bashTags"),
      messages |-> EvalErrors(game, name) \cup metadata.messages
                     \cup CheckInstallValidity(game, plugin, metadata)]

\* The index that an active plugin has among cards in a certain order.
Active(card) == "active" \in card.traits
Index(cards, i) ==
  IF ~Active(cards[i]) THEN None
  ELSE Cardinality({j \in DOMAIN cards :
         j < i /\ Active(cards[j]) /\ cards[j].kind = cards[i].kind})
Numbered(cards) == [i \in DOMAIN cards |-> [cards[i] EXCEPT !.index = Index(cards, i)]]

Loaded(game) == SelectSeq(game.loadOrder, LAMBDA name : name \in DOMAIN game.plugins)
Cards(game) == Numbered([i \in DOMAIN Loaded(game) |-> Card(game, Loaded(game)[i])])

-----------------------------------------------------------------------------
(* The number of active plugins. *)

ActiveOf(game, kind) ==
  {name \in DOMAIN game.plugins : name \in game.active /\ Kind(game.plugins[name]) = kind}
Count(game, kind) == Cardinality(ActiveOf(game, kind))

SafeLimit(game) ==
  IF game.id = "openmw" THEN OpenMwLimit
  ELSE IF game.mwse THEN MwseLimit ELSE FullLimit

TooManyFull == Warning("activePluginsCountCheck", {"full"})
NeedsMwse == Warning("activePluginsCountCheck", {"MWSE"})
TooManyLight == Warning("activePluginsCountCheck", {"light"})
LightSlotShared == Warning("activePluginsCountCheck", {"full", "light"})
TooManyMedium == Warning("activePluginsCountCheck", {"medium"})
MediumSlotShared == Warning("activePluginsCountCheck", {"full", "medium"})

CountMessages(game) ==
  LET full == Count(game, "full")
      light == Count(game, "light")
      medium == Count(game, "medium")
  IN When(full > SafeLimit(game), TooManyFull)
       \cup When(game.mwse /\ full > FullLimit /\ full <= MwseLimit, NeedsMwse)
       \cup When(light > LightLimit, TooManyLight)
       \cup When(full >= FullLimit /\ light > 0, LightSlotShared)
       \cup When(medium > MediumLimit, TooManyMedium)
       \cup When(full >= FullLimit - 1 /\ medium > 0, MediumSlotShared)

-----------------------------------------------------------------------------
(* The game's general messages. *)

CaseSensitiveGame == Warning("caseSensitivePathCheck", {"game"})
CaseSensitiveLocal == Warning("caseSensitivePathCheck", {"local"})
PathMessages(game) ==
  When(game.warn /\ game.caseSensitive, CaseSensitiveGame)
    \cup When(game.warn /\ game.localPath /\ game.localCaseSensitive, CaseSensitiveLocal)

Unsorted == Warning("unsortedLoadOrderCheck", None)
GeneralMessages(game) ==
  game.generalMetadata \cup game.messages
    \cup When(game.sortCount = 0, Unsorted)
    \cup CountMessages(game)
    \cup PathMessages(game)
=============================================================================
