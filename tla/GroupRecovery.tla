--------------------------- MODULE GroupRecovery ---------------------------
(***************************************************************************)
(* The group metadata of one game: the groups of its masterlist, the        *)
(* groups and plugin groups of its userlist, and the recovery of groups     *)
(* that a masterlist update removes although user metadata refers to them   *)
(* (Game::loadMetadata and the functions it calls,                          *)
(* src/src/gui/state/game/game.cpp).                                        *)
(*                                                                         *)
(* Groups are a function from their names to the names of the groups they   *)
(* load after.  The group "default", which always exists, is left out.      *)
(***************************************************************************)
EXTENDS Naturals, FiniteSets

CONSTANTS
  Base,         \* the group names that masterlists use
  UserNames,    \* other names that the user gives to groups
  Recovered(_), \* Recovered(n): n with " (Recovered)" appended
  Plugins,      \* the installed plugins
  NoGroup,      \* a plugin has no group in its user metadata
  Masterlists,  \* the groups that a masterlist may define
  Elsewhere,    \* may the masterlist file change while it is not loaded?
  Saves,        \* whether writing the userlist may succeed, and may fail
  MaxGroups,    \* bound: updates happen only while the user has no more groups
  MaxEdges      \* bound: the user adds a load-after only to fewer than these

RecoveredNames == {Recovered(n) : n \in Base}
Names == Base \cup UserNames \cup RecoveredNames
IsGroups(g) == DOMAIN g \subseteq Names /\ g \in [DOMAIN g -> SUBSET Names]
NoGroups == [n \in {} |-> {}]
NoMetadata == [groups |-> NoGroups, plugins |-> [p \in Plugins |-> NoGroup]]

ASSUME NamesAssumption ==
  /\ \A m, n \in Base : Recovered(m) = Recovered(n) => m = n
  /\ RecoveredNames \cap (Base \cup UserNames) = {}
  /\ NoGroup \notin Names
ASSUME MasterlistsAssumption ==
  \A g \in Masterlists : g \in [DOMAIN g -> SUBSET DOMAIN g]
                         /\ DOMAIN g \subseteq Base
ASSUME ChoicesAssumption == Elsewhere \in BOOLEAN /\ Saves \subseteq BOOLEAN

VARIABLES
  loaded,     \* the game is the current one and its metadata is loaded
  file,       \* the groups in the masterlist file
  masterlist, \* the groups of the loaded masterlist
  user,       \* the loaded user metadata: its groups, and the plugins' groups
  exists,     \* there is a userlist file
  userlist,   \* the user metadata in it, or none
  messages,   \* Game::messages_: the groups reported as recovered
  missed      \* history: the groups whose removal no saved recovery answered

vars == <<loaded, file, masterlist, user, exists, userlist, messages, missed>>

IsMetadata(u) ==
  /\ u = [groups |-> u.groups, plugins |-> u.plugins]
  /\ IsGroups(u.groups)
  /\ u.plugins \in [Plugins -> Names \cup {NoGroup}]
After(groups, n) == IF n \in DOMAIN groups THEN groups[n] ELSE {}
References(u) ==
  (UNION {u.groups[n] : n \in DOMAIN u.groups})
    \cup ({u.plugins[p] : p \in Plugins} \ {NoGroup})
Acyclic(groups) ==
  \A S \in (SUBSET DOMAIN groups) \ {{}} : \E n \in S : groups[n] \cap S = {}

-----------------------------------------------------------------------------
(* recoverRemovedGroups: old and new are the masterlist's groups before and *)
(* after it was loaded, u is the user metadata.                             *)

GetRemovedGroups(old, new) == DOMAIN old \ DOMAIN new

\* namesToKeep: removed groups that are also user groups keep their names.
NamesToKeep(old, new, u) == GetRemovedGroups(old, new) \cap DOMAIN u.groups

\* The removed groups that the user's groups or plugins refer to.
Referenced(old, new, u) == GetRemovedGroups(old, new) \cap References(u)

\* What the processing queue starts with: the groups that a group marked for
\* recovery loads after, and removed groups that load after a marked one.
InitialQueue(old, new, u) ==
  LET marked == NamesToKeep(old, new, u) \cup Referenced(old, new, u)
  IN  (UNION {old[n] : n \in marked})
        \cup {n \in GetRemovedGroups(old, new) \ marked : old[n] \cap marked # {}}

\* Working through the queue adds the removed groups in it and the groups they
\* load after: the least such set.
ProcessQueue_Once(old, new, queue) == GetRemovedGroups(old, new) \cap queue
ProcessQueue(old, new, queue) ==
  LET removed == GetRemovedGroups(old, new)
      Done(S) == /\ removed \cap queue \subseteq S
                 /\ \A n \in S : removed \cap old[n] \subseteq S
  IN  {n \in removed : \A S \in SUBSET removed : Done(S) => n \in S}

\* The queue does not tell which groups it has had: it empties only if no group
\* that it is given loads after itself, at once or through others.
QueueEnds(old, new, u) ==
  Acyclic([n \in ProcessQueue(old, new, InitialQueue(old, new, u)) |-> old[n]])

\* namesToChange
NamesToChange(old, new, u) ==
  (Referenced(old, new, u)
     \cup ProcessQueue(old, new, InitialQueue(old, new, u)))
  \ NamesToKeep(old, new, u)

FindOrKey_Always(toChange, n) == Recovered(n)
\* findOrKey
FindOrKey(toChange, n) == IF n \in toChange THEN Recovered(n) ELSE n

\* What the groups of the old masterlist add to the user's groups: a group
\* that is kept or renamed is added with all that it loads after, any other
\* only with those kept or renamed groups that it loads after.
AddedAfter_Reversed(old, toKeep, toChange, n) ==
  IF n \in toKeep \cup toChange
  THEN {m \in DOMAIN old : n \in old[m]}
  ELSE old[n] \cap (toKeep \cup toChange)
AddedAfter_Referenced(old, toKeep, toChange, n) ==
  IF n \in toKeep \cup toChange THEN old[n] ELSE {}
AddedAfter(old, toKeep, toChange, n) ==
  IF n \in toKeep \cup toChange THEN old[n]
                                ELSE old[n] \cap (toKeep \cup toChange)

RecoverGroups_OnlyLinked(old, toKeep, toChange, groups) ==
  LET Rename(S) == {FindOrKey(toChange, m) : m \in S}
      added == {n \in DOMAIN old : AddedAfter(old, toKeep, toChange, n) # {}}
      From(n) == {m \in added : FindOrKey(toChange, m) = n}
  IN  [n \in DOMAIN groups \cup Rename(added) |->
         Rename(After(groups, n))
           \cup UNION {Rename(AddedAfter(old, toKeep, toChange, m)) : m \in From(n)}]
RecoverGroups(old, toKeep, toChange, groups) ==
  LET Rename(S) == {FindOrKey(toChange, m) : m \in S}
      added == {n \in DOMAIN old :
                  \/ n \in toKeep \cup toChange
                  \/ AddedAfter(old, toKeep, toChange, n) # {}}
      From(n) == {m \in added : FindOrKey(toChange, m) = n}
  IN  [n \in DOMAIN groups \cup Rename(added) |->
         Rename(After(groups, n))
           \cup UNION {Rename(AddedAfter(old, toKeep, toChange, m)) : m \in From(n)}]

RecoverRemovedGroups(old, new, u) ==
  LET toKeep == NamesToKeep(old, new, u)
      toChange == NamesToChange(old, new, u)
  IN  [groups |-> RecoverGroups(old, toKeep, toChange, u.groups),
       plugins |-> [p \in Plugins |-> FindOrKey(toChange, u.plugins[p])]]

CheckForRecoveredGroups_OldNames(reported, groups) ==
  {n \in reported : n \in DOMAIN groups}
\* checkForRecoveredGroups: drop the messages about groups that are gone.
CheckForRecoveredGroups(reported, groups) ==
  {n \in reported : Recovered(n) \in DOMAIN groups}

\* The user metadata is changed and saved, which may fail; what follows the
\* saving is then not done.
Save(u, reported) ==
  /\ user' = u
  /\ \/ TRUE \in Saves /\ exists' = TRUE /\ userlist' = u /\ messages' = reported
     \/ FALSE \in Saves /\ UNCHANGED <<exists, userlist, messages>>

\* The user metadata once loadMetadata has loaded the userlist again: as it was
\* if there is no userlist.
Reloaded == IF exists THEN userlist ELSE user

\* Groups were removed without a recovery that was saved.
Miss(removed) == missed' = (missed \cup removed) \ DOMAIN file'

-----------------------------------------------------------------------------
Init ==
  /\ loaded = FALSE
  /\ file \in Masterlists
  /\ masterlist = NoGroups
  /\ user = NoMetadata
  /\ exists = FALSE
  /\ userlist = NoMetadata
  /\ messages = {}
  /\ missed = {}

\* Game::init and the game's first loadMetadata, when LOOT starts or switches
\* to the game: no masterlist was loaded before, so no group was removed.
LoadGame ==
  /\ ~loaded
  /\ loaded' = TRUE
  /\ masterlist' = file
  /\ user' = userlist
  /\ messages' = {}
  /\ UNCHANGED <<file, exists, userlist, missed>>

\* LOOT is closed, or another game becomes the current one: all that was loaded
\* is loaded again before it is next used.
LeaveGame ==
  /\ loaded
  /\ loaded' = FALSE
  /\ masterlist' = NoGroups
  /\ user' = NoMetadata
  /\ messages' = {}
  /\ UNCHANGED <<file, exists, userlist, missed>>

\* The masterlist is updated and loadMetadata loads it, and the userlist,
\* again.
UpdateMasterlist ==
  /\ loaded
  /\ Cardinality(DOMAIN user.groups) <= MaxGroups
  /\ file' \in Masterlists \ {file}
  /\ masterlist' = file'
  /\ QueueEnds(masterlist, file', Reloaded)
  /\ LET removed == GetRemovedGroups(masterlist, file')
         recovered == RecoverRemovedGroups(masterlist, file', Reloaded)
         reported == messages \cup NamesToChange(masterlist, file', Reloaded)
     IN  IF removed = {}
         THEN /\ user' = Reloaded
              /\ messages' = CheckForRecoveredGroups(messages, Reloaded.groups)
              /\ UNCHANGED <<exists, userlist>>
              /\ Miss({})
         ELSE /\ Save(recovered, CheckForRecoveredGroups(reported, recovered.groups))
              /\ Miss(IF exists' /\ userlist' = recovered THEN {} ELSE removed)
  /\ UNCHANGED loaded

\* The queue never empties, so that loadMetadata never returns: the user kills
\* LOOT, which has the new masterlist file by then.
UpdateNeverEnds ==
  /\ loaded
  /\ file' \in Masterlists \ {file}
  /\ ~QueueEnds(masterlist, file', Reloaded)
  /\ loaded' = FALSE
  /\ masterlist' = NoGroups
  /\ user' = NoMetadata
  /\ messages' = {}
  /\ Miss(GetRemovedGroups(masterlist, file'))
  /\ UNCHANGED <<exists, userlist>>

\* The masterlist of a game that is not loaded is updated.
UpdateElsewhere ==
  /\ Elsewhere
  /\ ~loaded
  /\ file' \in Masterlists \ {file}
  /\ Miss(GetRemovedGroups(file, file'))
  /\ UNCHANGED <<loaded, masterlist, user, exists, userlist, messages>>

\* The groups that exist in the groups editor, which adds any missing group.
EditorGroups ==
  DOMAIN masterlist \cup DOMAIN user.groups
    \cup UNION {user.groups[n] : n \in DOMAIN user.groups}

\* on_groupsEditor_accepted: the editor saves its user groups and the user's
\* additions to masterlist groups.
SaveEditor(nodes, edges, plugins) ==
  LET groups == [n \in {m \in nodes : m \notin DOMAIN masterlist
                                        \/ {e \in edges : e[1] = m} # {}}
                   |-> {e[2] : e \in {d \in edges : d[1] = n}}]
  IN  /\ loaded
      /\ Save([groups |-> groups, plugins |-> plugins],
              CheckForRecoveredGroups(messages, groups))
      /\ UNCHANGED <<loaded, file, masterlist, missed>>

EditorEdges ==
  UNION {{<<n, m>> : m \in user.groups[n]} : n \in DOMAIN user.groups}

AddGroup(n) ==
  /\ n \notin EditorGroups
  /\ Cardinality(DOMAIN user.groups) < MaxGroups
  /\ SaveEditor(EditorGroups \cup {n}, EditorEdges, user.plugins)

RemoveGroup(n) ==
  /\ n \in EditorGroups \ DOMAIN masterlist
  /\ \A p \in Plugins : user.plugins[p] # n
  /\ SaveEditor(EditorGroups \ {n},
                {e \in EditorEdges : e[1] # n /\ e[2] # n}, user.plugins)

\* A new name for a user group, which its plugins and the groups that load
\* after it follow.  The editor does not check that no group has the name; the
\* user is taken to.
RenameGroup(n, m) ==
  LET Renamed(k) == IF k = n THEN m ELSE k
  IN  /\ n \in EditorGroups \ DOMAIN masterlist
      /\ m \notin EditorGroups
      /\ SaveEditor({Renamed(k) : k \in EditorGroups},
                    {<<Renamed(e[1]), Renamed(e[2])>> : e \in EditorEdges},
                    [p \in Plugins |-> Renamed(user.plugins[p])])

AddLoadAfter(n, m) ==
  /\ {n, m} \subseteq EditorGroups
  /\ n # m
  /\ Cardinality(EditorEdges) < MaxEdges
  /\ SaveEditor(EditorGroups, EditorEdges \cup {<<n, m>>}, user.plugins)

RemoveLoadAfter(n, m) ==
  /\ <<n, m>> \in EditorEdges
  /\ SaveEditor(EditorGroups, EditorEdges \ {<<n, m>>}, user.plugins)

\* The groups editor or the metadata editor puts a plugin in a group.
SetPluginGroup(p, n) ==
  /\ loaded
  /\ n \in DOMAIN masterlist \cup DOMAIN user.groups \cup {NoGroup}
  /\ Save([user EXCEPT !.plugins[p] = n], messages)
  /\ UNCHANGED <<loaded, file, masterlist, missed>>

ClearAllUserMetadata ==
  /\ loaded
  /\ Save(NoMetadata, messages)
  /\ UNCHANGED <<loaded, file, masterlist, missed>>

Next ==
  \/ LoadGame
  \/ LeaveGame
  \/ UpdateMasterlist
  \/ UpdateNeverEnds
  \/ UpdateElsewhere
  \/ \E n \in Base \cup UserNames : AddGroup(n)
  \/ \E n \in Names : RemoveGroup(n)
  \/ \E n \in Names, m \in Base \cup UserNames : RenameGroup(n, m)
  \/ \E n, m \in Names : AddLoadAfter(n, m)
  \/ \E n, m \in Names : RemoveLoadAfter(n, m)
  \/ \E p \in Plugins, n \in Names \cup {NoGroup} : SetPluginGroup(p, n)
  \/ ClearAllUserMetadata

Spec == Init /\ [][Next]_vars

-----------------------------------------------------------------------------
(* Properties.                                                             *)

TypeOK ==
  /\ loaded \in BOOLEAN
  /\ file \in Masterlists
  /\ masterlist \in Masterlists \cup {NoGroups}
  /\ IsMetadata(user)
  /\ exists \in BOOLEAN
  /\ IsMetadata(userlist)
  /\ messages \subseteq Base
  /\ missed \subseteq Base

\* Sorting fails with a missing group if user metadata refers to a group that
\* does not exist.  The groups editor and masterlist updates never lead there as
\* long as saving succeeds and each update of an acyclic masterlist is loaded: a
\* removed group that user metadata needs is recovered, and so is every
\* group it then refers to ("make sure that the groups it loads after either
\* still exist or will also be recovered", game.cpp:600).
ReferencesExist ==
  loaded => References(user) \subseteq DOMAIN masterlist \cup DOMAIN user.groups

\* Where saves fail, masterlists change while they are not loaded, or an update
\* never ends, references may dangle: but only those to a group that was removed
\* then, each other update recovers all that the reloaded metadata needs, and
\* neither it nor an edit makes another reference dangle.
DanglingOnlyMissed ==
  loaded =>
    References(user) \subseteq DOMAIN masterlist \cup DOMAIN user.groups \cup missed

Updates == loaded /\ loaded' /\ file' # file
ToKeep == NamesToKeep(masterlist, file', Reloaded)
ToChange == NamesToChange(masterlist, file', Reloaded)

KeepsLoadAfters ==
  Updates =>
    \A n, m \in Names :
      LET recovered == {n, m} \cap (ToKeep \cup ToChange) # {}
      IN  \/ m \in After(Reloaded.groups, n)
          \/ m \in After(masterlist, n) /\ recovered
          => FindOrKey(ToChange, m) \in
               After(user'.groups, FindOrKey(ToChange, n))
\* Whatever a masterlist update removes, every load-after of the user metadata
\* that it loads again, and every one of the old masterlist to or from a
\* recovered group, is in the user metadata afterwards, under the new names.
LoadAftersKept == [][KeepsLoadAfters]_vars

Merged(m, u) ==
  [n \in DOMAIN m \cup DOMAIN u.groups |-> After(m, n) \cup After(u.groups, n)]
Closed(groups, S) == \A n \in S \cap DOMAIN groups : groups[n] \subseteq S
LoadsAfter(groups, n, m) ==
  \A S \in SUBSET Names :
    After(groups, n) \subseteq S /\ Closed(groups, S) => m \in S

\* Recovery never makes the groups cyclic, which would change which plugins'
\* groups sorting ignores: not if they and those of the new masterlist were
\* acyclic, the update orders no two groups in a new way, and no group is
\* recovered for a second time.
NoCycleIntroduced ==
  [][LET before == Merged(masterlist, Reloaded)
     IN  /\ Updates
         /\ \A n \in ToChange : Recovered(n) \notin DOMAIN before
         /\ Acyclic(before) /\ Acyclic(file')
         /\ \A n, m \in DOMAIN before \cup References(Reloaded) :
              LoadsAfter(file', n, m) => LoadsAfter(before, n, m)
         => Acyclic(Merged(file', user'))]_vars

ReportsRecovered ==
  \A n \in Base :
    Updates /\ Recovered(n) \in DOMAIN user'.groups \ DOMAIN user.groups
      => n \in messages'
\* A masterlist update never adds a recovered group without telling the user
\* (changelog.rst:22: "a general warning message is displayed for each
\* recovered group").
RecoveryReported == [][ReportsRecovered]_vars

-----------------------------------------------------------------------------
(* What the repository says that the code does not do.                     *)

\* game.cpp:607, about a removed group: "This isn't marked for recovery, but
\* it will need to be recovered if it references another group that is marked
\* for recovery."
ReferencingGroupsRecovered ==
  [][Updates =>
       \A n \in GetRemovedGroups(masterlist, file') :
         masterlist[n] \cap (ToKeep \cup ToChange) # {}
           => n \in ToKeep \cup ToChange]_vars
=============================================================================
