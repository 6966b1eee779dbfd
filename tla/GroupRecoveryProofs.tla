------------------------ MODULE GroupRecoveryProofs ------------------------
(***************************************************************************)
(* Theorems about GroupRecovery, for any masterlists, names and plugins:    *)
(* its type correctness; that references in user metadata dangle only to    *)
(* groups whose removal was missed, and so exist for as long as saving      *)
(* succeeds, masterlists change only while they are loaded and are acyclic; *)
(* that no update that ends loses a load-after, and that recovery makes no  *)
(* cycle, whatever fails; and, while saving succeeds, that each recovered   *)
(* group is reported.                                                      *)
(***************************************************************************)
EXTENDS GroupRecovery, TLAPS

-----------------------------------------------------------------------------
(* Masterlists and the sets of groups that recovery computes.              *)

LEMMA MasterlistFacts ==
  ASSUME NEW old \in Masterlists \cup {NoGroups}
  PROVE  /\ DOMAIN old \subseteq Base
         /\ \A n \in DOMAIN old : old[n] \subseteq DOMAIN old
<1>1. CASE old \in Masterlists
  BY <1>1, MasterlistsAssumption
<1>2. CASE old = NoGroups
  BY <1>2 DEF NoGroups
<1>3. QED
  BY <1>1, <1>2

\* All that is kept or renamed was removed from the old masterlist.
LEMMA RecoveredWereRemoved ==
  ASSUME NEW old, NEW new, NEW u
  PROVE  /\ NamesToKeep(old, new, u) \subseteq GetRemovedGroups(old, new)
         /\ NamesToChange(old, new, u) \subseteq GetRemovedGroups(old, new)
         /\ NamesToKeep(old, new, u) \subseteq DOMAIN u.groups
         /\ NamesToChange(old, new, u) \cap DOMAIN u.groups = {}
<1>1. /\ NamesToKeep(old, new, u) \subseteq GetRemovedGroups(old, new)
      /\ NamesToKeep(old, new, u) \subseteq DOMAIN u.groups
  BY DEF NamesToKeep
<1>2. NamesToChange(old, new, u) \subseteq GetRemovedGroups(old, new)
  BY DEF NamesToChange, Referenced, ProcessQueue
<1>3. NamesToChange(old, new, u) \cap NamesToKeep(old, new, u) = {}
  BY DEF NamesToChange
<1>4. QED
  BY <1>1, <1>2, <1>3 DEF NamesToKeep

\* What a recovered group loads after exists in the new masterlist or is
\* recovered too: the queue is processed to its end.
LEMMA RecoveryIsClosed ==
  ASSUME NEW old \in Masterlists \cup {NoGroups}, NEW new, NEW u,
         NEW n \in NamesToKeep(old, new, u) \cup NamesToChange(old, new, u),
         NEW m \in old[n], m \notin DOMAIN new
  PROVE  m \in NamesToKeep(old, new, u) \cup NamesToChange(old, new, u)
<1> DEFINE removed == GetRemovedGroups(old, new)
           queue == InitialQueue(old, new, u)
           marked == NamesToKeep(old, new, u) \cup Referenced(old, new, u)
<1>1. n \in DOMAIN old
  BY RecoveredWereRemoved DEF GetRemovedGroups
<1>2. m \in removed
  BY <1>1, MasterlistFacts DEF GetRemovedGroups
<1>3. m \in ProcessQueue(old, new, queue)
  <2>1. CASE n \in marked
    <3>1. m \in queue
      BY <2>1 DEF InitialQueue
    <3>2. QED
      BY <1>2, <3>1 DEF ProcessQueue
  <2>2. CASE n \in ProcessQueue(old, new, queue)
    BY <1>2, <2>2 DEF ProcessQueue
  <2>3. QED
    BY <2>1, <2>2 DEF NamesToChange
<1>4. QED
  BY <1>3 DEF NamesToChange

\* A group that user metadata refers to and that the new masterlist lacks is
\* a user group already or recovered.
LEMMA ReferencedAreRecovered ==
  ASSUME NEW old, NEW new, NEW u, NEW m \in References(u),
         m \in DOMAIN old, m \notin DOMAIN new
  PROVE  m \in NamesToKeep(old, new, u) \cup NamesToChange(old, new, u)
BY DEF References, Referenced, NamesToChange, NamesToKeep, GetRemovedGroups

-----------------------------------------------------------------------------
(* Type correctness.                                                       *)

LEMMA ReferencesAreNames ==
  ASSUME NEW u, IsMetadata(u)
  PROVE  /\ References(u) \subseteq Names
         /\ \A n \in DOMAIN u.groups : u.groups[n] \subseteq Names
<1>1. \A n \in DOMAIN u.groups : u.groups[n] \subseteq Names
  BY DEF IsMetadata, IsGroups
<1>2. {u.plugins[p] : p \in Plugins} \ {NoGroup} \subseteq Names
  BY DEF IsMetadata
<1>3. QED
  BY <1>1, <1>2 DEF References

\* A recovered group's new name is a name, and what is no name is not changed.
LEMMA NewNamesAreNames ==
  ASSUME NEW toChange \in SUBSET Base
  PROVE  /\ \A n \in Names : FindOrKey(toChange, n) \in Names
         /\ FindOrKey(toChange, NoGroup) = NoGroup
BY NamesAssumption DEF FindOrKey, Names, RecoveredNames

\* What recovery makes of user metadata is user metadata.
LEMMA RecoveryIsMetadata ==
  ASSUME NEW old \in Masterlists \cup {NoGroups}, NEW new, NEW u, IsMetadata(u)
  PROVE  /\ IsMetadata(RecoverRemovedGroups(old, new, u))
         /\ NamesToChange(old, new, u) \in SUBSET Base
         /\ NamesToKeep(old, new, u) \in SUBSET Base
<1> DEFINE toKeep == NamesToKeep(old, new, u)
           toChange == NamesToChange(old, new, u)
           Rename(S) == {FindOrKey(toChange, m) : m \in S}
           groups == RecoverGroups(old, toKeep, toChange, u.groups)
           plugins == [p \in Plugins |-> FindOrKey(toChange, u.plugins[p])]
<1>1. toChange \in SUBSET Base /\ toKeep \in SUBSET Base
  BY RecoveredWereRemoved, MasterlistFacts DEF GetRemovedGroups
<1>2. \A S \in SUBSET Names : Rename(S) \subseteq Names
  BY <1>1, NewNamesAreNames
<1>3. \A n : After(u.groups, n) \subseteq Names
  BY ReferencesAreNames DEF After
<1>4. \A n \in DOMAIN old : AddedAfter(old, toKeep, toChange, n) \subseteq Names
  BY MasterlistFacts DEF AddedAfter, Names
<1>5. DOMAIN old \subseteq Names /\ DOMAIN u.groups \subseteq Names
  BY MasterlistFacts DEF Names, IsMetadata, IsGroups
<1> HIDE DEF toKeep, toChange
<1>6. IsGroups(groups)
  <2> DEFINE added == {n \in DOMAIN old :
                         \/ n \in toKeep \cup toChange
                         \/ AddedAfter(old, toKeep, toChange, n) # {}}
             From(n) == {m \in added : FindOrKey(toChange, m) = n}
             Afters(n) == Rename(After(u.groups, n))
               \cup UNION {Rename(AddedAfter(old, toKeep, toChange, m)) : m \in From(n)}
  <2>1. groups = [n \in DOMAIN u.groups \cup Rename(added) |-> Afters(n)]
    BY DEF RecoverGroups
  <2>2. added \subseteq Names
    BY <1>5
  <2>3. DOMAIN u.groups \cup Rename(added) \subseteq Names
    BY <1>2, <1>5, <2>2
  <2>4. ASSUME NEW n
        PROVE  Afters(n) \subseteq Names
    <3>1. Rename(After(u.groups, n)) \subseteq Names
      BY <1>2, <1>3
    <3>2. \A m \in From(n) : Rename(AddedAfter(old, toKeep, toChange, m)) \subseteq Names
      BY <1>2, <1>4
    <3> HIDE DEF Rename, From
    <3>3. QED
      BY <3>1, <3>2
  <2> HIDE DEF added, Afters, groups, Rename
  <2>5. QED
    BY <2>1, <2>3, <2>4 DEF IsGroups
<1>7. plugins \in [Plugins -> Names \cup {NoGroup}]
  BY <1>1, NewNamesAreNames DEF IsMetadata
<1> HIDE DEF groups, plugins
<1>8. RecoverRemovedGroups(old, new, u) = [groups |-> groups, plugins |-> plugins]
  BY DEF RecoverRemovedGroups, toKeep, toChange, groups, plugins
<1>9. QED
  BY <1>1, <1>6, <1>7, <1>8 DEF IsMetadata, toKeep, toChange

LEMMA NoMetadataIsMetadata == IsMetadata(NoMetadata)
BY DEF NoMetadata, NoGroups, IsMetadata, IsGroups

\* Saving keeps the types, whether it succeeds or fails.
LEMMA SavesAreTyped ==
  ASSUME exists \in BOOLEAN, IsMetadata(userlist), messages \subseteq Base,
         NEW u, NEW reported, IsMetadata(u), reported \subseteq Base,
         Save(u, reported)
  PROVE  /\ IsMetadata(user') /\ IsMetadata(userlist')
         /\ exists' \in BOOLEAN /\ messages' \subseteq Base
BY DEF Save

\* The groups and load-afters of the groups editor.
LEMMA EditorFacts ==
  ASSUME TypeOK
  PROVE  /\ EditorGroups \subseteq Names
         /\ EditorEdges \subseteq EditorGroups \X EditorGroups
<1>1. DOMAIN masterlist \subseteq Names
  BY MasterlistFacts DEF TypeOK, Names
<1>2. DOMAIN user.groups \subseteq Names
  BY DEF TypeOK, IsMetadata, IsGroups
<1>3. \A n \in DOMAIN user.groups : user.groups[n] \subseteq Names
  BY ReferencesAreNames DEF TypeOK
<1>4. EditorGroups \subseteq Names
  BY <1>1, <1>2, <1>3 DEF EditorGroups
<1>5. EditorEdges \subseteq EditorGroups \X EditorGroups
  BY DEF EditorEdges, EditorGroups
<1>6. QED
  BY <1>4, <1>5

\* What the groups editor saves.
EditorSaves(nodes, edges) ==
  [n \in {m \in nodes : m \notin DOMAIN masterlist
                          \/ {e \in edges : e[1] = m} # {}}
     |-> {e[2] : e \in {d \in edges : d[1] = n}}]

\* The groups editor saves groups that load after groups it shows.
LEMMA EditorSavesGroups ==
  ASSUME NEW nodes \in SUBSET Names, NEW edges \in SUBSET (nodes \X nodes),
         NEW plugins \in [Plugins -> Names \cup {NoGroup}]
  PROVE  LET u == [groups |-> EditorSaves(nodes, edges), plugins |-> plugins]
         IN  /\ IsMetadata(u)
             /\ DOMAIN u.groups \subseteq nodes
             /\ nodes \subseteq DOMAIN masterlist \cup DOMAIN u.groups
             /\ \A n \in DOMAIN u.groups : u.groups[n] \subseteq nodes
<1> DEFINE groups == EditorSaves(nodes, edges)
           u == [groups |-> groups, plugins |-> plugins]
<1>1. DOMAIN groups \subseteq nodes /\ nodes \subseteq DOMAIN masterlist \cup DOMAIN groups
  BY DEF EditorSaves
<1>2. \A n \in DOMAIN groups : groups[n] \subseteq nodes
  BY DEF EditorSaves
<1>3. groups = [n \in DOMAIN groups |-> groups[n]]
  BY DEF EditorSaves
<1> HIDE DEF groups
<1>4. IsGroups(groups)
  BY <1>1, <1>2, <1>3 DEF IsGroups
<1>5. QED
  BY <1>1, <1>2, <1>4 DEF IsMetadata, groups

-----------------------------------------------------------------------------
\* The steps of the groups editor are saves of groups it shows, each with
\* load-afters between them.
LEMMA EditorStepIsTyped ==
  ASSUME TypeOK, NEW nodes \in SUBSET Names, NEW edges \in SUBSET (nodes \X nodes),
         NEW plugins \in [Plugins -> Names \cup {NoGroup}],
         SaveEditor(nodes, edges, plugins)
  PROVE  TypeOK'
<1> DEFINE groups == EditorSaves(nodes, edges)
           u == [groups |-> groups, plugins |-> plugins]
           reported == CheckForRecoveredGroups(messages, groups)
<1>1. Save(u, reported) /\ UNCHANGED <<loaded, file, masterlist, missed>>
  BY DEF SaveEditor, EditorSaves
<1>2. IsMetadata(u)
  BY EditorSavesGroups
<1>3. reported \subseteq Base
  BY DEF CheckForRecoveredGroups, TypeOK
<1> HIDE DEF u, reported
<1>4. /\ IsMetadata(user') /\ IsMetadata(userlist')
      /\ exists' \in BOOLEAN /\ messages' \subseteq Base
  BY <1>1, <1>2, <1>3, SavesAreTyped DEF TypeOK
<1>5. QED
  BY <1>1, <1>4 DEF TypeOK

\* The groups editor's operations, as saves of groups and load-afters.
LEMMA EditorSteps ==
  ASSUME TypeOK,
         \/ \E n \in Base \cup UserNames : AddGroup(n)
         \/ \E n \in Names : RemoveGroup(n)
         \/ \E n \in Names, m \in Base \cup UserNames : RenameGroup(n, m)
         \/ \E n, m \in Names : AddLoadAfter(n, m)
         \/ \E n, m \in Names : RemoveLoadAfter(n, m)
  PROVE  \E nodes \in SUBSET Names :
           \E edges \in SUBSET (nodes \X nodes),
              plugins \in [Plugins -> Names \cup {NoGroup}] :
             /\ SaveEditor(nodes, edges, plugins)
             /\ \A p \in Plugins :
                  \/ plugins[p] \in nodes \cup {NoGroup}
                  \/ plugins[p] = user.plugins[p] /\ plugins[p] \notin EditorGroups
<1> DEFINE Goal == \E nodes \in SUBSET Names :
                     \E edges \in SUBSET (nodes \X nodes),
                        plugins \in [Plugins -> Names \cup {NoGroup}] :
                       /\ SaveEditor(nodes, edges, plugins)
                       /\ \A p \in Plugins :
                            \/ plugins[p] \in nodes \cup {NoGroup}
                            \/ /\ plugins[p] = user.plugins[p]
                               /\ plugins[p] \notin EditorGroups
<1>1. /\ EditorGroups \subseteq Names
      /\ EditorEdges \subseteq EditorGroups \X EditorGroups
  BY EditorFacts
<1>2. user.plugins \in [Plugins -> Names \cup {NoGroup}]
  BY DEF TypeOK, IsMetadata
<1>3. Base \cup UserNames \subseteq Names
  BY DEF Names
<1>4. ASSUME NEW n \in Base \cup UserNames, AddGroup(n)
      PROVE  Goal
  <2> DEFINE nodes == EditorGroups \cup {n}
  <2>1. nodes \in SUBSET Names
    BY <1>1, <1>3
  <2>2. EditorEdges \in SUBSET (nodes \X nodes)
    BY <1>1
  <2>3. SaveEditor(nodes, EditorEdges, user.plugins)
    BY <1>4 DEF AddGroup
  <2> HIDE DEF nodes
  <2>4. \A p \in Plugins : \/ user.plugins[p] \in nodes \cup {NoGroup}
                           \/ user.plugins[p] \notin EditorGroups
    BY DEF nodes
  <2>5. QED
    BY <1>2, <2>1, <2>2, <2>3, <2>4
<1>5. ASSUME NEW n \in Names, RemoveGroup(n)
      PROVE  Goal
  <2> DEFINE nodes == EditorGroups \ {n}
             edges == {e \in EditorEdges : e[1] # n /\ e[2] # n}
  <2>1. nodes \in SUBSET Names
    BY <1>1
  <2>2. edges \in SUBSET (nodes \X nodes)
    BY <1>1
  <2>3. SaveEditor(nodes, edges, user.plugins)
    BY <1>5 DEF RemoveGroup
  <2>4. \A p \in Plugins : \/ user.plugins[p] \in nodes \cup {NoGroup}
                           \/ user.plugins[p] \notin EditorGroups
    BY <1>5 DEF RemoveGroup
  <2> HIDE DEF nodes, edges
  <2>5. QED
    BY <1>2, <2>1, <2>2, <2>3, <2>4
<1>6. ASSUME NEW n \in Names, NEW m \in Base \cup UserNames, RenameGroup(n, m)
      PROVE  Goal
  <2> DEFINE Renamed(k) == IF k = n THEN m ELSE k
             nodes == {Renamed(k) : k \in EditorGroups}
             edges == {<<Renamed(e[1]), Renamed(e[2])>> : e \in EditorEdges}
             plugins == [p \in Plugins |-> Renamed(user.plugins[p])]
  <2>1. nodes \in SUBSET Names
    BY <1>1, <1>3
  <2>2. edges \in SUBSET (nodes \X nodes)
    BY <1>1
  <2>3. plugins \in [Plugins -> Names \cup {NoGroup}]
    BY <1>2, <1>3
  <2>4. SaveEditor(nodes, edges, plugins)
    BY <1>6 DEF RenameGroup
  <2>5. n \in EditorGroups
    BY <1>6 DEF RenameGroup
  <2>6. ASSUME NEW p \in Plugins
        PROVE  \/ plugins[p] \in nodes \cup {NoGroup}
               \/ plugins[p] = user.plugins[p] /\ plugins[p] \notin EditorGroups
    <3>1. CASE user.plugins[p] \in EditorGroups
      BY <3>1
    <3>2. CASE user.plugins[p] \notin EditorGroups
      BY <2>5, <3>2
    <3>3. QED
      BY <3>1, <3>2
  <2> HIDE DEF nodes, edges, plugins
  <2>7. QED
    BY <2>1, <2>2, <2>3, <2>4, <2>6
<1>7. ASSUME NEW n \in Names, NEW m \in Names, AddLoadAfter(n, m)
      PROVE  Goal
  <2> DEFINE edges == EditorEdges \cup {<<n, m>>}
  <2>1. edges \in SUBSET (EditorGroups \X EditorGroups)
    BY <1>1, <1>7 DEF AddLoadAfter
  <2>2. SaveEditor(EditorGroups, edges, user.plugins)
    BY <1>7 DEF AddLoadAfter
  <2> HIDE DEF edges
  <2>3. QED
    BY <1>1, <1>2, <2>1, <2>2
<1>8. ASSUME NEW n \in Names, NEW m \in Names, RemoveLoadAfter(n, m)
      PROVE  Goal
  <2> DEFINE edges == EditorEdges \ {<<n, m>>}
  <2>1. edges \in SUBSET (EditorGroups \X EditorGroups)
    BY <1>1
  <2>2. SaveEditor(EditorGroups, edges, user.plugins)
    BY <1>8 DEF RemoveLoadAfter
  <2> HIDE DEF edges
  <2>3. QED
    BY <1>1, <1>2, <2>1, <2>2
<1>9. QED
  BY <1>4, <1>5, <1>6, <1>7, <1>8

-----------------------------------------------------------------------------
(* Type correctness of every step.                                         *)

\* What an update loads again is user metadata.
LEMMA ReloadedIsMetadata == TypeOK => IsMetadata(Reloaded)
BY DEF TypeOK, Reloaded

\* What an update misses is a set of groups of the old masterlist.
LEMMA MissedAreGroups ==
  ASSUME TypeOK, NEW old \in Masterlists \cup {NoGroups}, NEW new,
         NEW removed \in {{}, GetRemovedGroups(old, new)}, Miss(removed)
  PROVE  missed' \subseteq Base
BY MasterlistFacts DEF TypeOK, GetRemovedGroups, Miss

\* A masterlist update as a save: what the user metadata becomes, and what is
\* reported.
LEMMA UpdateIsTyped ==
  ASSUME TypeOK, UpdateMasterlist
  PROVE  TypeOK'
<1> DEFINE removed == GetRemovedGroups(masterlist, file')
<1>1. /\ loaded' \in BOOLEAN
      /\ file' \in Masterlists
      /\ masterlist' \in Masterlists \cup {NoGroups}
  BY DEF UpdateMasterlist, TypeOK
<1>2. \E missing \in {{}, removed} : Miss(missing)
  BY DEF UpdateMasterlist
<1>3. missed' \subseteq Base
  BY <1>2, MissedAreGroups DEF TypeOK
<1>4. CASE removed = {}
  BY <1>1, <1>3, <1>4, ReloadedIsMetadata
     DEF UpdateMasterlist, TypeOK, CheckForRecoveredGroups
<1>5. CASE removed # {}
  <2> DEFINE recovered == RecoverRemovedGroups(masterlist, file', Reloaded)
             reported == messages \cup NamesToChange(masterlist, file', Reloaded)
             checked == CheckForRecoveredGroups(reported, recovered.groups)
  <2>1. Save(recovered, checked)
    BY <1>5 DEF UpdateMasterlist
  <2>2. IsMetadata(recovered) /\ reported \subseteq Base
    BY RecoveryIsMetadata, ReloadedIsMetadata DEF TypeOK
  <2>3. checked \subseteq Base
    BY <2>2 DEF CheckForRecoveredGroups
  <2> HIDE DEF recovered, checked
  <2>4. /\ IsMetadata(user') /\ IsMetadata(userlist')
        /\ exists' \in BOOLEAN /\ messages' \subseteq Base
    BY <2>1, <2>2, <2>3, SavesAreTyped DEF TypeOK
  <2>5. QED
    BY <1>1, <1>3, <2>4 DEF TypeOK
<1>6. QED
  BY <1>4, <1>5

LEMMA TypeStep ==
  ASSUME TypeOK, [Next]_vars
  PROVE  TypeOK'
<1>1. CASE LoadGame
  BY <1>1 DEF LoadGame, TypeOK
<1>2. CASE LeaveGame
  BY <1>2, NoMetadataIsMetadata DEF LeaveGame, TypeOK
<1>3. CASE UpdateMasterlist
  BY <1>3, UpdateIsTyped
<1>4. CASE UpdateElsewhere
  <2>1. missed' \subseteq Base
    BY <1>4, MissedAreGroups DEF UpdateElsewhere, TypeOK
  <2>2. QED
    BY <1>4, <2>1 DEF UpdateElsewhere, TypeOK
<1>5. CASE \/ \E n \in Base \cup UserNames : AddGroup(n)
           \/ \E n \in Names : RemoveGroup(n)
           \/ \E n \in Names, m \in Base \cup UserNames : RenameGroup(n, m)
           \/ \E n, m \in Names : AddLoadAfter(n, m)
           \/ \E n, m \in Names : RemoveLoadAfter(n, m)
  BY <1>5, EditorSteps, EditorStepIsTyped
<1>6. ASSUME NEW p \in Plugins, NEW n \in Names \cup {NoGroup}, SetPluginGroup(p, n)
      PROVE  TypeOK'
  <2> DEFINE u == [user EXCEPT !.plugins[p] = n]
  <2>1. Save(u, messages) /\ UNCHANGED <<loaded, file, masterlist, missed>>
    BY <1>6 DEF SetPluginGroup
  <2>2. IsMetadata(u)
    BY DEF TypeOK, IsMetadata
  <2> HIDE DEF u
  <2>3. QED
    BY <2>1, <2>2, SavesAreTyped DEF TypeOK
<1>7. CASE ClearAllUserMetadata
  BY <1>7, NoMetadataIsMetadata, SavesAreTyped DEF ClearAllUserMetadata, TypeOK
<1>8. CASE UpdateNeverEnds
  <2>1. missed' \subseteq Base
    BY <1>8, MissedAreGroups DEF UpdateNeverEnds, TypeOK
  <2>2. QED
    BY <1>8, <2>1, NoMetadataIsMetadata DEF UpdateNeverEnds, TypeOK
<1>9. CASE UNCHANGED vars
  BY <1>9 DEF vars, TypeOK
<1>10. QED
  BY <1>1, <1>2, <1>3, <1>4, <1>5, <1>6, <1>7, <1>8, <1>9 DEF Next

\* Loaded and saved groups and references are always names, the loaded groups
\* those of a masterlist, and only masterlist groups are reported as recovered:
\* Game's masterlist, userlist and messages_.
THEOREM TypeCorrect == Spec => []TypeOK
<1>1. Init => TypeOK
  BY NoMetadataIsMetadata DEF Init, TypeOK
<1>2. QED
  BY <1>1, TypeStep, PTL DEF Spec

-----------------------------------------------------------------------------
(* References exist.                                                       *)

\* If references dangle only to X before groups are removed, then so do those of
\* what recovery makes of the user metadata.
LEMMA RecoveredReferencesExist ==
  ASSUME NEW old \in Masterlists \cup {NoGroups}, NEW new \in Masterlists,
         NEW X, NEW u, IsMetadata(u),
         References(u) \subseteq DOMAIN old \cup DOMAIN u.groups \cup X
  PROVE  References(RecoverRemovedGroups(old, new, u))
           \subseteq DOMAIN new \cup DOMAIN RecoverRemovedGroups(old, new, u).groups \cup X
<1> DEFINE toKeep == NamesToKeep(old, new, u)
           toChange == NamesToChange(old, new, u)
           Rename(S) == {FindOrKey(toChange, m) : m \in S}
           added == {n \in DOMAIN old :
                       \/ n \in toKeep \cup toChange
                       \/ AddedAfter(old, toKeep, toChange, n) # {}}
           From(n) == {m \in added : FindOrKey(toChange, m) = n}
           Afters(n) == Rename(After(u.groups, n))
             \cup UNION {Rename(AddedAfter(old, toKeep, toChange, m)) : m \in From(n)}
           names == DOMAIN u.groups \cup Rename(added)
           groups == [n \in names |-> Afters(n)]
           plugins == [p \in Plugins |-> FindOrKey(toChange, u.plugins[p])]
           Exists(m) == FindOrKey(toChange, m) \in DOMAIN new \cup names \cup X
<1>1. RecoverRemovedGroups(old, new, u) = [groups |-> groups, plugins |-> plugins]
  BY DEF RecoverRemovedGroups, RecoverGroups
<1>2. /\ toKeep \cup toChange \subseteq DOMAIN old \ DOMAIN new
      /\ toChange \cap DOMAIN u.groups = {}
  BY RecoveredWereRemoved DEF GetRemovedGroups
<1>3. FindOrKey(toChange, NoGroup) = NoGroup
  BY RecoveryIsMetadata, NewNamesAreNames
<1>4. \A m \in toKeep \cup toChange : Exists(m)
  BY <1>2
<1>5. \A m \in DOMAIN new : Exists(m)
  BY <1>2 DEF FindOrKey
<1>6. ASSUME NEW m \in References(u)
      PROVE  Exists(m)
  <2>1. CASE m \in DOMAIN u.groups
    BY <1>2, <2>1 DEF FindOrKey
  <2>2. CASE m \in DOMAIN old /\ m \notin DOMAIN new
    BY <1>4, <2>2, ReferencedAreRecovered
  <2>3. CASE m \in X /\ m \notin DOMAIN old
    BY <1>2, <2>3 DEF FindOrKey
  <2>4. QED
    BY <1>5, <2>1, <2>2, <2>3
<1>7. ASSUME NEW n \in DOMAIN old, NEW m \in AddedAfter(old, toKeep, toChange, n)
      PROVE  Exists(m)
  <2>1. CASE n \in toKeep \cup toChange
    <3>1. m \in old[n]
      BY <2>1 DEF AddedAfter
    <3>2. m \in DOMAIN new \/ m \in toKeep \cup toChange
      BY <2>1, <3>1, RecoveryIsClosed
    <3>3. QED
      BY <1>4, <1>5, <3>2
  <2>2. CASE n \notin toKeep \cup toChange
    BY <1>4, <2>2 DEF AddedAfter
  <2>3. QED
    BY <2>1, <2>2
<1>8. ASSUME NEW n \in names, NEW r \in Afters(n)
      PROVE  r \in DOMAIN new \cup names \cup X
  <2>1. CASE r \in Rename(After(u.groups, n))
    <3>1. PICK m \in After(u.groups, n) : r = FindOrKey(toChange, m)
      BY <2>1
    <3>2. m \in References(u)
      BY <3>1 DEF After, References
    <3>3. QED
      BY <1>6, <3>1, <3>2
  <2>2. CASE \E k \in From(n) : r \in Rename(AddedAfter(old, toKeep, toChange, k))
    BY <1>7, <2>2
  <2>3. QED
    BY <2>1, <2>2
<1>9. ASSUME NEW p \in Plugins, plugins[p] # NoGroup
      PROVE  plugins[p] \in DOMAIN new \cup names \cup X
  <2>1. u.plugins[p] \in References(u)
    BY <1>3, <1>9 DEF References
  <2>2. QED
    BY <1>6, <2>1
<1> HIDE DEF names, Afters, plugins
<1>10. References([groups |-> groups, plugins |-> plugins])
         \subseteq DOMAIN new \cup names \cup X
  BY <1>8, <1>9 DEF References
<1>11. QED
  BY <1>1, <1>10

\* A step that edits makes no other references dangle than those to X.
LEMMA EditedReferencesExist ==
  ASSUME TypeOK, NEW X,
         References(user) \subseteq DOMAIN masterlist \cup DOMAIN user.groups \cup X,
         NEW nodes \in SUBSET Names, NEW edges \in SUBSET (nodes \X nodes),
         NEW plugins \in [Plugins -> Names \cup {NoGroup}],
         \A p \in Plugins :
           \/ plugins[p] \in nodes \cup {NoGroup}
           \/ plugins[p] = user.plugins[p] /\ plugins[p] \notin EditorGroups
  PROVE  LET groups == EditorSaves(nodes, edges)
         IN  References([groups |-> groups, plugins |-> plugins])
               \subseteq DOMAIN masterlist \cup DOMAIN groups \cup X
<1> DEFINE groups == EditorSaves(nodes, edges)
           exist == DOMAIN masterlist \cup DOMAIN groups
<1>1. /\ nodes \subseteq exist
      /\ \A n \in DOMAIN groups : groups[n] \subseteq nodes
  BY EditorSavesGroups
<1>2. ASSUME NEW p \in Plugins, plugins[p] # NoGroup
      PROVE  plugins[p] \in nodes \cup X
  <2>1. user.plugins[p] \in EditorGroups \cup {NoGroup} \cup X
    BY DEF References, EditorGroups
  <2>2. QED
    BY <1>2, <2>1
<1> HIDE DEF groups
<1>3. QED
  BY <1>1, <1>2 DEF References, groups

\* What the userlist refers to exists, or its removal was missed: without this a
\* loaded userlist may refer to anything.
MissedInv ==
  /\ TypeOK
  /\ References(userlist) \subseteq DOMAIN file \cup DOMAIN userlist.groups \cup missed
  /\ loaded => /\ masterlist = file
               /\ References(user)
                    \subseteq DOMAIN masterlist \cup DOMAIN user.groups \cup missed

LEMMA NoReferences == References(NoMetadata) = {}
BY DEF References, NoMetadata, NoGroups

LEMMA MissedInvInit == Init => MissedInv
BY NoMetadataIsMetadata, NoReferences DEF Init, TypeOK, MissedInv

\* A save of metadata that refers to no other missing group than the missed ones
\* keeps the invariant, whether it succeeds or fails.
LEMMA SaveKeepsMissedInv ==
  ASSUME MissedInv, TypeOK', loaded, NEW u, NEW reported,
         Save(u, reported), UNCHANGED <<loaded, file, masterlist, missed>>,
         References(u) \subseteq DOMAIN masterlist \cup DOMAIN u.groups \cup missed
  PROVE  MissedInv'
<1>1. user' = u /\ userlist' \in {u, userlist}
  BY DEF Save
<1>2. QED
  BY <1>1 DEF MissedInv

\* References that dangle to nothing but missed groups do so after a change of the
\* masterlist file too, if all that it removes is then missed.
LEMMA MissingKeepsReferences ==
  ASSUME NEW u, References(u) \subseteq DOMAIN file \cup DOMAIN u.groups \cup missed,
         Miss(GetRemovedGroups(file, file'))
  PROVE  References(u) \subseteq DOMAIN file' \cup DOMAIN u.groups \cup missed'
BY DEF Miss, GetRemovedGroups

LEMMA UpdateKeepsMissedInv ==
  ASSUME MissedInv, TypeOK', UpdateMasterlist
  PROVE  MissedInv'
<1> DEFINE removed == GetRemovedGroups(masterlist, file')
           recovered == RecoverRemovedGroups(masterlist, file', Reloaded)
           Dangling(u) == References(u) \subseteq DOMAIN file' \cup DOMAIN u.groups \cup missed'
<1>1. /\ loaded /\ loaded' /\ masterlist' = file' /\ file' \in Masterlists
      /\ masterlist = file /\ masterlist \in Masterlists \cup {NoGroups}
      /\ IsMetadata(Reloaded)
  BY ReloadedIsMetadata DEF UpdateMasterlist, MissedInv, TypeOK
<1>2. /\ References(Reloaded)
           \subseteq DOMAIN masterlist \cup DOMAIN Reloaded.groups \cup missed
      /\ References(userlist)
           \subseteq DOMAIN masterlist \cup DOMAIN userlist.groups \cup missed
  BY <1>1 DEF MissedInv, Reloaded
<1>3. SUFFICES Dangling(user') /\ Dangling(userlist')
  BY <1>1 DEF MissedInv
<1>4. \A m \in missed : m \in DOMAIN file' \cup missed'
  BY DEF UpdateMasterlist, Miss
<1>5. CASE removed = {}
  <2>1. user' = Reloaded /\ userlist' = userlist
    BY <1>5 DEF UpdateMasterlist
  <2>2. DOMAIN masterlist \subseteq DOMAIN file'
    BY <1>5 DEF GetRemovedGroups
  <2>3. QED
    BY <1>2, <1>4, <2>1, <2>2
<1>6. CASE removed # {}
  <2>1. user' = recovered /\ userlist' \in {recovered, userlist}
    BY <1>6 DEF UpdateMasterlist, Save
  <2>2. References(recovered) \subseteq DOMAIN file' \cup DOMAIN recovered.groups \cup missed
    BY <1>1, <1>2, RecoveredReferencesExist
  <2>3. Dangling(recovered)
    <3> HIDE DEF recovered
    <3>1. QED
      BY <1>4, <2>2
  <2>4. ASSUME userlist' # recovered
        PROVE  Dangling(userlist)
    <3>1. Miss(removed)
      BY <1>6, <2>4 DEF UpdateMasterlist
    <3>2. QED
      BY <1>1, <1>2, <3>1, MissingKeepsReferences
  <2> HIDE DEF recovered, Dangling
  <2>5. QED
    BY <2>1, <2>3, <2>4
<1>7. QED
  BY <1>5, <1>6

LEMMA MissedInvStep ==
  ASSUME MissedInv, [Next]_vars
  PROVE  MissedInv'
<1>1. TypeOK /\ TypeOK'
  BY TypeStep DEF MissedInv
<1>2. loaded => References(user)
                  \subseteq DOMAIN masterlist \cup DOMAIN user.groups \cup missed
  BY DEF MissedInv
<1>3. CASE LoadGame
  BY <1>1, <1>3 DEF LoadGame, MissedInv
<1>4. CASE LeaveGame
  BY <1>1, <1>4 DEF LeaveGame, MissedInv
<1>5. CASE UpdateMasterlist
  BY <1>1, <1>5, UpdateKeepsMissedInv
<1>6. CASE UpdateElsewhere
  BY <1>1, <1>6, MissingKeepsReferences DEF UpdateElsewhere, MissedInv
<1>7. CASE UpdateNeverEnds
  <2>1. Miss(GetRemovedGroups(file, file')) /\ userlist' = userlist /\ ~loaded'
    BY <1>7 DEF UpdateNeverEnds, MissedInv
  <2>2. QED
    BY <1>1, <2>1, MissingKeepsReferences DEF MissedInv
<1>8. CASE \/ \E n \in Base \cup UserNames : AddGroup(n)
           \/ \E n \in Names : RemoveGroup(n)
           \/ \E n \in Names, m \in Base \cup UserNames : RenameGroup(n, m)
           \/ \E n, m \in Names : AddLoadAfter(n, m)
           \/ \E n, m \in Names : RemoveLoadAfter(n, m)
  <2>1. PICK nodes \in SUBSET Names :
          \E edges \in SUBSET (nodes \X nodes),
             plugins \in [Plugins -> Names \cup {NoGroup}] :
            /\ SaveEditor(nodes, edges, plugins)
            /\ \A p \in Plugins :
                 \/ plugins[p] \in nodes \cup {NoGroup}
                 \/ plugins[p] = user.plugins[p] /\ plugins[p] \notin EditorGroups
    BY <1>1, <1>8, EditorSteps
  <2>2. PICK edges \in SUBSET (nodes \X nodes),
             plugins \in [Plugins -> Names \cup {NoGroup}] :
          /\ SaveEditor(nodes, edges, plugins)
          /\ \A p \in Plugins :
               \/ plugins[p] \in nodes \cup {NoGroup}
               \/ plugins[p] = user.plugins[p] /\ plugins[p] \notin EditorGroups
    BY <2>1
  <2> DEFINE groups == EditorSaves(nodes, edges)
             u == [groups |-> groups, plugins |-> plugins]
             reported == CheckForRecoveredGroups(messages, groups)
  <2>3. /\ Save(u, reported) /\ loaded
        /\ UNCHANGED <<loaded, file, masterlist, missed>>
    BY <2>2 DEF SaveEditor, EditorSaves
  <2>4. References(u) \subseteq DOMAIN masterlist \cup DOMAIN u.groups \cup missed
    BY <1>1, <1>2, <2>2, <2>3, EditedReferencesExist
  <2> HIDE DEF u, reported
  <2>5. QED
    BY <1>1, <2>3, <2>4, SaveKeepsMissedInv
<1>9. ASSUME NEW p \in Plugins, NEW n \in Names \cup {NoGroup}, SetPluginGroup(p, n)
      PROVE  MissedInv'
  <2> DEFINE plugins == [user.plugins EXCEPT ![p] = n]
             u == [groups |-> user.groups, plugins |-> plugins]
  <2>1. [user EXCEPT !.plugins[p] = n] = u
    BY <1>1 DEF TypeOK, IsMetadata
  <2>2. /\ Save(u, messages) /\ loaded
        /\ UNCHANGED <<loaded, file, masterlist, missed>>
    BY <1>9, <2>1 DEF SetPluginGroup
  <2>3. n \in DOMAIN masterlist \cup DOMAIN user.groups \cup {NoGroup}
    BY <1>9 DEF SetPluginGroup
  <2>4. \A q \in Plugins : plugins[q] \in {n, user.plugins[q]}
    BY <1>1 DEF TypeOK, IsMetadata
  <2> HIDE DEF plugins
  <2>5. References(u) \subseteq DOMAIN masterlist \cup DOMAIN u.groups \cup missed
    BY <1>2, <2>2, <2>3, <2>4 DEF References
  <2> HIDE DEF u
  <2>6. QED
    BY <1>1, <2>2, <2>5, SaveKeepsMissedInv
<1>10. CASE ClearAllUserMetadata
  BY <1>1, <1>10, NoReferences, SaveKeepsMissedInv DEF ClearAllUserMetadata
<1>11. CASE UNCHANGED vars
  BY <1>1, <1>11 DEF vars, MissedInv
<1>12. QED
  BY <1>3, <1>4, <1>5, <1>6, <1>7, <1>8, <1>9, <1>10, <1>11 DEF Next

\* Whatever fails and whichever masterlists change while they are not loaded, no
\* sequence of masterlist updates, edits and switches of the game leaves user
\* metadata referring to a missing group whose removal a recovery was saved for:
\* recoverRemovedGroups recovers all that the metadata it is given needs, also
\* where that already has dangling references, and the editors make none.
THEOREM OnlyMissedDangle == Spec => []DanglingOnlyMissed
<1>1. MissedInv => DanglingOnlyMissed
  BY DEF MissedInv, DanglingOnlyMissed
<1>2. QED
  BY <1>1, MissedInvInit, MissedInvStep, PTL DEF Spec

\* Nothing is missed.
Inv == MissedInv /\ missed = {}

\* The queue that the removal of acyclic groups fills is emptied.
LEMMA AcyclicQueueEnds ==
  ASSUME NEW old, Acyclic(old), NEW new, NEW u
  PROVE  QueueEnds(old, new, u)
<1> DEFINE queued == ProcessQueue(old, new, InitialQueue(old, new, u))
           groups == [n \in queued |-> old[n]]
<1>1. queued \subseteq DOMAIN old
  BY DEF ProcessQueue, GetRemovedGroups
<1> HIDE DEF queued
<1>2. ASSUME NEW S \in (SUBSET queued) \ {{}}
      PROVE  \E n \in S : groups[n] \cap S = {}
  <2>1. PICK n \in S : old[n] \cap S = {}
    BY <1>1, <1>2 DEF Acyclic
  <2>2. groups[n] = old[n]
    BY <1>2, <2>1
  <2>3. QED
    BY <2>1, <2>2
<1>3. Acyclic(groups)
  BY <1>2 DEF Acyclic
<1>4. QED
  BY <1>3 DEF QueueEnds, queued

LEMMA InvStep ==
  ASSUME Saves = {TRUE}, ~Elsewhere, \A g \in Masterlists : Acyclic(g),
         Inv, [Next]_vars
  PROVE  Inv'
<1>1. MissedInv'
  BY MissedInvStep DEF Inv
<1>2. CASE UpdateMasterlist
  <2>1. Miss({})
    BY <1>2 DEF UpdateMasterlist, Save
  <2>2. QED
    BY <1>1, <2>1 DEF Miss, Inv
<1>3. ~UpdateElsewhere
  BY DEF UpdateElsewhere
<1>4. ~UpdateNeverEnds
  <2>1. Acyclic(NoGroups)
    BY DEF Acyclic, NoGroups
  <2>2. masterlist \in Masterlists \cup {NoGroups}
    BY DEF Inv, MissedInv, TypeOK
  <2>3. QED
    BY <2>1, <2>2, AcyclicQueueEnds DEF UpdateNeverEnds
<1>5. CASE ~UpdateMasterlist
  <2>1. missed' = missed
    BY <1>3, <1>4, <1>5 DEF Next, vars, LoadGame, LeaveGame, AddGroup, RemoveGroup,
       RenameGroup, AddLoadAfter, RemoveLoadAfter, SaveEditor, SetPluginGroup,
       ClearAllUserMetadata
  <2>2. QED
    BY <1>1, <2>1 DEF Inv
<1>6. QED
  BY <1>2, <1>5

\* As long as the userlist can be written, masterlists are updated only while
\* they are loaded, and their groups are acyclic, no sequence of masterlist
\* updates, edits and switches of the game leaves user metadata referring to a
\* group that does not exist.
THEOREM ReferencesAlwaysExist ==
  ASSUME Saves = {TRUE}, ~Elsewhere, \A g \in Masterlists : Acyclic(g)
  PROVE  Spec => []ReferencesExist
<1>1. Init => Inv
  BY MissedInvInit DEF Init, Inv
<1>2. Inv => ReferencesExist
  BY DEF Inv, MissedInv, ReferencesExist
<1>3. QED
  BY <1>1, <1>2, InvStep, PTL DEF Spec

-----------------------------------------------------------------------------
(* What a masterlist update does to the user's groups.                     *)

\* The load-afters of the user's groups, and those of the old masterlist to or
\* from a recovered group, are in what recovery makes of the user metadata.
LEMMA RecoveryKeepsLoadAfters ==
  ASSUME NEW old, NEW new, NEW u, NEW n, NEW m,
         LET recovered == NamesToKeep(old, new, u) \cup NamesToChange(old, new, u)
         IN  \/ m \in After(u.groups, n)
             \/ m \in After(old, n) /\ {n, m} \cap recovered # {}
  PROVE  LET toChange == NamesToChange(old, new, u)
         IN  FindOrKey(toChange, m) \in
               After(RecoverRemovedGroups(old, new, u).groups, FindOrKey(toChange, n))
<1> DEFINE toKeep == NamesToKeep(old, new, u)
           toChange == NamesToChange(old, new, u)
           Rename(S) == {FindOrKey(toChange, k) : k \in S}
           added == {k \in DOMAIN old :
                       \/ k \in toKeep \cup toChange
                       \/ AddedAfter(old, toKeep, toChange, k) # {}}
           From(k) == {l \in added : FindOrKey(toChange, l) = k}
           Afters(k) == Rename(After(u.groups, k))
             \cup UNION {Rename(AddedAfter(old, toKeep, toChange, l)) : l \in From(k)}
           names == DOMAIN u.groups \cup Rename(added)
           groups == [k \in names |-> Afters(k)]
           name == FindOrKey(toChange, n)
<1>1. RecoverRemovedGroups(old, new, u).groups = groups
  BY DEF RecoverRemovedGroups, RecoverGroups
<1>2. name \in names /\ FindOrKey(toChange, m) \in Afters(name)
  <2>1. CASE m \in After(u.groups, n)
    <3>1. n \in DOMAIN u.groups
      BY <2>1 DEF After
    <3>2. name = n
      BY <3>1, RecoveredWereRemoved DEF FindOrKey
    <3>3. QED
      BY <2>1, <3>1, <3>2
  <2>2. CASE m \in After(old, n) /\ {n, m} \cap (toKeep \cup toChange) # {}
    <3>1. n \in DOMAIN old /\ m \in AddedAfter(old, toKeep, toChange, n)
      BY <2>2 DEF After, AddedAfter
    <3>2. n \in added
      BY <3>1
    <3>3. n \in From(name)
      BY <3>2
    <3>4. FindOrKey(toChange, m) \in Rename(AddedAfter(old, toKeep, toChange, n))
      BY <3>1
    <3>5. QED
      BY <3>2, <3>3, <3>4
  <2>3. QED
    BY <2>1, <2>2
<1> HIDE DEF names, Afters
<1>3. QED
  BY <1>1, <1>2 DEF After

\* The masterlist file of a loaded game changes only when its masterlist is
\* updated.
LEMMA OnlyUpdatesUpdate ==
  ASSUME [Next]_vars, Updates
  PROVE  UpdateMasterlist
BY DEF Next, vars, Updates, LoadGame, LeaveGame, UpdateElsewhere, AddGroup,
       RemoveGroup, RenameGroup, AddLoadAfter, RemoveLoadAfter, SaveEditor,
       SetPluginGroup, ClearAllUserMetadata, UpdateNeverEnds

\* Where no group is removed nothing is recovered, and nothing changes.
LEMMA NothingRemoved ==
  ASSUME UpdateMasterlist, GetRemovedGroups(masterlist, file') = {}
  PROVE  user' = Reloaded /\ ToKeep = {} /\ ToChange = {}
BY RecoveredWereRemoved DEF UpdateMasterlist, ToKeep, ToChange

LEMMA LoadAftersStep == [Next]_vars => KeepsLoadAfters
<1> SUFFICES ASSUME [Next]_vars, Updates,
                    NEW n \in Names, NEW m \in Names,
                    \/ m \in After(Reloaded.groups, n)
                    \/ /\ m \in After(masterlist, n)
                       /\ {n, m} \cap (ToKeep \cup ToChange) # {}
             PROVE  FindOrKey(ToChange, m) \in
                      After(user'.groups, FindOrKey(ToChange, n))
  BY DEF KeepsLoadAfters
<1>1. UpdateMasterlist
  BY OnlyUpdatesUpdate
<1>2. CASE GetRemovedGroups(masterlist, file') = {}
  BY <1>1, <1>2, NothingRemoved DEF FindOrKey
<1>3. CASE GetRemovedGroups(masterlist, file') # {}
  <2>1. user' = RecoverRemovedGroups(masterlist, file', Reloaded)
    BY <1>1, <1>3 DEF UpdateMasterlist, Save
  <2>2. QED
    BY <2>1, RecoveryKeepsLoadAfters DEF ToKeep, ToChange
<1>4. QED
  BY <1>2, <1>3

\* Whatever a masterlist update removes, and whether or not the userlist can be
\* written, no load-after of the reloaded user groups is lost, and none of the old
\* masterlist to or from a recovered group (Game::loadMetadata,
\* recoverRemovedGroups).
THEOREM LoadAftersAreKept == Spec => LoadAftersKept
BY LoadAftersStep, PTL DEF Spec, LoadAftersKept

\* A name with the suffix among the recovered groups is that of a group that was
\* renamed to it, or of a group that the user had.
LEMMA NewNamesWereChanged ==
  ASSUME NEW old \in Masterlists \cup {NoGroups}, NEW new, NEW u, NEW n \in Base,
         Recovered(n) \in DOMAIN RecoverRemovedGroups(old, new, u).groups,
         Recovered(n) \notin DOMAIN u.groups
  PROVE  n \in NamesToChange(old, new, u)
<1> DEFINE toChange == NamesToChange(old, new, u)
<1>1. PICK k \in DOMAIN old : Recovered(n) = FindOrKey(toChange, k)
  BY DEF RecoverRemovedGroups, RecoverGroups
<1>2. k \in Base
  BY <1>1, MasterlistFacts
<1>3. Recovered(n) # k
  BY <1>2, NamesAssumption DEF RecoveredNames
<1>4. k \in toChange /\ Recovered(k) = Recovered(n)
  BY <1>1, <1>3 DEF FindOrKey
<1>5. QED
  BY <1>2, <1>4, NamesAssumption

\* While saving succeeds, what is loaded is what is saved: without this a
\* recovered group may be in the userlist and not yet, or no longer, loaded.
Synced == loaded => user = userlist

LEMMA SyncedStep ==
  ASSUME Saves = {TRUE}, Synced, [Next]_vars
  PROVE  Synced'
<1>1. CASE LoadGame
  BY <1>1 DEF Synced, LoadGame
<1>2. CASE LeaveGame
  BY <1>2 DEF Synced, LeaveGame
<1>3. CASE UpdateElsewhere
  BY <1>3 DEF Synced, UpdateElsewhere
<1>4. CASE UNCHANGED vars
  BY <1>4 DEF Synced, vars
<1>5. CASE GetRemovedGroups(masterlist, file') = {} /\ UpdateMasterlist
  BY <1>5 DEF Synced, UpdateMasterlist, Reloaded
<1>6. CASE \E u, reported : Save(u, reported)
  BY <1>6 DEF Synced, Save
<1>7. CASE UpdateNeverEnds
  BY <1>7 DEF Synced, UpdateNeverEnds
<1>8. QED
  BY <1>1, <1>2, <1>3, <1>4, <1>5, <1>6, <1>7 DEF Next, UpdateMasterlist, AddGroup, RemoveGroup,
     RenameGroup, AddLoadAfter, RemoveLoadAfter, SaveEditor, SetPluginGroup,
     ClearAllUserMetadata

LEMMA ReportedStep ==
  ASSUME Saves = {TRUE}, TypeOK, Synced, [Next]_vars
  PROVE  ReportsRecovered
<1> SUFFICES ASSUME NEW n \in Base, Updates,
                    Recovered(n) \in DOMAIN user'.groups,
                    Recovered(n) \notin DOMAIN user.groups
             PROVE  n \in messages'
  BY DEF ReportsRecovered
<1>1. UpdateMasterlist
  BY OnlyUpdatesUpdate
<1>2. user = Reloaded /\ masterlist \in Masterlists \cup {NoGroups}
  BY <1>1 DEF UpdateMasterlist, Synced, TypeOK, Reloaded
<1>3. GetRemovedGroups(masterlist, file') # {}
  BY <1>1, <1>2, NothingRemoved
<1> DEFINE recovered == RecoverRemovedGroups(masterlist, file', Reloaded)
           reported == messages \cup NamesToChange(masterlist, file', Reloaded)
<1>4. /\ user' = recovered
      /\ messages' = CheckForRecoveredGroups(reported, recovered.groups)
  BY <1>1, <1>3 DEF UpdateMasterlist, Save
<1>5. n \in NamesToChange(masterlist, file', Reloaded)
  BY <1>2, <1>4, NewNamesWereChanged
<1>6. QED
  BY <1>4, <1>5 DEF CheckForRecoveredGroups

\* As long as the userlist can be written, every group that a masterlist update
\* adds to the user metadata under a recovered name is among the reported ones:
\* the message about it is not dropped with those about groups that are gone
\* (Game::loadMetadata, Game::checkForRecoveredGroups).
THEOREM RecoveriesAreReported ==
  ASSUME Saves = {TRUE}
  PROVE  Spec => RecoveryReported
<1>1. Init => TypeOK /\ Synced
  BY NoMetadataIsMetadata DEF Init, TypeOK, Synced
<1>2. QED
  BY <1>1, TypeStep, SyncedStep, ReportedStep, PTL DEF Spec, RecoveryReported

-----------------------------------------------------------------------------
(* Cycles, as sets without a group that loads after none of them: loading   *)
(* after another group, at once or through others, needs no paths then.     *)

\* What a group loads after is closed under load-afters.
LEMMA LoadsAfterClosed ==
  ASSUME NEW g, IsGroups(g), NEW n, NEW m, NEW k
  PROVE  /\ k \in After(g, n) => LoadsAfter(g, n, k)
         /\ LoadsAfter(g, n, m) /\ k \in After(g, m) => LoadsAfter(g, n, k)
         /\ LoadsAfter(g, n, m) => n \in DOMAIN g /\ m \in Names
<1>1. \A S \in SUBSET Names : Closed(g, S) /\ m \in S /\ k \in After(g, m) => k \in S
  BY DEF Closed, After
<1>2. LoadsAfter(g, n, m) => n \in DOMAIN g
  <2>1. Closed(g, {})
    BY DEF Closed
  <2>2. QED
    BY <2>1 DEF LoadsAfter, After
<1>3. LoadsAfter(g, n, m) => m \in Names
  <2>1. Closed(g, Names) /\ After(g, n) \subseteq Names
    BY DEF Closed, After, IsGroups
  <2>2. QED
    BY <2>1 DEF LoadsAfter
<1>4. QED
  BY <1>1, <1>2, <1>3 DEF LoadsAfter

\* A group that loads after another one does so at once, or through a group that
\* it loads after at once.
LEMMA FirstLoadAfter ==
  ASSUME NEW g, IsGroups(g), NEW n, NEW m, LoadsAfter(g, n, m)
  PROVE  \E k \in After(g, n) : k = m \/ LoadsAfter(g, k, m)
<1> DEFINE C == {x \in Names : \E k \in After(g, n) : k = x \/ LoadsAfter(g, k, x)}
<1>1. After(g, n) \subseteq Names /\ \A x \in DOMAIN g : g[x] \subseteq Names
  BY DEF After, IsGroups
<1>2. After(g, n) \subseteq C
  BY <1>1
<1>3. ASSUME NEW x \in C \cap DOMAIN g, NEW y \in g[x]
      PROVE  y \in C
  <2>1. y \in After(g, x) /\ y \in Names
    BY <1>1, <1>3 DEF After
  <2>2. PICK k \in After(g, n) : k = x \/ LoadsAfter(g, k, x)
    BY <1>3
  <2>3. LoadsAfter(g, k, y)
    BY <2>1, <2>2, LoadsAfterClosed
  <2>4. QED
    BY <2>1, <2>3
<1>4. Closed(g, C)
  BY <1>3 DEF Closed
<1>5. m \in C
  BY <1>2, <1>4 DEF LoadsAfter
<1>6. QED
  BY <1>5

\* Where every group of a set loads after one of the set, there is a cycle.
LEMMA AcyclicLoadsAfter ==
  ASSUME NEW g, IsGroups(g), Acyclic(g), NEW T,
         \A x \in T : \E y \in T : LoadsAfter(g, x, y)
  PROVE  T = {}
<1> DEFINE U == {n \in DOMAIN g : \E y \in T : LoadsAfter(g, n, y)}
<1>1. T \subseteq U
  BY LoadsAfterClosed
<1>2. ASSUME NEW n \in U
      PROVE  g[n] \cap U # {}
  <2>1. PICK y \in T : LoadsAfter(g, n, y)
    BY <1>2
  <2>2. PICK k \in After(g, n) : k = y \/ LoadsAfter(g, k, y)
    BY <2>1, FirstLoadAfter
  <2>3. k \in g[n]
    BY <1>2, <2>2 DEF After
  <2>4. k \in U
    BY <1>1, <2>1, <2>2, LoadsAfterClosed
  <2>5. QED
    BY <2>3, <2>4
<1>3. U \subseteq DOMAIN g
  OBVIOUS
<1> HIDE DEF U
<1>4. U = {}
  BY <1>2, <1>3 DEF Acyclic
<1>5. QED
  BY <1>1, <1>4

\* H is made of F, and of load-afters of G between groups V that are renamed,
\* each to a name of its own that F lacks; F orders no two of them in a new way.
MadeOf(H, F, G, V, toChange) ==
  /\ IsGroups(G) /\ IsGroups(F)
  /\ \A k \in DOMAIN F : F[k] \subseteq DOMAIN F
  /\ \A n, m \in V : LoadsAfter(F, n, m) => LoadsAfter(G, n, m)
  /\ \A x, y \in V : FindOrKey(toChange, x) = FindOrKey(toChange, y) => x = y
  /\ \A x \in V : FindOrKey(toChange, x) \in DOMAIN F => FindOrKey(toChange, x) = x
  /\ \A x \in DOMAIN F : FindOrKey(toChange, x) = x
  /\ \A k \in DOMAIN H : \A m \in H[k] :
       \/ m \in After(F, k)
       \/ \E x, y \in V : /\ k = FindOrKey(toChange, x) /\ m = FindOrKey(toChange, y)
                          /\ y \in After(G, x)

\* A cycle of H is one of F, or goes through renamed groups: then each loads
\* after the next of them in G.
LEMMA NoNewCycle ==
  ASSUME NEW G, NEW F, NEW H, NEW V, NEW toChange,
         MadeOf(H, F, G, V, toChange), Acyclic(G), Acyclic(F)
  PROVE  Acyclic(H)
<1> SUFFICES ASSUME NEW S \in SUBSET DOMAIN H, \A n \in S : H[n] \cap S # {}
             PROVE  S = {}
  BY DEF Acyclic
<1> DEFINE r(n) == FindOrKey(toChange, n)
           T == {x \in V : r(x) \in S}
<1>0. /\ IsGroups(G) /\ IsGroups(F)
      /\ \A n, m \in V : LoadsAfter(F, n, m) => LoadsAfter(G, n, m)
      /\ \A k \in DOMAIN F : F[k] \subseteq DOMAIN F
      /\ \A x, y \in V : r(x) = r(y) => x = y
      /\ \A x \in V : r(x) \in DOMAIN F => r(x) = x
      /\ \A x \in DOMAIN F : r(x) = x
      /\ \A k \in DOMAIN H : \A m \in H[k] :
           \/ m \in After(F, k)
           \/ \E x, y \in V : k = r(x) /\ m = r(y) /\ y \in After(G, x)
  BY DEF MadeOf
<1>1. \* A set of new names that only load after each other is empty.
      ASSUME NEW R \in SUBSET (S \cap DOMAIN F), R \cap V = {},
             \A n \in R : S \cap After(F, n) \subseteq R
      PROVE  R = {}
  <2>1. ASSUME NEW n \in R
        PROVE  F[n] \cap R # {}
    <3>1. PICK m \in H[n] : m \in S
      BY <1>1
    <3>2. ~\E x \in V : n = r(x)
      BY <1>0, <1>1
    <3>3. m \in After(F, n)
      BY <1>0, <1>1, <3>1, <3>2
    <3>4. QED
      BY <1>1, <3>1, <3>3 DEF After
  <2>2. QED
    BY <1>1, <2>1 DEF Acyclic
<1>2. ASSUME NEW x \in T
      PROVE  \E y \in T : LoadsAfter(G, x, y)
  <2>1. PICK m \in H[r(x)] : m \in S
    BY <1>2
  <2>2. CASE \E y, z \in V : r(x) = r(y) /\ m = r(z) /\ z \in After(G, y)
    <3>1. PICK y \in V, z \in V : r(x) = r(y) /\ m = r(z) /\ z \in After(G, y)
      BY <2>2
    <3>2. y = x /\ z \in T
      BY <1>0, <1>2, <2>1, <3>1
    <3>3. QED
      BY <1>0, <3>1, <3>2, LoadsAfterClosed
  <2>3. CASE m \in After(F, r(x))
    <3>1. r(x) \in DOMAIN F
      BY <2>3 DEF After
    <3>2. r(x) = x
      BY <1>0, <1>2, <3>1
    <3> DEFINE R == {n \in S : LoadsAfter(F, x, n)}
    <3>3. R \subseteq DOMAIN F
      <4>1. Closed(F, DOMAIN F) /\ After(F, x) \subseteq DOMAIN F /\ DOMAIN F \subseteq Names
        BY <1>0 DEF Closed, After, IsGroups
      <4>2. QED
        BY <4>1 DEF LoadsAfter
    <3>4. m \in R
      BY <1>0, <2>1, <2>3, <3>2, LoadsAfterClosed
    <3>5. \A n \in R : S \cap After(F, n) \subseteq R
      BY <1>0, LoadsAfterClosed
    <3> HIDE DEF r
    <3>6. R \cap V # {}
      BY <1>1, <3>3, <3>4, <3>5
    <3>7. PICK y \in V : y \in S /\ LoadsAfter(F, x, y) /\ y \in DOMAIN F
      BY <3>3, <3>6
    <3>8. r(y) = y
      BY <1>0, <3>7 DEF r
    <3>9. QED
      BY <1>0, <1>2, <3>7, <3>8
  <2>4. QED
    BY <1>0, <1>2, <2>1, <2>2, <2>3
<1>3. T = {}
  <2> HIDE DEF T
  <2>1. QED
    BY <1>0, <1>2, AcyclicLoadsAfter
<1>4. ASSUME NEW n \in S
      PROVE  n \in DOMAIN F /\ n \notin V
  <2>1. PICK m \in H[n] : m \in S
    BY <1>4
  <2>2. ~\E x \in V : n = r(x)
    BY <1>3, <1>4
  <2>3. m \in After(F, n)
    BY <1>0, <1>4, <2>1, <2>2
  <2>4. n \in DOMAIN F
    BY <2>3 DEF After
  <2>5. r(n) = n
    BY <1>0, <2>4
  <2>6. QED
    BY <2>2, <2>4, <2>5
<1>5. QED
  <2>1. S \in SUBSET (S \cap DOMAIN F) /\ S \cap V = {}
    BY <1>4
  <2>2. QED
    BY <1>1, <2>1

\* Every load-after of the user's groups after recovery was one before, under
\* the old names.
LEMMA RecoveryAddsNoLoadAfter ==
  ASSUME NEW old, NEW new, NEW u,
         NEW k \in DOMAIN RecoverRemovedGroups(old, new, u).groups,
         NEW m \in RecoverRemovedGroups(old, new, u).groups[k]
  PROVE  \E x, y : /\ k = FindOrKey(NamesToChange(old, new, u), x)
                   /\ m = FindOrKey(NamesToChange(old, new, u), y)
                   /\ y \in After(old, x) \/ y \in After(u.groups, x)
<1> DEFINE toKeep == NamesToKeep(old, new, u)
           toChange == NamesToChange(old, new, u)
           Rename(S) == {FindOrKey(toChange, n) : n \in S}
           added == {n \in DOMAIN old :
                       \/ n \in toKeep \cup toChange
                       \/ AddedAfter(old, toKeep, toChange, n) # {}}
           From(n) == {x \in added : FindOrKey(toChange, x) = n}
<1>1. toChange \cap DOMAIN u.groups = {}
  BY RecoveredWereRemoved
<1> HIDE DEF toKeep, toChange
<1>2. m \in Rename(After(u.groups, k))
            \cup UNION {Rename(AddedAfter(old, toKeep, toChange, x)) : x \in From(k)}
  BY DEF RecoverRemovedGroups, RecoverGroups, toKeep, toChange
<1>3. CASE m \in Rename(After(u.groups, k))
  <2>1. PICK y \in After(u.groups, k) : m = FindOrKey(toChange, y)
    BY <1>3
  <2>2. k = FindOrKey(toChange, k)
    BY <1>1, <2>1 DEF After, FindOrKey
  <2>3. QED
    BY <2>1, <2>2 DEF toChange
<1>4. CASE m \in UNION {Rename(AddedAfter(old, toKeep, toChange, x)) : x \in From(k)}
  <2>1. PICK x \in From(k) : m \in Rename(AddedAfter(old, toKeep, toChange, x))
    BY <1>4
  <2>2. PICK y \in AddedAfter(old, toKeep, toChange, x) : m = FindOrKey(toChange, y)
    BY <2>1
  <2>3. y \in After(old, x)
    BY <2>1, <2>2 DEF AddedAfter, After
  <2>4. QED
    BY <2>1, <2>2, <2>3 DEF toChange
<1>5. QED
  BY <1>2, <1>3, <1>4

\* Groups with the suffix exist if others load after them: otherwise a group
\* could be renamed to a name that already has a place in the user's order.
SuffixedExist(u) ==
  \A n \in DOMAIN u.groups : u.groups[n] \cap RecoveredNames \subseteq DOMAIN u.groups
CycleInv == TypeOK /\ SuffixedExist(user) /\ SuffixedExist(userlist)

\* What recovery renames, it adds to the user's groups.
LEMMA RecoveredSuffixedExist ==
  ASSUME NEW old \in Masterlists \cup {NoGroups}, NEW new, NEW u, SuffixedExist(u)
  PROVE  SuffixedExist(RecoverRemovedGroups(old, new, u))
<1> DEFINE toChange == NamesToChange(old, new, u)
           groups == RecoverRemovedGroups(old, new, u).groups
<1>1. /\ DOMAIN u.groups \subseteq DOMAIN groups
      /\ \A y \in toChange : FindOrKey(toChange, y) \in DOMAIN groups
  BY RecoveredWereRemoved DEF RecoverRemovedGroups, RecoverGroups, GetRemovedGroups
<1>2. ASSUME NEW k \in DOMAIN groups, NEW m \in groups[k], m \in RecoveredNames
      PROVE  m \in DOMAIN groups
  <2>1. PICK x, y : /\ m = FindOrKey(toChange, y)
                    /\ y \in After(old, x) \/ y \in After(u.groups, x)
    BY RecoveryAddsNoLoadAfter
  <2>2. CASE y \in toChange
    BY <1>1, <2>1, <2>2
  <2>3. CASE y \notin toChange
    <3>1. m = y
      BY <2>1, <2>3 DEF FindOrKey
    <3>2. y \notin Base
      BY <1>2, <3>1, NamesAssumption
    <3>3. y \in After(u.groups, x)
      BY <2>1, <3>2, MasterlistFacts DEF After
    <3>4. QED
      BY <1>1, <1>2, <3>1, <3>3 DEF SuffixedExist, After
  <2>4. QED
    BY <2>2, <2>3
<1>3. QED
  BY <1>2 DEF SuffixedExist

\* The two copies of the user metadata that a save may leave.
LEMMA SaveKeepsCycleInv ==
  ASSUME CycleInv, TypeOK', NEW u, NEW reported, Save(u, reported), SuffixedExist(u)
  PROVE  CycleInv'
BY DEF CycleInv, Save

LEMMA CycleInvStep ==
  ASSUME CycleInv, [Next]_vars
  PROVE  CycleInv'
<1>1. TypeOK /\ TypeOK'
  BY TypeStep DEF CycleInv
<1>2. SuffixedExist(NoMetadata)
  BY DEF SuffixedExist, NoMetadata, NoGroups
<1>3. CASE LoadGame \/ LeaveGame \/ UpdateElsewhere \/ UpdateNeverEnds \/ UNCHANGED vars
  BY <1>1, <1>2, <1>3
     DEF LoadGame, LeaveGame, UpdateElsewhere, UpdateNeverEnds, vars, CycleInv
<1>4. CASE UpdateMasterlist
  <2>1. CASE GetRemovedGroups(masterlist, file') = {}
    BY <1>1, <1>4, <2>1, NothingRemoved DEF UpdateMasterlist, CycleInv, Reloaded
  <2>2. CASE GetRemovedGroups(masterlist, file') # {}
    <3>1. SuffixedExist(RecoverRemovedGroups(masterlist, file', Reloaded))
      BY <1>1, RecoveredSuffixedExist DEF CycleInv, TypeOK, Reloaded
    <3>2. QED
      BY <1>1, <1>4, <2>2, <3>1, SaveKeepsCycleInv DEF UpdateMasterlist
  <2>3. QED
    BY <2>1, <2>2
<1>5. CASE \/ \E n \in Base \cup UserNames : AddGroup(n)
           \/ \E n \in Names : RemoveGroup(n)
           \/ \E n \in Names, m \in Base \cup UserNames : RenameGroup(n, m)
           \/ \E n, m \in Names : AddLoadAfter(n, m)
           \/ \E n, m \in Names : RemoveLoadAfter(n, m)
  <2>1. PICK nodes \in SUBSET Names :
          \E edges \in SUBSET (nodes \X nodes),
             plugins \in [Plugins -> Names \cup {NoGroup}] :
            SaveEditor(nodes, edges, plugins)
    BY <1>1, <1>5, EditorSteps
  <2>2. PICK edges \in SUBSET (nodes \X nodes),
             plugins \in [Plugins -> Names \cup {NoGroup}] :
          SaveEditor(nodes, edges, plugins)
    BY <2>1
  <2> DEFINE groups == EditorSaves(nodes, edges)
             u == [groups |-> groups, plugins |-> plugins]
             reported == CheckForRecoveredGroups(messages, groups)
  <2>3. Save(u, reported)
    BY <2>2 DEF SaveEditor, EditorSaves
  <2>4. /\ nodes \subseteq DOMAIN masterlist \cup DOMAIN groups
        /\ \A n \in DOMAIN groups : groups[n] \subseteq nodes
    BY EditorSavesGroups
  <2>5. DOMAIN masterlist \cap RecoveredNames = {}
    BY <1>1, MasterlistFacts, NamesAssumption DEF TypeOK
  <2>6. u.groups = groups
    OBVIOUS
  <2> HIDE DEF groups, u, reported
  <2>7. SuffixedExist(u)
    BY <2>4, <2>5, <2>6 DEF SuffixedExist
  <2>8. QED
    BY <1>1, <2>3, <2>7, SaveKeepsCycleInv
<1>6. ASSUME NEW p \in Plugins, NEW n \in Names \cup {NoGroup}, SetPluginGroup(p, n)
      PROVE  CycleInv'
  <2>1. PICK u : u = [user EXCEPT !.plugins[p] = n]
    OBVIOUS
  <2>2. u.groups = user.groups
    BY <1>1, <2>1 DEF TypeOK, IsMetadata
  <2>3. Save(u, messages)
    BY <1>6, <2>1 DEF SetPluginGroup
  <2>4. SuffixedExist(u)
    BY <2>2 DEF CycleInv, SuffixedExist
  <2>5. QED
    BY <1>1, <2>3, <2>4, SaveKeepsCycleInv
<1>7. CASE ClearAllUserMetadata
  BY <1>1, <1>2, <1>7, SaveKeepsCycleInv DEF ClearAllUserMetadata
<1>8. QED
  BY <1>3, <1>4, <1>5, <1>6, <1>7 DEF Next

\* What an update loads is acyclic.
LEMMA NoCycleStep ==
  ASSUME CycleInv, UpdateMasterlist,
         \A n \in ToChange : Recovered(n) \notin DOMAIN Merged(masterlist, Reloaded),
         Acyclic(Merged(masterlist, Reloaded)), Acyclic(file'),
         \A n, m \in DOMAIN Merged(masterlist, Reloaded) \cup References(Reloaded) :
           LoadsAfter(file', n, m) => LoadsAfter(Merged(masterlist, Reloaded), n, m)
  PROVE  Acyclic(Merged(file', user'))
<1> DEFINE G == Merged(masterlist, Reloaded)
           F == file'
           H == Merged(file', user')
           V == DOMAIN G \cup UNION {G[n] : n \in DOMAIN G}
           r(n) == FindOrKey(ToChange, n)
<1>1. /\ masterlist \in Masterlists \cup {NoGroups} /\ F \in Masterlists
      /\ IsMetadata(Reloaded) /\ SuffixedExist(Reloaded)
  BY DEF UpdateMasterlist, CycleInv, TypeOK, Reloaded
<1>2. /\ DOMAIN masterlist \subseteq Base /\ DOMAIN F \subseteq Base
      /\ \A n \in DOMAIN masterlist : masterlist[n] \subseteq DOMAIN masterlist
      /\ \A n \in DOMAIN F : F[n] \subseteq DOMAIN F
  BY <1>1, MasterlistFacts
<1>3. /\ DOMAIN Reloaded.groups \subseteq Names
      /\ \A n \in DOMAIN Reloaded.groups : Reloaded.groups[n] \subseteq Names
  BY <1>1, ReferencesAreNames DEF IsMetadata, IsGroups
<1>4. /\ DOMAIN G = DOMAIN masterlist \cup DOMAIN Reloaded.groups
      /\ G = [n \in DOMAIN G |-> G[n]]
      /\ \A x, y : y \in After(G, x) <=> y \in After(masterlist, x) \/ y \in After(Reloaded.groups, x)
  BY DEF Merged, After
<1>5. /\ DOMAIN H = DOMAIN F \cup DOMAIN user'.groups
      /\ \A k \in DOMAIN H : H[k] = After(F, k) \cup After(user'.groups, k)
  BY DEF Merged
<1>6. \A x, y : y \in After(G, x) => x \in V /\ y \in V
  BY DEF After
<1> HIDE DEF G, H
<1>7. IsGroups(G) /\ IsGroups(F)
  <2>1. \A n \in DOMAIN G : G[n] \subseteq Names
    BY <1>2, <1>3, <1>4 DEF After, Names
  <2>2. IsGroups(G)
    BY <1>2, <1>3, <1>4, <2>1 DEF IsGroups, Names
  <2>3. IsGroups(F)
    BY <1>1, <1>2, MasterlistsAssumption DEF IsGroups, Names
  <2>4. QED
    BY <2>2, <2>3
<1>8. ToChange \subseteq DOMAIN masterlist \ DOMAIN F
  BY RecoveredWereRemoved DEF ToChange, GetRemovedGroups
<1>9. V \subseteq DOMAIN G \cup References(Reloaded)
  BY <1>2, <1>4 DEF After, References
<1>10. V \cap RecoveredNames \subseteq DOMAIN G
  BY <1>1, <1>2, <1>4, NamesAssumption DEF After, SuffixedExist
<1>11. \A x, y \in V : r(x) = r(y) => x = y
  <2>1. \A x \in ToChange : /\ x \in Base /\ Recovered(x) \in RecoveredNames
                            /\ Recovered(x) \notin V
    BY <1>2, <1>8, <1>10 DEF G, RecoveredNames
  <2>2. QED
    BY <2>1, NamesAssumption DEF FindOrKey
<1>12. \A x \in V : r(x) \in DOMAIN F => r(x) = x
  BY <1>2, <1>8, NamesAssumption DEF FindOrKey, RecoveredNames
<1>13. \A x \in DOMAIN F : r(x) = x
  BY <1>8 DEF FindOrKey
<1>14. ASSUME NEW k \in DOMAIN H, NEW m \in H[k]
       PROVE  \/ m \in After(F, k)
              \/ \E x, y \in V : k = r(x) /\ m = r(y) /\ y \in After(G, x)
  <2>1. SUFFICES ASSUME m \in After(user'.groups, k)
                 PROVE  \E x, y \in V : k = r(x) /\ m = r(y) /\ y \in After(G, x)
    BY <1>5
  <2>2. k \in DOMAIN user'.groups /\ m \in user'.groups[k]
    BY <2>1 DEF After
  <2>3. \E x, y : /\ k = r(x) /\ m = r(y)
                  /\ y \in After(masterlist, x) \/ y \in After(Reloaded.groups, x)
    <3>1. CASE GetRemovedGroups(masterlist, file') = {}
      <4>1. user' = Reloaded /\ ToChange = {}
        BY <3>1, NothingRemoved
      <4>2. r(k) = k /\ r(m) = m
        BY <4>1 DEF FindOrKey
      <4>3. QED
        BY <2>1, <4>1, <4>2
    <3>2. CASE GetRemovedGroups(masterlist, file') # {}
      <4>1. user' = RecoverRemovedGroups(masterlist, file', Reloaded)
        BY <3>2 DEF UpdateMasterlist, Save
      <4>2. QED
        BY <2>2, <4>1, RecoveryAddsNoLoadAfter DEF ToChange
    <3>3. QED
      BY <3>1, <3>2
  <2>4. QED
    BY <1>4, <1>6, <2>3
<1>15. Acyclic(G) /\ Acyclic(F)
  BY DEF G
<1>16. \A n, m \in V : LoadsAfter(F, n, m) => LoadsAfter(G, n, m)
  BY <1>9 DEF G
<1> HIDE DEF F, V
<1>17. MadeOf(H, F, G, V, ToChange)
  BY <1>2, <1>7, <1>11, <1>12, <1>13, <1>14, <1>16 DEF MadeOf
<1>18. Acyclic(H)
  BY <1>15, <1>17, NoNewCycle
<1>19. QED
  BY <1>18 DEF H

\* Recovery renames groups, and orders none in a new way: a cycle through the
\* groups of the new masterlist and the recovered ones would be one of groups
\* that there were, each of which loads after the next.
THEOREM NoCycleIsIntroduced == Spec => NoCycleIntroduced
<1> DEFINE G == Merged(masterlist, Reloaded)
           Keeps == /\ Updates
                    /\ \A n \in ToChange : Recovered(n) \notin DOMAIN G
                    /\ Acyclic(G) /\ Acyclic(file')
                    /\ \A n, m \in DOMAIN G \cup References(Reloaded) :
                         LoadsAfter(file', n, m) => LoadsAfter(G, n, m)
                    => Acyclic(Merged(file', user'))
<1>1. CycleInv /\ [Next]_vars => Keeps
  BY OnlyUpdatesUpdate, NoCycleStep
<1>2. Init => CycleInv
  <2>1. SuffixedExist(NoMetadata)
    BY DEF SuffixedExist, NoMetadata, NoGroups
  <2>2. QED
    BY <2>1, NoMetadataIsMetadata DEF Init, TypeOK, CycleInv
<1>3. QED
  BY <1>1, <1>2, CycleInvStep, PTL DEF Spec, NoCycleIntroduced
=============================================================================
