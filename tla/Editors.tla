------------------------------ MODULE Editors ------------------------------
(***************************************************************************)
(* The two editors of a game's user metadata: the groups editor, a dialog   *)
(* that edits a graph of all groups and in which group each plugin is, and  *)
(* the metadata editor, a pane that edits one plugin's metadata             *)
(* (GroupsEditorDialog, GraphView, PluginEditorWidget and the handlers of   *)
(* MainWindow that open and save them).                                    *)
(*                                                                         *)
(* Only one of them can be open: the dialog is modal, and the pane disables *)
(* the action that opens the dialog.  The eight tables of the pane work     *)
(* alike, and are one table here.                                          *)
(***************************************************************************)
EXTENDS Naturals, FiniteSets, SequencesExt

CONSTANTS
  Masterlist,    \* the masterlist's groups: a function to those they load after
  Words,         \* the texts that names are made of
  NewNames,      \* names that the user types
  Plugins, Installed,
  NonUserGroups, \* the groups that the masterlist puts plugins in, or NoGroup
  NonUserRows,   \* the rows of a plugin's table that are not the user's
  RowValues, Blank,
  Userlists,     \* the user metadata at first
  NoGroup, NoWindow,
  Saves,         \* whether writing the userlist may succeed, and may fail
  MaxEdits       \* bound: edits and clearings, and openings of the pane

\* Names are sequences, for the text that the metadata editor appends to the
\* name of a group that does not exist.
Default == <<"default">>
Missing(name) == name \o <<"(Group does not exist)">>

\* What metadata lists hold.
IsName(n) == n \in Seq(Words)
IsGroups(gs) ==
  \A g \in gs :
    /\ g = [name |-> g.name, after |-> g.after]
    /\ IsName(g.name) /\ \A a \in g.after : IsName(a)
IsPlugins(ps) ==
  /\ DOMAIN ps = Plugins
  /\ \A p \in Plugins :
       /\ DOMAIN ps[p] = {"group", "rows"}
       /\ ps[p].group = NoGroup \/ IsName(ps[p].group)
       /\ ps[p].rows \in Seq(RowValues \cup {Blank})

ASSUME WordsAssumption == {"default", "(Group does not exist)"} \subseteq Words
ASSUME MasterlistAssumption ==
  /\ Default \in DOMAIN Masterlist
  /\ \A n \in DOMAIN Masterlist :
       /\ IsName(n) /\ IsFiniteSet(Masterlist[n])
       /\ \A m \in Masterlist[n] : IsName(m)
  /\ \A p \in Plugins : NonUserGroups[p] = NoGroup \/ IsName(NonUserGroups[p])
ASSUME UserAssumption ==
  /\ \A u \in Userlists : IsGroups(u.groups) /\ IsPlugins(u.plugins)
  /\ \A n \in NewNames : IsName(n)
ASSUME InstalledAssumption == Installed \subseteq Plugins /\ IsFiniteSet(Installed)
ASSUME EditsAssumption == MaxEdits \in Nat

VARIABLES
  groups,    \* the game's user groups: records of a name and those it loads after
  plugins,   \* the game's user metadata of plugins: a group and rows
  positions, \* the groups that have a position in the positions file
  items,     \* the plugin list: each installed plugin's group, or NoGroup
  window,    \* what is open: NoWindow, the groups editor's or the pane's state
  editing,   \* the main window's editing state, with its unapplied change
  edits      \* the number of edits so far, which MaxEdits bounds

vars == <<groups, plugins, positions, items, window, editing, edits>>

\* The plugin's group in all its metadata.
Effective(ps, p) == IF ps[p].group # NoGroup THEN ps[p].group ELSE NonUserGroups[p]
GroupIn(ps, p) == IF Effective(ps, p) = NoGroup THEN Default ELSE Effective(ps, p)
Refreshed(ps, of) == [p \in Installed |-> IF p \in of THEN Effective(ps, p) ELSE items[p]]

\* The library adds the default group to user groups that lack it.
WithDefault(gs) ==
  IF \E g \in gs : g.name = Default THEN gs ELSE gs \cup {[name |-> Default, after |-> {}]}

Init ==
  /\ \E userlist \in Userlists : groups = userlist.groups /\ plugins = userlist.plugins
  /\ positions = {}
  /\ items = [p \in Installed |-> Effective(plugins, p)]
  /\ window = NoWindow
  /\ editing = FALSE
  /\ edits = 0

-----------------------------------------------------------------------------
(* The groups editor.  Nodes keep the identity they were created with when  *)
(* they are renamed, and the editor does not keep names apart.              *)

InDialog == window # NoWindow /\ window.kind = "dialog"
nodes == window.nodes
edges == window.edges

Named(ns, name) == {i \in DOMAIN ns : ns[i].name = name}
NodeNames(ns) == {ns[i].name : i \in DOMAIN ns}

\* Of several nodes of one name the scene finds one.
Find(ns, name) == CHOOSE i \in Named(ns, name) : TRUE

Edge(s, d, u) == [src |-> s, dst |-> d, user |-> u]

\* Positions are only used if every group has one.
AllPositioned(names) == positions # {} /\ names \subseteq positions
SavedOrAuto(names) == IF AllPositioned(names) THEN "saved" ELSE "auto"

\* The groups that the plugin list shows.
InstalledGroups == {items[p] : p \in Installed} \ {NoGroup}
GroupNode(name, user) == [name |-> name, user |-> user, contains |-> name \in InstalledGroups]

\* Groups of one name share a node.  What groups load after may not exist: it
\* becomes a user group.
LoadAfter(gs) ==
  [n \in {g.name : g \in gs} |-> UNION {g.after : g \in {h \in gs : h.name = n}}]
References(f) == UNION {f[n] : n \in DOMAIN f}
GroupEdges(f, user) ==
  UNION {{Edge(<<m, 0>>, <<n, 0>>, user) : m \in f[n]} : n \in DOMAIN f}

Build(gs) ==
  LET after == LoadAfter(gs)
      names == DOMAIN Masterlist \cup DOMAIN after \cup References(Masterlist)
                 \cup References(after)
  IN [kind |-> "dialog",
      nodes |-> [i \in {<<n, 0>> : n \in names} |->
                   GroupNode(i[1], i[1] \notin DOMAIN Masterlist)],
      edges |-> GroupEdges(Masterlist, FALSE) \cup GroupEdges(after, TRUE),
      selected |-> NoGroup,
      moved |-> {},
      layout |-> SavedOrAuto(names),
      dragged |-> FALSE,
      clashed |-> FALSE]

\* The actions that open an editor are enabled.
CanOpen == window = NoWindow /\ ~editing

OpenGroups ==
  /\ CanOpen
  /\ window' = Build(groups)
  /\ UNCHANGED <<groups, plugins, positions, items, editing, edits>>

Show(w) == window' = w /\ UNCHANGED <<groups, plugins, positions, items, editing>>
Edit(w) == Show(w) /\ edits < MaxEdits /\ edits' = edits + 1

AddGroup(name) ==
  /\ InDialog
  /\ name \notin NodeNames(nodes)
  /\ LET id == <<name, IF <<name, 0>> \in DOMAIN nodes THEN 1 ELSE 0>>
     IN /\ id \notin DOMAIN nodes
        /\ Edit([window EXCEPT !.nodes = [i \in DOMAIN nodes \cup {id} |->
                   IF i = id THEN [name |-> name, user |-> TRUE, contains |-> FALSE]
                   ELSE nodes[i]]])

Selected(w, i) == [w EXCEPT !.selected = w.nodes[i].name]
Select(i) ==
  /\ InDialog
  /\ Show(Selected(window, i))
  /\ UNCHANGED edits

\* moved holds the plugins that are put in another group, with that group.
MovedTo(moved, p) == (CHOOSE m \in moved : m.plugin = p).group
PluginGroup(w, p) ==
  IF \E m \in w.moved : m.plugin = p THEN MovedTo(w.moved, p)
  ELSE IF items[p] = NoGroup THEN Default ELSE items[p]
Move(moved, ps, name) ==
  {m \in moved : m.plugin \notin ps} \cup {[plugin |-> p, group |-> name] : p \in ps}

Members(w, name) == {p \in Installed : PluginGroup(w, p) = name}

\* The plugins of the group follow it.
RenameGroup(name) ==
  /\ InDialog
  /\ window.selected \in NodeNames(nodes)
  /\ LET i == Find(nodes, window.selected)
     IN /\ nodes[i].user
        /\ Edit([window EXCEPT
                   !.nodes[i].name = name,
                   !.moved = Move(@, Members(window, window.selected), name),
                   !.selected = name,
                   !.clashed = @ \/ Named(nodes, name) \ {i} # {}])

\* The edges of a node go with it.
WithoutNode_Dangling(w, i) ==
  [w EXCEPT !.nodes = [j \in DOMAIN w.nodes \ {i} |-> w.nodes[j]]]
WithoutNode(w, i) ==
  [w EXCEPT !.nodes = [j \in DOMAIN w.nodes \ {i} |-> w.nodes[j]],
            !.edges = {e \in w.edges : e.src # i /\ e.dst # i}]

Deselected(w, name) == [w EXCEPT !.selected = IF @ = name THEN NoGroup ELSE @]

RemoveGroup(i) ==
  /\ InDialog
  /\ nodes[i].user /\ ~nodes[i].contains
  /\ Edit(Deselected(WithoutNode(window, i), nodes[i].name))

\* A node is pressed, which selects it, and a line dragged to another one.
\* (Drawing an edge again adds another one on top, which is left out.)
AddLoadAfter(i, j) ==
  /\ InDialog
  /\ i # j /\ Edge(i, j, TRUE) \notin edges
  /\ Edit([Selected(window, i) EXCEPT !.edges = @ \cup {Edge(i, j, TRUE)},
                                      !.dragged = TRUE])

RemoveLoadAfter(e) ==
  /\ InDialog
  /\ e.user
  /\ Edit([window EXCEPT !.edges = @ \ {e}])

Flagged(ns, name, yes) ==
  IF name \in NodeNames(ns) THEN [ns EXCEPT ![Find(ns, name)].contains = yes] ELSE ns

\* A plugin that is put back where it was saved is as if it was never moved.
Placed(moved, p, name) ==
  IF items[p] = name THEN {m \in moved : m.plugin # p} ELSE Move(moved, {p}, name)

\* The old group is left to the plugins that it contains besides this one.
AddPlugin_Leaving(w, p, name) ==
  [w EXCEPT !.nodes = Flagged(@, PluginGroup(w, p), FALSE), !.moved = Placed(@, p, name)]
AddPlugin(w, p, name) ==
  LET old == PluginGroup(w, p)
  IN [w EXCEPT !.nodes = Flagged(@, old, Cardinality(Members(w, old)) > 1),
               !.moved = Placed(@, p, name)]

WithPlugins(w, ps, name) ==
  FoldLeft(LAMBDA x, p : AddPlugin(x, p, name), w, SetToSeq(ps))

AddPlugins(ps) ==
  /\ InDialog
  /\ window.selected # NoGroup
  /\ Edit([WithPlugins(window, ps, window.selected) EXCEPT
             !.nodes = Flagged(@, window.selected, TRUE)])

\* Pressing the node selects it.
DragNode(i) ==
  /\ InDialog
  /\ Edit([Selected(window, i) EXCEPT !.layout = "own", !.dragged = TRUE])

Arranged(w) == [w EXCEPT !.layout = "auto", !.dragged = FALSE]
AutoArrange == InDialog /\ Edit(Arranged(window))

\* GraphView::getUserGroups: user groups, and those of the masterlist that the
\* user has made load after others.
InEdges(w, i) == {e \in w.edges : e.dst = i /\ e.src # i}
AfterNode_Own(w, i) == {w.nodes[e.src].name : e \in {d \in InEdges(w, i) : w.nodes[i].user}}
AfterNode(w, i) ==
  {w.nodes[e.src].name : e \in {d \in InEdges(w, i) : w.nodes[i].user \/ d.user}}
UserGroups(w) ==
  {[name |-> w.nodes[i].name, after |-> AfterNode(w, i)] :
     i \in {j \in DOMAIN w.nodes : w.nodes[j].user \/ AfterNode(w, j) # {}}}

\* groupsAsMap keeps one of several groups of one name.
AsMap(gs) ==
  [n \in {g.name : g \in gs} |-> (CHOOSE g \in gs : g.name = n).after]

GroupsChanged(w) == AsMap(groups) # AsMap(WithDefault(UserGroups(w)))
HasUnsavedChanges_Groups(w) == GroupsChanged(w)
HasUnsavedChanges(w) ==
  \/ w.moved # {}
  \/ GroupsChanged(w)
  \/ IF positions = {} THEN w.dragged
     ELSE w.layout # "saved" \/ NodeNames(w.nodes) # positions

\* Saving, or else the user agrees to discard changes, if there are any.  The
\* userlist is written after the plugin list is refreshed, and before the
\* positions are.
WithGroup(ps, moved) ==
  [p \in Plugins |-> IF \E m \in moved : m.plugin = p
                     THEN [ps[p] EXCEPT !.group = MovedTo(moved, p)] ELSE ps[p]]
SavePositions(ok) == positions' = IF ok THEN NodeNames(nodes) ELSE positions

SaveGroups ==
  /\ InDialog
  /\ window' = NoWindow
  /\ groups' = WithDefault(UserGroups(window))
  /\ plugins' = WithGroup(plugins, window.moved)
  /\ items' = Refreshed(plugins', {m.plugin : m \in window.moved})
  /\ \E ok \in Saves : SavePositions(ok)
  /\ UNCHANGED <<editing, edits>>

CloseGroups == InDialog /\ Show(NoWindow) /\ UNCHANGED edits

-----------------------------------------------------------------------------
(* The metadata editor.                                                    *)

GroupNames == DOMAIN Masterlist \cup {g.name : g \in groups}
NoUserMetadata == [group |-> NoGroup, rows |-> <<>>]
NonUserGroup(p) == IF NonUserGroups[p] = NoGroup THEN Default ELSE NonUserGroups[p]

InPane == window # NoWindow /\ window.kind = "pane"

\* A group that does not exist is an entry of its own, with text appended to
\* its name.
GroupText(p) ==
  LET current == IF plugins[p].group # NoGroup THEN plugins[p].group ELSE NonUserGroup(p)
  IN IF current \in GroupNames THEN current ELSE Missing(current)

Pane(p) ==
  [kind |-> "pane", plugin |-> p, listed |-> GroupNames \cup {GroupText(p)},
   text |-> GroupText(p), rows |-> plugins[p].rows, edited |-> FALSE]

OpenPane(p) ==
  /\ CanOpen
  /\ edits < MaxEdits /\ edits' = edits + 1
  /\ window' = Pane(p)
  /\ editing' = TRUE
  /\ UNCHANGED <<groups, plugins, positions, items>>

ChooseGroup(text) ==
  /\ InPane
  /\ text \in window.listed
  /\ Edit([window EXCEPT !.text = text, !.edited = TRUE])

\* Rows are numbered across the table; those that are not the user's come
\* first, and are neither edited nor deleted.
SetRows(rows) == Edit([window EXCEPT !.rows = rows, !.edited = TRUE])
UserRow(row) == row - Len(NonUserRows)

InsertRow ==
  /\ InPane
  /\ SetRows(Append(window.rows, Blank))
DropPlugin(value) ==
  /\ InPane
  /\ SetRows(Append(window.rows, value))
EditRow(row, value) ==
  /\ InPane /\ UserRow(row) \in DOMAIN window.rows
  /\ SetRows([window.rows EXCEPT ![UserRow(row)] = value])
RemoveRow(row) ==
  /\ InPane /\ UserRow(row) \in DOMAIN window.rows
  /\ SetRows(RemoveAt(window.rows, UserRow(row)))

\* GroupTab::getUserMetadata: the group that the plugin has anyway is no user
\* metadata.
PaneGroup_Default(w) == IF w.text = Default THEN NoGroup ELSE w.text
PaneGroup(w) == IF w.text = NonUserGroup(w.plugin) THEN NoGroup ELSE w.text

PaneMetadata(w) == [group |-> PaneGroup(w), rows |-> w.rows]

\* The pane is closed first; if the userlist cannot be written, the main
\* window stays in its editing state, and the plugin's item as it was.
SavePane ==
  /\ InPane
  /\ window' = NoWindow
  /\ plugins' = [plugins EXCEPT ![window.plugin] = PaneMetadata(window)]
  /\ \E ok \in Saves :
       /\ items' = IF ok THEN Refreshed(plugins', {window.plugin}) ELSE items
       /\ editing' = ~ok
  /\ UNCHANGED <<groups, positions, edits>>

CancelPane ==
  /\ InPane
  /\ window' = NoWindow
  /\ editing' = FALSE
  /\ UNCHANGED <<groups, plugins, positions, items, edits>>

\* ClearPluginMetadataQuery returns no item if the userlist cannot be written.
Cleared(p, ok) ==
  /\ plugins' = [plugins EXCEPT ![p] = NoUserMetadata]
  /\ items' = IF ok THEN Refreshed(plugins', {p}) ELSE items

ClearPlugin(p) ==
  /\ CanOpen
  /\ edits < MaxEdits /\ edits' = edits + 1
  /\ \E ok \in Saves : Cleared(p, ok)
  /\ UNCHANGED <<groups, positions, window, editing>>

Next ==
  \/ OpenGroups
  \/ \E name \in NewNames : AddGroup(name) \/ RenameGroup(name)
  \/ InDialog /\ \E i \in DOMAIN nodes : Select(i) \/ RemoveGroup(i) \/ DragNode(i)
  \/ InDialog /\ \E i, j \in DOMAIN nodes : AddLoadAfter(i, j)
  \/ InDialog /\ \E e \in edges : RemoveLoadAfter(e)
  \/ \E ps \in (SUBSET Installed) \ {{}} : AddPlugins(ps)
  \/ AutoArrange
  \/ SaveGroups \/ CloseGroups
  \/ \E p \in Installed : OpenPane(p) \/ ClearPlugin(p)
  \/ InPane /\ \E text \in window.listed : ChooseGroup(text)
  \/ InsertRow \/ \E v \in RowValues : DropPlugin(v)
  \/ \E row \in 1 .. Len(NonUserRows) + MaxEdits :
       RemoveRow(row) \/ \E v \in RowValues : EditRow(row, v)
  \/ SavePane \/ CancelPane

Spec == Init /\ [][Next]_vars

-----------------------------------------------------------------------------
(* Properties.                                                             *)

\* The state has its types, edges have their nodes, and the pane is open only
\* in the editing state.
TypeOK ==
  /\ IsGroups(groups)
  /\ IsPlugins(plugins)
  /\ \A n \in positions : IsName(n)
  /\ \A p \in Installed : items[p] = NoGroup \/ IsName(items[p])
  /\ InDialog => \A e \in edges : {e.src, e.dst} \subseteq DOMAIN nodes
  /\ editing \in BOOLEAN /\ edits \in 0 .. MaxEdits
  /\ InPane => editing

\* groups_editor.rst: "A group cannot be removed if any installed plugins belong
\* to it."  Nodes remember whether plugins belong to their group, and the flag
\* is right after every sequence of moves, renames and removals; unless two
\* groups have had one name, or plugins already belonged to a group that there
\* was no node for when the editor was opened.
AllBelong == InstalledGroups \subseteq NodeNames(Build(groups).nodes)
RemovalRule ==
  InDialog /\ ~window.clashed /\ AllBelong =>
    \A i \in DOMAIN nodes :
      nodes[i].user => (nodes[i].contains <=> Members(window, nodes[i].name) # {})

\* The groups editor can only be closed without a question when saving it would
\* change nothing that the user has done: no group, no load-after, no plugin's
\* group, and no position that was dragged; as long as names have been distinct.
Distinct(gs) ==
  \A g \in gs : g.name \notin g.after /\ \A h \in gs : h.name = g.name => h = g
UnsavedChangesNoticed ==
  InDialog /\ Distinct(groups) /\ ~window.clashed /\ ~HasUnsavedChanges(window) =>
    /\ WithDefault(UserGroups(window)) = groups
    /\ window.moved = {}
    /\ window.layout # "own"

\* What is saved is what the editor shows: opening it again builds the same
\* graph, of which the masterlist's part is made of the masterlist again; as
\* long as the names are distinct, and no group that the masterlist refers to
\* without defining it has been renamed or removed.
Shown(w) ==
  [nodes |-> {[name |-> w.nodes[i].name, user |-> w.nodes[i].user] : i \in DOMAIN w.nodes},
   edges |-> {Edge(w.nodes[e.src].name, w.nodes[e.dst].name, e.user) : e \in w.edges}]
MasterlistShown(w) ==
  \A n \in DOMAIN Masterlist, m \in UNION {Masterlist[k] : k \in DOMAIN Masterlist} :
    m \in Masterlist[n] => Edge(m, n, FALSE) \in Shown(w).edges
NoLoops(w) == \A e \in w.edges : e.src # e.dst
SavedGraphIsReopened ==
  [][InDialog /\ groups' # groups /\ ~window.clashed /\ NoLoops(window)
       /\ MasterlistShown(window) => Shown(Build(groups')) = Shown(window)]_vars

\* Opening the metadata editor and saving at once keeps the plugin's group and
\* rows, if the group exists.
SavePaneKeeps ==
  [][InPane /\ ~window.edited /\ plugins' # plugins =>
       LET p == window.plugin
       IN /\ plugins'[p].rows = plugins[p].rows
          /\ GroupIn(plugins, p) \in GroupNames => GroupIn(plugins', p) = GroupIn(plugins, p)
          /\ \A q \in Plugins \ {p} : plugins'[q] = plugins[q]]_vars
=============================================================================
