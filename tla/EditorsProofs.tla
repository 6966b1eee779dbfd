---------------------------- MODULE EditorsProofs ----------------------------
(***************************************************************************)
(* Theorems about the groups editor and the metadata editor, for any         *)
(* masterlist, userlists, plugins and names, and any number of edits.        *)
(***************************************************************************)
EXTENDS Editors, FiniteSetTheorems, SequenceTheorems, TLAPS

-----------------------------------------------------------------------------
(* What the editors' states are like.                                       *)

DistinctNodes(ns) == \A i, j \in DOMAIN ns : ns[i].name = ns[j].name => i = j

IsNodes(ns) ==
  \A i \in DOMAIN ns :
    /\ DOMAIN ns[i] = {"name", "user", "contains"}
    /\ IsName(ns[i].name)
IsMoved(moved) ==
  /\ \A m \in moved : /\ m = [plugin |-> m.plugin, group |-> m.group]
                      /\ m.plugin \in Installed /\ IsName(m.group)
  /\ \A m, n \in moved : m.plugin = n.plugin => m = n

\* A plugin is moved once, the selected group has a node, and nodes lie where the
\* user has put them only after one was dragged.  Names stay distinct until some
\* group is given the name of another one.
IsDialog(w) ==
  /\ DOMAIN w = {"kind", "nodes", "edges", "selected", "moved", "layout", "dragged",
                 "clashed"}
  /\ w.kind = "dialog"
  /\ IsNodes(w.nodes)
  /\ \A e \in w.edges : {e.src, e.dst} \subseteq DOMAIN w.nodes
  /\ IsMoved(w.moved)
  /\ w.selected = NoGroup \/ w.selected \in NodeNames(w.nodes)
  /\ w.layout = "own" => w.dragged
  /\ ~w.clashed => DistinctNodes(w.nodes)

\* A pane without edits holds what was there when it was opened.
IsPane(w) ==
  /\ DOMAIN w = {"kind", "plugin", "listed", "text", "rows", "edited"}
  /\ w.kind = "pane"
  /\ w.plugin \in Installed
  /\ IsName(w.text) /\ \A t \in w.listed : IsName(t)
  /\ w.rows \in Seq(RowValues \cup {Blank})
  /\ ~w.edited => w.text = GroupText(w.plugin) /\ w.rows = plugins[w.plugin].rows

WindowOK == window = NoWindow \/ IsDialog(window) \/ (IsPane(window) /\ editing)

TypeInv == TypeOK /\ WindowOK

LEMMA DialogIsDialog ==
  ASSUME WindowOK, InDialog
  PROVE  IsDialog(window)
BY DEF WindowOK, InDialog, IsPane

LEMMA PaneIsPane ==
  ASSUME WindowOK, InPane
  PROVE  IsPane(window) /\ editing
BY DEF WindowOK, InPane, IsDialog

LEMMA OneWordIsName ==
  ASSUME NEW word \in Words
  PROVE  IsName(<<word>>)
BY DEF IsName

LEMMA DefaultIsName == IsName(Default)
<1>1. "default" \in Words
  BY WordsAssumption
<1>2. QED
  BY <1>1, OneWordIsName DEF Default

LEMMA ConcatIsName ==
  ASSUME NEW n, NEW m, IsName(n), IsName(m)
  PROVE  IsName(n \o m)
BY DEF IsName

LEMMA MissingIsName ==
  ASSUME NEW n, IsName(n)
  PROVE  IsName(Missing(n))
<1>1. "(Group does not exist)" \in Words
  BY WordsAssumption
<1>2. IsName(<<"(Group does not exist)">>)
  BY <1>1, OneWordIsName
<1>3. QED
  BY <1>2, ConcatIsName DEF Missing

-----------------------------------------------------------------------------
(* Metadata.                                                                *)

LEMMA EffectiveIsName ==
  ASSUME NEW ps, IsPlugins(ps), NEW p \in Plugins
  PROVE  Effective(ps, p) = NoGroup \/ IsName(Effective(ps, p))
BY MasterlistAssumption DEF Effective, IsPlugins

LEMMA WithDefaultIsGroups ==
  ASSUME NEW gs, IsGroups(gs)
  PROVE  IsGroups(WithDefault(gs))
BY DefaultIsName DEF IsGroups, WithDefault

LEMMA RefreshedItems ==
  ASSUME NEW ps, IsPlugins(ps), NEW of,
         \A p \in Installed : items[p] = NoGroup \/ IsName(items[p])
  PROVE  \A p \in Installed : \/ Refreshed(ps, of)[p] = NoGroup
                              \/ IsName(Refreshed(ps, of)[p])
BY EffectiveIsName, InstalledAssumption DEF Refreshed

\* The groups that the user may edit are made of nodes and edges.
LEMMA UserGroupsIsGroups ==
  ASSUME NEW w, IsDialog(w)
  PROVE  IsGroups(UserGroups(w))
<1>1. \A i : \A a \in AfterNode(w, i) : IsName(a)
  BY DEF AfterNode, InEdges, IsDialog, IsNodes
<1>2. \A i \in DOMAIN w.nodes : IsName(w.nodes[i].name)
  BY DEF IsDialog, IsNodes
<1>3. QED
  BY <1>1, <1>2 DEF UserGroups, IsGroups

LEMMA MovedToIsIn ==
  ASSUME NEW moved, NEW m \in moved, IsMoved(moved)
  PROVE  MovedTo(moved, m.plugin) = m.group
<1> DEFINE n == CHOOSE n \in moved : n.plugin = m.plugin
<1>1. n \in moved /\ n.plugin = m.plugin
  OBVIOUS
<1>2. n = m
  BY <1>1 DEF IsMoved
<1>3. QED
  BY <1>2 DEF MovedTo

LEMMA WithGroupIsPlugins ==
  ASSUME NEW ps, NEW moved, IsPlugins(ps), IsMoved(moved)
  PROVE  IsPlugins(WithGroup(ps, moved))
<1> DEFINE qs == WithGroup(ps, moved)
<1>1. ASSUME NEW p \in Plugins, ~\E m \in moved : m.plugin = p
      PROVE  qs[p] = ps[p]
  BY <1>1 DEF WithGroup
<1>2. ASSUME NEW p \in Plugins, NEW m \in moved, m.plugin = p
      PROVE  qs[p] = [ps[p] EXCEPT !.group = m.group] /\ IsName(m.group)
  BY <1>2, MovedToIsIn DEF WithGroup, IsMoved
<1>3. DOMAIN qs = Plugins
  BY DEF WithGroup
<1> HIDE DEF qs
<1>4. IsPlugins(qs)
  BY <1>1, <1>2, <1>3 DEF IsPlugins
<1>5. QED
  BY <1>4 DEF qs

-----------------------------------------------------------------------------
(* Steps of the groups editor.                                              *)

LEMMA BuildIsDialog ==
  ASSUME NEW gs, IsGroups(gs)
  PROVE  IsDialog(Build(gs))
<1> DEFINE after == LoadAfter(gs)
           names == DOMAIN Masterlist \cup DOMAIN after \cup References(Masterlist)
                      \cup References(after)
           w == Build(gs)
<1>1. \A n \in names : IsName(n)
  <2>1. \A n \in DOMAIN after : IsName(n) /\ \A m \in after[n] : IsName(m)
    BY DEF LoadAfter, IsGroups
  <2>2. QED
    BY <2>1, MasterlistAssumption DEF References
<1>2. \A e \in w.edges : {e.src, e.dst} \subseteq {<<n, 0>> : n \in names}
  <2>1. ASSUME NEW user,
               NEW e \in GroupEdges(Masterlist, user) \cup GroupEdges(after, user)
        PROVE  {e.src, e.dst} \subseteq {<<n, 0>> : n \in names}
    BY DEF GroupEdges, Edge, References
  <2>2. w.edges = GroupEdges(Masterlist, FALSE) \cup GroupEdges(after, TRUE)
    BY DEF Build
  <2>3. QED
    BY <2>1, <2>2
<1>3. /\ DOMAIN w.nodes = {<<n, 0>> : n \in names}
      /\ \A n \in names : w.nodes[<<n, 0>>] = GroupNode(n, n \notin DOMAIN Masterlist)
  BY DEF Build
<1>4. /\ DOMAIN w = {"kind", "nodes", "edges", "selected", "moved", "layout", "dragged",
                     "clashed"}
      /\ w.kind = "dialog" /\ w.selected = NoGroup /\ w.moved = {} /\ w.layout # "own"
  BY DEF Build, SavedOrAuto
<1> HIDE DEF names, w
<1>5. \A i \in DOMAIN w.nodes : \E n \in names :
        /\ i = <<n, 0>> /\ w.nodes[i].name = n
        /\ DOMAIN w.nodes[i] = {"name", "user", "contains"}
  <2>1. \A n, user : /\ GroupNode(n, user).name = n
                     /\ DOMAIN GroupNode(n, user) = {"name", "user", "contains"}
    BY DEF GroupNode
  <2>2. QED
    BY <1>3, <2>1
<1>6. IsNodes(w.nodes) /\ DistinctNodes(w.nodes)
  BY <1>1, <1>5 DEF IsNodes, DistinctNodes
<1>7. QED
  BY <1>2, <1>3, <1>4, <1>6 DEF IsDialog, IsMoved, w

LEMMA MoveIsMoved ==
  ASSUME NEW moved, IsMoved(moved), NEW ps \in SUBSET Installed, NEW name, IsName(name)
  PROVE  IsMoved(Move(moved, ps, name))
BY DEF IsMoved, Move

LEMMA PlacedIsMoved ==
  ASSUME NEW moved, IsMoved(moved), NEW p \in Installed, NEW name, IsName(name)
  PROVE  IsMoved(Placed(moved, p, name))
<1>1. IsMoved({m \in moved : m.plugin # p})
  BY DEF IsMoved
<1>2. QED
  BY <1>1, MoveIsMoved DEF Placed

LEMMA FindFinds ==
  ASSUME NEW ns, NEW name \in NodeNames(ns)
  PROVE  Find(ns, name) \in DOMAIN ns /\ ns[Find(ns, name)].name = name
<1>1. Named(ns, name) # {}
  BY DEF Named, NodeNames
<1>2. Find(ns, name) \in Named(ns, name)
  BY <1>1 DEF Find
<1>3. QED
  BY <1>2 DEF Named

\* Setting a node's flag keeps all nodes and their names.
LEMMA FlaggedNodes ==
  ASSUME NEW ns, IsNodes(ns), NEW name, NEW yes
  PROVE  LET fs == Flagged(ns, name, yes)
         IN /\ IsNodes(fs) /\ DOMAIN fs = DOMAIN ns
            /\ \A i \in DOMAIN ns :
                 /\ fs[i].name = ns[i].name /\ fs[i].user = ns[i].user
                 /\ fs[i].contains = IF name \in NodeNames(ns) /\ i = Find(ns, name)
                                     THEN yes ELSE ns[i].contains
            /\ NodeNames(fs) = NodeNames(ns)
<1> DEFINE fs == Flagged(ns, name, yes)
<1>1. /\ DOMAIN fs = DOMAIN ns
      /\ \A i \in DOMAIN ns :
           /\ DOMAIN fs[i] = DOMAIN ns[i]
           /\ fs[i].name = ns[i].name /\ fs[i].user = ns[i].user
           /\ fs[i].contains = IF name \in NodeNames(ns) /\ i = Find(ns, name)
                               THEN yes ELSE ns[i].contains
  <2>1. CASE name \in NodeNames(ns)
    <3>1. fs = [ns EXCEPT ![Find(ns, name)].contains = yes]
      BY <2>1 DEF Flagged
    <3>2. Find(ns, name) \in DOMAIN ns
      BY <2>1, FindFinds
    <3> HIDE DEF fs
    <3>3. QED
      BY <2>1, <3>1, <3>2 DEF IsNodes
  <2>2. CASE name \notin NodeNames(ns)
    BY <2>2 DEF Flagged
  <2>3. QED
    BY <2>1, <2>2
<1> HIDE DEF fs
<1>2. IsNodes(fs)
  BY <1>1 DEF IsNodes
<1>3. NodeNames(fs) = NodeNames(ns)
  BY <1>1 DEF NodeNames
<1>4. QED
  BY <1>1, <1>2, <1>3 DEF fs

LEMMA SelectedIsDialog ==
  ASSUME NEW w, IsDialog(w), NEW i \in DOMAIN w.nodes
  PROVE  IsDialog(Selected(w, i))
BY DEF IsDialog, Selected, NodeNames

LEMMA PluginGroupIsName ==
  ASSUME TypeOK, NEW w, IsDialog(w), NEW p \in Installed
  PROVE  IsName(PluginGroup(w, p))
<1>1. CASE \E m \in w.moved : m.plugin = p
  <2>1. PICK m \in w.moved : m.plugin = p
    BY <1>1
  <2>2. PluginGroup(w, p) = m.group
    BY <1>1, <2>1, MovedToIsIn DEF PluginGroup, IsDialog
  <2>3. QED
    BY <2>1, <2>2 DEF IsDialog, IsMoved
<1>2. CASE ~\E m \in w.moved : m.plugin = p
  BY <1>2, DefaultIsName DEF PluginGroup, TypeOK
<1>3. QED
  BY <1>1, <1>2

\* Nodes whose flags are other ones, and plugins that are moved.
LEMMA FlagsAndMovesIsDialog ==
  ASSUME NEW w, IsDialog(w), NEW group, NEW yes, NEW moved, IsMoved(moved)
  PROVE  /\ IsDialog([w EXCEPT !.nodes = Flagged(@, group, yes), !.moved = moved])
         /\ IsDialog([w EXCEPT !.nodes = Flagged(@, group, yes)])
<1> DEFINE ns == Flagged(w.nodes, group, yes)
<1>1. /\ IsNodes(ns) /\ DOMAIN ns = DOMAIN w.nodes
      /\ NodeNames(ns) = NodeNames(w.nodes)
      /\ \A i \in DOMAIN w.nodes : ns[i].name = w.nodes[i].name
  BY FlaggedNodes DEF IsDialog
<1> HIDE DEF ns
<1>2. DistinctNodes(w.nodes) => DistinctNodes(ns)
  BY <1>1 DEF DistinctNodes
<1>3. /\ IsDialog([w EXCEPT !.nodes = ns, !.moved = moved])
      /\ IsDialog([w EXCEPT !.nodes = ns])
  BY <1>1, <1>2 DEF IsDialog
<1>4. QED
  BY <1>3 DEF ns

\* The graph of v is that of w, but for what its nodes contain.
SameGraph(v, w) ==
  /\ v.edges = w.edges /\ v.clashed = w.clashed
  /\ DOMAIN v.nodes = DOMAIN w.nodes
  /\ \A i \in DOMAIN w.nodes :
       v.nodes[i].name = w.nodes[i].name /\ v.nodes[i].user = w.nodes[i].user

LEMMA AddPluginIsDialog ==
  ASSUME NEW w, IsDialog(w), NEW p \in Installed, NEW name, IsName(name)
  PROVE  IsDialog(AddPlugin(w, p, name)) /\ SameGraph(AddPlugin(w, p, name), w)
<1> DEFINE group == PluginGroup(w, p)
           yes == Cardinality(Members(w, group)) > 1
           moved == Placed(w.moved, p, name)
<1>1. IsMoved(moved)
  BY PlacedIsMoved DEF IsDialog
<1>2. AddPlugin(w, p, name) = [w EXCEPT !.nodes = Flagged(@, group, yes), !.moved = moved]
  BY DEF AddPlugin, IsDialog
<1> HIDE DEF group, yes, moved
<1>3. IsDialog([w EXCEPT !.nodes = Flagged(@, group, yes), !.moved = moved])
  BY <1>1, FlagsAndMovesIsDialog, Zenon
<1>4. SameGraph([w EXCEPT !.nodes = Flagged(@, group, yes), !.moved = moved], w)
  BY FlaggedNodes DEF SameGraph, IsDialog
<1>5. QED
  BY <1>2, <1>3, <1>4, Zenon

\* Plugins that are added in turn: what holds of the editor before each is what
\* holds after it.
LEMMA SetToSeqLists ==
  ASSUME NEW S, IsFiniteSet(S)
  PROVE  /\ Cardinality(S) \in Nat
         /\ SetToSeq(S) \in [1 .. Cardinality(S) -> S]
<1>1. Cardinality(S) \in Nat /\ ExistsBijection(1 .. Cardinality(S), S)
  BY FS_CardinalityType
<1>2. \E f \in [1 .. Cardinality(S) -> S] : IsInjective(f)
  BY <1>1, Zenon DEF ExistsBijection, Bijection, Injection
<1>3. QED
  BY <1>1, <1>2 DEF SetToSeq

AddStep(c, w, p) == AddPlugin(w, p, c.name)
AddStepKeeps(c, k, w) == IsDialog(w) /\ SameGraph(w, c.before)

AddFold == INSTANCE FoldLemmas WITH Op <- AddStep, P <- AddStepKeeps

LEMMA AddPluginsFolds ==
  ASSUME NEW c, NEW w, NEW ps
  PROVE  WithPlugins(w, ps, c.name) = AddFold!Fold(c, w, SetToSeq(ps))
BY Zenon DEF WithPlugins, FoldLeft, MapThenFoldSet, Max, AddStep, AddFold!Fold, AddFold!FoldLeft,
   AddFold!MapThenFoldSet, AddFold!Max

LEMMA AddPluginsIsDialog ==
  ASSUME NEW w, IsDialog(w), NEW name, IsName(name), NEW ps \in SUBSET Installed
  PROVE  IsDialog(WithPlugins(w, ps, name)) /\ SameGraph(WithPlugins(w, ps, name), w)
<1> DEFINE c == [name |-> name, before |-> w]
           seq == SetToSeq(ps)
           n == Cardinality(ps)
<1>1. n \in Nat /\ seq \in [1 .. n -> ps]
  BY InstalledAssumption, FS_Subset, SetToSeqLists
<1>2. c.name = name /\ c.before = w
  OBVIOUS
<1>3. WithPlugins(w, ps, c.name) = AddFold!Fold(c, w, seq)
  BY AddPluginsFolds
<1> HIDE DEF c, seq, n
<1>4. AddStepKeeps(c, 0, w)
  BY <1>2 DEF AddStepKeeps, SameGraph
<1>5. ASSUME NEW k \in 0 .. n - 1, NEW x, AddStepKeeps(c, k, x)
      PROVE  AddStepKeeps(c, k + 1, AddStep(c, x, seq[k + 1]))
  <2>1. seq[k + 1] \in Installed
    BY <1>1
  <2>2. QED
    BY <1>2, <1>5, <2>1, AddPluginIsDialog DEF AddStepKeeps, AddStep, SameGraph
<1>6. AddStepKeeps(c, n, AddFold!Fold(c, w, seq))
  BY <1>1, <1>4, <1>5, AddFold!FoldInduction
<1>7. QED
  BY <1>2, <1>3, <1>6 DEF AddStepKeeps

\* What the groups editor does to its own state.
LEMMA DialogSteps ==
  ASSUME TypeInv, InDialog
  PROVE  /\ \A name \in NewNames : AddGroup(name) \/ RenameGroup(name) => IsDialog(window')
         /\ \A i \in DOMAIN nodes : Select(i) \/ RemoveGroup(i) \/ DragNode(i)
                                      => IsDialog(window')
         /\ \A i, j \in DOMAIN nodes : AddLoadAfter(i, j) => IsDialog(window')
         /\ \A e \in edges : RemoveLoadAfter(e) => IsDialog(window')
         /\ \A ps \in SUBSET Installed : AddPlugins(ps) => IsDialog(window')
         /\ AutoArrange => IsDialog(window')
<1>a. IsDialog(window)
  BY DialogIsDialog DEF TypeInv
<1>1. ASSUME NEW name \in NewNames, AddGroup(name)
      PROVE  IsDialog(window')
  <2> DEFINE id == <<name, IF <<name, 0>> \in DOMAIN nodes THEN 1 ELSE 0>>
             node == [name |-> name, user |-> TRUE, contains |-> FALSE]
             ns == [i \in DOMAIN nodes \cup {id} |-> IF i = id THEN node ELSE nodes[i]]
  <2>1. window' = [window EXCEPT !.nodes = ns] /\ id \notin DOMAIN nodes
        /\ name \notin NodeNames(nodes)
    BY <1>1 DEF AddGroup, Edit, Show
  <2>2. /\ DOMAIN node = {"name", "user", "contains"} /\ node.name = name
        /\ IsName(name)
    BY UserAssumption
  <2> HIDE DEF id, node
  <2>3. IsNodes(ns) /\ NodeNames(nodes) \subseteq NodeNames(ns)
    BY <1>a, <2>1, <2>2 DEF IsDialog, IsNodes, NodeNames, nodes
  <2>4. DistinctNodes(nodes) => DistinctNodes(ns)
    BY <2>1, <2>2 DEF DistinctNodes, NodeNames
  <2>5. DOMAIN nodes \subseteq DOMAIN ns
    OBVIOUS
  <2> HIDE DEF ns
  <2>6. QED
    BY <1>a, <2>1, <2>3, <2>4, <2>5 DEF IsDialog, nodes
<1>2. ASSUME NEW name \in NewNames, RenameGroup(name)
      PROVE  IsDialog(window')
  <2> DEFINE i == Find(nodes, window.selected)
             ns == [nodes EXCEPT ![i].name = name]
             moved == Move(window.moved, Members(window, window.selected), name)
             clashed == window.clashed \/ Named(nodes, name) \ {i} # {}
  <2>1. window' = [window EXCEPT !.nodes[i].name = name, !.moved = moved,
                                 !.selected = name, !.clashed = clashed]
        /\ window.selected \in NodeNames(nodes)
    BY <1>2, Zenon DEF RenameGroup, Edit, Show
  <2>2. i \in DOMAIN nodes
    BY <2>1, FindFinds
  <2>3. IsMoved(moved)
    BY <1>a, UserAssumption, MoveIsMoved DEF IsDialog, Members
  <2>4. ~(Named(nodes, name) \ {i} # {}) => \A j \in DOMAIN nodes : nodes[j].name = name => j = i
    BY DEF Named
  <2> HIDE DEF i, moved
  <2>5. /\ IsNodes(ns) /\ DOMAIN ns = DOMAIN nodes /\ ns[i].name = name
        /\ \A j \in DOMAIN nodes : j # i => ns[j].name = nodes[j].name
    BY <1>a, <2>2, UserAssumption DEF IsDialog, IsNodes, nodes
  <2>6. name \in NodeNames(ns)
    BY <2>2, <2>5 DEF NodeNames
  <2>7. ~clashed => DistinctNodes(ns)
    BY <1>a, <2>4, <2>5 DEF IsDialog, DistinctNodes, nodes
  <2>8. /\ DOMAIN window' = DOMAIN window /\ window'.nodes = ns
        /\ window'.moved = moved /\ window'.selected = name /\ window'.clashed = clashed
        /\ window'.kind = window.kind /\ window'.edges = window.edges
        /\ window'.layout = window.layout /\ window'.dragged = window.dragged
    BY <1>a, <2>1 DEF IsDialog, nodes
  <2> HIDE DEF ns, clashed
  <2>9. QED
    BY <1>a, <2>3, <2>5, <2>6, <2>7, <2>8 DEF IsDialog, nodes
<1>3. ASSUME NEW i \in DOMAIN nodes, Select(i) \/ DragNode(i)
      PROVE  IsDialog(window')
  <2> DEFINE w == Selected(window, i)
  <2>1. IsDialog(w)
    BY <1>a, SelectedIsDialog DEF nodes
  <2>2. window' = w \/ window' = [w EXCEPT !.layout = "own", !.dragged = TRUE]
    BY <1>3, Zenon DEF Select, DragNode, Edit, Show
  <2> HIDE DEF w
  <2>3. IsDialog([w EXCEPT !.layout = "own", !.dragged = TRUE])
    BY <2>1 DEF IsDialog
  <2>4. QED
    BY <2>1, <2>2, <2>3, Zenon
<1>4. ASSUME NEW i \in DOMAIN nodes, RemoveGroup(i)
      PROVE  IsDialog(window')
  <2> DEFINE w == WithoutNode(window, i)
  <2>1. /\ DOMAIN w = DOMAIN window /\ w.kind = window.kind /\ w.moved = window.moved
        /\ w.selected = window.selected /\ w.clashed = window.clashed
        /\ w.layout = window.layout /\ w.dragged = window.dragged
        /\ w.nodes = [j \in DOMAIN nodes \ {i} |-> nodes[j]]
        /\ w.edges = {e \in edges : e.src # i /\ e.dst # i}
    BY <1>a DEF WithoutNode, IsDialog, nodes, edges
  <2>2. window' = [w EXCEPT !.selected = IF @ = nodes[i].name THEN NoGroup ELSE @]
    BY <1>4 DEF RemoveGroup, Edit, Show, Deselected
  <2> HIDE DEF w
  <2>3. IsNodes(w.nodes) /\ (DistinctNodes(nodes) => DistinctNodes(w.nodes))
    BY <1>a, <2>1 DEF IsDialog, IsNodes, DistinctNodes, nodes
  <2>4. NodeNames(nodes) \subseteq NodeNames(w.nodes) \cup {nodes[i].name}
    BY <2>1 DEF NodeNames
  <2>5. /\ DOMAIN window' = DOMAIN w /\ window'.kind = w.kind /\ window'.moved = w.moved
        /\ window'.clashed = w.clashed /\ window'.layout = w.layout
        /\ window'.dragged = w.dragged /\ window'.nodes = w.nodes /\ window'.edges = w.edges
        /\ window'.selected = IF w.selected = nodes[i].name THEN NoGroup ELSE w.selected
    BY <1>a, <2>1, <2>2 DEF IsDialog
  <2>6. \A e \in w.edges : {e.src, e.dst} \subseteq DOMAIN w.nodes
    BY <1>a, <2>1 DEF IsDialog, nodes, edges
  <2>7. QED
    BY <1>a, <2>1, <2>3, <2>4, <2>5, <2>6 DEF IsDialog, nodes
<1>5. ASSUME NEW i \in DOMAIN nodes, NEW j \in DOMAIN nodes, AddLoadAfter(i, j)
      PROVE  IsDialog(window')
  <2>1. IsDialog(Selected(window, i)) /\ Selected(window, i).nodes = nodes
    BY <1>a, SelectedIsDialog DEF nodes, Selected, IsDialog
  <2>2. window' = [Selected(window, i) EXCEPT !.edges = @ \cup {Edge(i, j, TRUE)},
                                              !.dragged = TRUE]
    BY <1>5 DEF AddLoadAfter, Edit, Show
  <2>3. {Edge(i, j, TRUE).src, Edge(i, j, TRUE).dst} \subseteq DOMAIN nodes
    BY DEF Edge
  <2>4. QED
    BY <2>1, <2>2, <2>3 DEF IsDialog
<1>6. ASSUME NEW e \in edges, RemoveLoadAfter(e)
      PROVE  IsDialog(window')
  BY <1>6, <1>a DEF RemoveLoadAfter, Edit, Show, IsDialog
<1>7. ASSUME NEW ps \in SUBSET Installed, AddPlugins(ps)
      PROVE  IsDialog(window')
  <2> DEFINE name == window.selected
             added == WithPlugins(window, ps, name)
  <2>1. IsName(name)
    BY <1>7, <1>a DEF AddPlugins, IsDialog, IsNodes, NodeNames
  <2>2. IsDialog(added)
    BY <1>a, <2>1, AddPluginsIsDialog, Zenon
  <2>3. window' = [added EXCEPT !.nodes = Flagged(@, name, TRUE)]
    BY <1>7, Zenon DEF AddPlugins, Edit, Show
  <2> HIDE DEF added, name
  <2>4. IsMoved(added.moved)
    BY <2>2 DEF IsDialog
  <2>5. \A yes : IsDialog([added EXCEPT !.nodes = Flagged(@, name, yes)])
    BY <2>2, <2>4, FlagsAndMovesIsDialog, Zenon
  <2>6. QED
    BY <2>3, <2>5
<1>8. ASSUME AutoArrange
      PROVE  IsDialog(window')
  BY <1>8, <1>a DEF AutoArrange, Edit, Show, Arranged, IsDialog
<1>9. QED
  BY <1>1, <1>2, <1>3, <1>4, <1>5, <1>6, <1>7, <1>8, Zenon

-----------------------------------------------------------------------------
(* Steps of the metadata editor, and types.                                 *)

LEMMA GroupNamesAreNames ==
  ASSUME TypeOK, NEW n \in GroupNames
  PROVE  IsName(n)
BY MasterlistAssumption DEF TypeOK, IsGroups, GroupNames

LEMMA PaneIsMade ==
  ASSUME TypeOK, NEW p \in Installed
  PROVE  IsPane(Pane(p))
<1> DEFINE group == IF plugins[p].group # NoGroup THEN plugins[p].group ELSE NonUserGroup(p)
<1>1. p \in Plugins
  BY InstalledAssumption
<1>2. IsName(group)
  BY <1>1, MasterlistAssumption, DefaultIsName DEF TypeOK, IsPlugins, NonUserGroup
<1>3. IsName(GroupText(p))
  BY <1>2, MissingIsName DEF GroupText
<1>4. plugins[p].rows \in Seq(RowValues \cup {Blank})
  BY <1>1 DEF TypeOK, IsPlugins
<1>5. QED
  BY <1>3, <1>4, GroupNamesAreNames DEF Pane, IsPane

LEMMA PaneRows ==
  ASSUME NEW rows \in Seq(RowValues \cup {Blank}), NEW value \in RowValues \cup {Blank},
         NEW row \in DOMAIN rows
  PROVE  /\ Append(rows, value) \in Seq(RowValues \cup {Blank})
         /\ [rows EXCEPT ![row] = value] \in Seq(RowValues \cup {Blank})
         /\ RemoveAt(rows, row) \in Seq(RowValues \cup {Blank})
<1>1. [rows EXCEPT ![row] = value] \in Seq(RowValues \cup {Blank})
  BY ExceptSeq
<1>2. row \in 1 .. Len(rows)
  OBVIOUS
<1>3. /\ SubSeq(rows, 1, row - 1) \in Seq(RowValues \cup {Blank})
      /\ SubSeq(rows, row + 1, Len(rows)) \in Seq(RowValues \cup {Blank})
  BY <1>2, SubSeqProperties
<1>4. RemoveAt(rows, row) \in Seq(RowValues \cup {Blank})
  BY <1>3, ConcatProperties DEF RemoveAt
<1>5. QED
  BY <1>1, <1>4, AppendProperties

LEMMA PaneMetadataIsPlugins ==
  ASSUME TypeOK, NEW w, IsPane(w)
  PROVE  IsPlugins([plugins EXCEPT ![w.plugin] = PaneMetadata(w)])
<1>1. DOMAIN PaneMetadata(w) = {"group", "rows"}
      /\ (PaneMetadata(w).group = NoGroup \/ IsName(PaneMetadata(w).group))
      /\ PaneMetadata(w).rows \in Seq(RowValues \cup {Blank})
  BY DEF PaneMetadata, PaneGroup, IsPane
<1>2. QED
  BY <1>1 DEF TypeOK, IsPlugins

LEMMA NoMetadataIsPlugins ==
  ASSUME TypeOK, NEW p
  PROVE  IsPlugins([plugins EXCEPT ![p] = NoUserMetadata])
<1>1. <<>> \in Seq(RowValues \cup {Blank})
  OBVIOUS
<1>2. QED
  BY <1>1 DEF TypeOK, IsPlugins, NoUserMetadata

LEMMA TypeInit == Init => TypeInv
<1> SUFFICES ASSUME Init PROVE TypeInv
  OBVIOUS
<1>1. IsGroups(groups) /\ IsPlugins(plugins)
  BY UserAssumption DEF Init
<1>2. \A p \in Installed : items[p] = NoGroup \/ IsName(items[p])
  BY <1>1, EffectiveIsName, InstalledAssumption DEF Init
<1>3. ~InDialog /\ ~InPane /\ WindowOK
  BY DEF Init, InDialog, InPane, WindowOK
<1>4. positions = {} /\ editing = FALSE /\ edits = 0
  BY DEF Init
<1>5. edits \in 0 .. MaxEdits
  BY <1>4, EditsAssumption
<1>6. QED
  BY <1>1, <1>2, <1>3, <1>4, <1>5 DEF TypeInv, TypeOK

\* The window decides what the rest of the type invariant says of it.
LEMMA WindowTypes ==
  ASSUME WindowOK
  PROVE  /\ InDialog => \A e \in edges : {e.src, e.dst} \subseteq DOMAIN nodes
         /\ InPane => editing
BY DialogIsDialog, PaneIsPane DEF IsDialog, edges, nodes

LEMMA TypeStep == TypeInv /\ [Next]_vars => TypeInv'
<1> SUFFICES ASSUME TypeInv, [Next]_vars PROVE TypeInv'
  OBVIOUS
<1>a. TypeOK /\ WindowOK
  BY DEF TypeInv
<1>b. ASSUME WindowOK', IsGroups(groups)', IsPlugins(plugins)',
             \A n \in positions' : IsName(n),
             \A p \in Installed : items'[p] = NoGroup \/ IsName(items'[p]),
             editing' \in BOOLEAN, edits' \in 0 .. MaxEdits
      PROVE  TypeInv'
  <2>1. /\ (InDialog => \A e \in edges : {e.src, e.dst} \subseteq DOMAIN nodes)'
        /\ (InPane => editing)'
    BY <1>b, WindowTypes, PTL
  <2>2. QED
    BY <1>b, <2>1 DEF TypeInv, TypeOK
<1>c. \* It is enough that the window is as it should be, if only it has changed.
      ASSUME WindowOK', UNCHANGED <<groups, plugins, positions, items>>,
             editing' \in BOOLEAN, UNCHANGED edits \/ (edits < MaxEdits /\ edits' = edits + 1)
      PROVE  TypeInv'
  <2>1. edits' \in 0 .. MaxEdits
    BY <1>a, <1>c, EditsAssumption DEF TypeOK
  <2>2. QED
    BY <1>a, <1>b, <1>c, <2>1 DEF TypeOK
<1>d. ASSUME IsDialog(window') \/ window' = NoWindow PROVE WindowOK'
  BY <1>d DEF WindowOK
<1>1. CASE OpenGroups
  <2>1. IsDialog(window')
    BY <1>1, <1>a, BuildIsDialog DEF OpenGroups, TypeOK
  <2>2. QED
    BY <1>1, <1>a, <1>c, <1>d, <2>1 DEF OpenGroups, TypeOK
<1>2. CASE InDialog /\ \/ \E name \in NewNames : AddGroup(name) \/ RenameGroup(name)
                       \/ \E i \in DOMAIN nodes : Select(i) \/ RemoveGroup(i) \/ DragNode(i)
                       \/ \E i, j \in DOMAIN nodes : AddLoadAfter(i, j)
                       \/ \E e \in edges : RemoveLoadAfter(e)
                       \/ \E ps \in (SUBSET Installed) \ {{}} : AddPlugins(ps)
                       \/ AutoArrange
  <2>1. IsDialog(window')
    BY <1>2, DialogSteps
  <2>2. /\ UNCHANGED <<groups, plugins, positions, items, editing>>
        /\ UNCHANGED edits \/ (edits < MaxEdits /\ edits' = edits + 1)
    BY <1>2, Zenon DEF AddGroup, RenameGroup, Select, RemoveGroup, DragNode, AddLoadAfter,
       RemoveLoadAfter, AddPlugins, AutoArrange, Edit, Show
  <2>3. QED
    BY <1>a, <1>c, <1>d, <2>1, <2>2 DEF TypeOK
<1>3. CASE SaveGroups
  <2>1. IsDialog(window)
    BY <1>3, <1>a, DialogIsDialog DEF SaveGroups
  <2>2. IsGroups(groups')
    BY <1>3, <2>1, UserGroupsIsGroups, WithDefaultIsGroups DEF SaveGroups
  <2>3. IsPlugins(plugins')
    BY <1>3, <1>a, <2>1, WithGroupIsPlugins DEF SaveGroups, TypeOK, IsDialog
  <2>4. \A p \in Installed : items'[p] = NoGroup \/ IsName(items'[p])
    BY <1>3, <1>a, <2>3, RefreshedItems DEF SaveGroups, TypeOK
  <2>5. \A n \in positions' : IsName(n)
    BY <1>3, <1>a, <2>1 DEF SaveGroups, SavePositions, TypeOK, IsDialog, IsNodes, NodeNames,
       nodes
  <2>6. QED
    BY <1>3, <1>a, <1>b, <1>d, <2>2, <2>3, <2>4, <2>5 DEF SaveGroups, TypeOK
<1>4. CASE CloseGroups
  BY <1>4, <1>a, <1>c, <1>d DEF CloseGroups, Show, TypeOK
<1>5. CASE \E p \in Installed : OpenPane(p)
  <2>1. PICK p \in Installed : OpenPane(p)
    BY <1>5
  <2>2. IsPane(Pane(p))'
    <3>1. IsPane(Pane(p))
      BY <1>a, PaneIsMade
    <3>2. QED
      BY <2>1, <3>1 DEF OpenPane, IsPane, Pane, GroupText, GroupNames
  <2>3. Pane(p)' = Pane(p)
    BY <2>1 DEF OpenPane, Pane, GroupText, GroupNames
  <2>4. WindowOK'
    BY <2>1, <2>2, <2>3 DEF OpenPane, WindowOK
  <2>5. QED
    BY <2>1, <2>4, <1>c DEF OpenPane
<1>6. CASE \E p \in Installed : ClearPlugin(p)
  <2>1. PICK p \in Installed : ClearPlugin(p)
    BY <1>6
  <2>2. IsPlugins(plugins')
    BY <2>1, <1>a, NoMetadataIsPlugins DEF ClearPlugin, Cleared
  <2>3. \A q \in Installed : items'[q] = NoGroup \/ IsName(items'[q])
    BY <2>1, <1>a, <2>2, RefreshedItems DEF ClearPlugin, Cleared, TypeOK
  <2>4. window' = NoWindow /\ edits' \in 0 .. MaxEdits
    BY <2>1, <1>a, EditsAssumption DEF ClearPlugin, CanOpen, TypeOK
  <2>5. QED
    BY <2>1, <1>a, <1>b, <1>d, <2>2, <2>3, <2>4 DEF ClearPlugin, TypeOK
<1>7. CASE InPane /\ \E text \in window.listed : ChooseGroup(text)
  <2>1. IsPane(window) /\ editing
    BY <1>7, <1>a, PaneIsPane
  <2>2. PICK text \in window.listed : ChooseGroup(text)
    BY <1>7
  <2>3. IsPane(window)'
    BY <2>1, <2>2 DEF ChooseGroup, Edit, Show, IsPane
  <2>4. QED
    BY <2>1, <2>2, <2>3, <1>a, <1>c DEF ChooseGroup, Edit, Show, WindowOK, TypeOK
<1>8. CASE \/ InsertRow \/ \E v \in RowValues : DropPlugin(v)
           \/ \E row \in 1 .. Len(NonUserRows) + MaxEdits :
                RemoveRow(row) \/ \E v \in RowValues : EditRow(row, v)
  <2>1. IsPane(window) /\ editing
    BY <1>8, <1>a, PaneIsPane DEF InsertRow, DropPlugin, RemoveRow, EditRow
  <2>2. PICK rows \in Seq(RowValues \cup {Blank}) : SetRows(rows)
    <3> DEFINE old == window.rows
    <3>1. old \in Seq(RowValues \cup {Blank})
      BY <2>1 DEF IsPane
    <3>2. \/ \E v \in RowValues \cup {Blank} : SetRows(Append(old, v))
          \/ \E row \in DOMAIN old : \/ SetRows(RemoveAt(old, row))
                                     \/ \E v \in RowValues : SetRows([old EXCEPT ![row] = v])
      BY <1>8, Zenon DEF InsertRow, DropPlugin, RemoveRow, EditRow
    <3> HIDE DEF old
    <3>3. \A v \in RowValues \cup {Blank} : Append(old, v) \in Seq(RowValues \cup {Blank})
      BY <3>1, AppendProperties
    <3>4. \A row \in DOMAIN old :
            /\ RemoveAt(old, row) \in Seq(RowValues \cup {Blank})
            /\ \A v \in RowValues : [old EXCEPT ![row] = v] \in Seq(RowValues \cup {Blank})
      BY <3>1, PaneRows
    <3>5. QED
      BY <3>2, <3>3, <3>4, Zenon
  <2>3. IsPane(window)'
    BY <2>1, <2>2 DEF SetRows, Edit, Show, IsPane
  <2>4. QED
    BY <2>1, <2>2, <2>3, <1>a, <1>c DEF SetRows, Edit, Show, WindowOK, TypeOK
<1>9. CASE SavePane
  <2>1. IsPane(window)
    BY <1>9, <1>a, PaneIsPane DEF SavePane
  <2>2. IsPlugins(plugins')
    BY <1>9, <1>a, <2>1, PaneMetadataIsPlugins DEF SavePane
  <2>3. \A q \in Installed : items'[q] = NoGroup \/ IsName(items'[q])
    BY <1>9, <1>a, <2>2, RefreshedItems DEF SavePane, TypeOK
  <2>4. editing' \in BOOLEAN
    BY <1>9 DEF SavePane
  <2>5. QED
    BY <1>9, <1>a, <1>b, <1>d, <2>2, <2>3, <2>4 DEF SavePane, TypeOK
<1>10. CASE CancelPane
  BY <1>10, <1>a, <1>c, <1>d DEF CancelPane, TypeOK
<1>11. CASE UNCHANGED vars
  <2>1. WindowOK'
    BY <1>11, <1>a DEF vars, WindowOK, IsPane, GroupText, GroupNames
  <2>2. QED
    BY <1>11, <1>a, <1>c, <2>1 DEF vars, TypeOK
<1>12. QED
  <2>1. ASSUME \/ \E name \in NewNames : AddGroup(name) \/ RenameGroup(name)
               \/ \E ps \in (SUBSET Installed) \ {{}} : AddPlugins(ps)
               \/ AutoArrange
        PROVE  InDialog
    BY <2>1 DEF AddGroup, RenameGroup, AddPlugins, AutoArrange
  <2>2. QED
    BY <1>1, <1>2, <1>3, <1>4, <1>5, <1>6, <1>7, <1>8, <1>9, <1>10, <1>11, <2>1 DEF Next

\* The editors keep their types, whatever is edited, saved and cancelled.
THEOREM TypeCorrect == Spec => []TypeOK
<1>1. TypeInv => TypeOK
  BY DEF TypeInv
<1>2. QED
  BY <1>1, TypeInit, TypeStep, PTL DEF Spec

-----------------------------------------------------------------------------
(* The rule that a group with plugins is not removed.                       *)

\* Every plugin's group has a node; and a node's flag says whether plugins belong
\* to it, but perhaps for the nodes of one name.
Covered(w) == \A p \in Installed : PluginGroup(w, p) \in NodeNames(w.nodes)
FlagIsRight(w, i) ==
  w.nodes[i].user => (w.nodes[i].contains <=> Members(w, w.nodes[i].name) # {})
FlagsBut(w, name) == \A i \in DOMAIN w.nodes : w.nodes[i].name # name => FlagIsRight(w, i)
Flags(w) == \A i \in DOMAIN w.nodes : FlagIsRight(w, i)

\* That flags are right is kept because a plugin's group always has a node: what
\* RemovalRule says follows, but would not be enough to go on with.
RuleHolds(w) == ~w.clashed => Covered(w) /\ Flags(w)
RemovalInv == InDialog /\ AllBelong => RuleHolds(window)

\* What plugins' groups and flags are depends on the nodes and moves only.
LEMMA RuleStays ==
  ASSUME NEW w, NEW v, RuleHolds(w), v.nodes = w.nodes, v.moved = w.moved,
         v.clashed = w.clashed
  PROVE  RuleHolds(v)
<1>1. \A p : PluginGroup(v, p) = PluginGroup(w, p)
  BY DEF PluginGroup
<1>2. \A name : Members(v, name) = Members(w, name)
  BY <1>1 DEF Members
<1>3. QED
  BY <1>1, <1>2 DEF RuleHolds, Covered, Flags, FlagIsRight

LEMMA GroupOfMoved ==
  ASSUME NEW w, IsMoved(w.moved), NEW p
  PROVE  /\ \A m \in w.moved : m.plugin = p => PluginGroup(w, p) = m.group
         /\ (~\E m \in w.moved : m.plugin = p) =>
              PluginGroup(w, p) = IF items[p] = NoGroup THEN Default ELSE items[p]
BY MovedToIsIn DEF PluginGroup

\* Moving plugins puts them in their new group, and leaves the others in theirs.
LEMMA MoveMoves ==
  ASSUME NEW w, NEW v, IsMoved(w.moved), NEW ps \in SUBSET Installed, NEW name,
         IsName(name), v.moved = Move(w.moved, ps, name), NEW q
  PROVE  PluginGroup(v, q) = IF q \in ps THEN name ELSE PluginGroup(w, q)
<1>1. IsMoved(v.moved)
  BY MoveIsMoved
<1>2. CASE q \in ps
  <2>1. [plugin |-> q, group |-> name] \in v.moved
    BY <1>2 DEF Move
  <2>2. QED
    BY <1>1, <1>2, <2>1, GroupOfMoved
<1>3. CASE q \notin ps
  <2>1. \A m : m \in v.moved /\ m.plugin = q <=> m \in w.moved /\ m.plugin = q
    BY <1>3 DEF Move
  <2>2. CASE \E m \in w.moved : m.plugin = q
    BY <1>1, <1>3, <2>1, <2>2, GroupOfMoved
  <2>3. CASE ~\E m \in w.moved : m.plugin = q
    BY <1>1, <1>3, <2>1, <2>3, GroupOfMoved
  <2>4. QED
    BY <2>2, <2>3
<1>4. QED
  BY <1>2, <1>3

LEMMA PlacedMoves ==
  ASSUME NEW w, NEW v, IsMoved(w.moved), NEW p \in Installed, NEW name, IsName(name),
         name # NoGroup, v.moved = Placed(w.moved, p, name), NEW q
  PROVE  PluginGroup(v, q) = IF q = p THEN name ELSE PluginGroup(w, q)
<1>1. CASE items[p] = name
  <2>1. v.moved = {m \in w.moved : m.plugin # p}
    BY <1>1 DEF Placed
  <2>2. IsMoved(v.moved)
    BY <2>1 DEF IsMoved
  <2>3. CASE q = p
    <3>1. ~\E m \in v.moved : m.plugin = q
      BY <2>1, <2>3
    <3>2. QED
      BY <1>1, <2>2, <2>3, <3>1, GroupOfMoved
  <2>4. CASE q # p /\ \E m \in w.moved : m.plugin = q
    <3>1. PICK m \in w.moved : m.plugin = q
      BY <2>4
    <3>2. m \in v.moved
      BY <2>1, <2>4, <3>1
    <3>3. PluginGroup(w, q) = m.group
      BY <3>1, GroupOfMoved
    <3>4. PluginGroup(v, q) = m.group
      BY <2>2, <3>1, <3>2, GroupOfMoved
    <3>5. QED
      BY <2>4, <3>3, <3>4
  <2>5. CASE q # p /\ ~\E m \in w.moved : m.plugin = q
    <3>1. ~\E m \in v.moved : m.plugin = q
      BY <2>1, <2>5
    <3>2. /\ PluginGroup(v, q) = IF items[q] = NoGroup THEN Default ELSE items[q]
          /\ PluginGroup(w, q) = IF items[q] = NoGroup THEN Default ELSE items[q]
      BY <2>2, <2>5, <3>1, GroupOfMoved
    <3>3. QED
      BY <2>5, <3>2
  <2>6. QED
    BY <2>3, <2>4, <2>5
<1>2. CASE items[p] # name
  <2>1. v.moved = Move(w.moved, {p}, name)
    BY <1>2 DEF Placed
  <2>2. PluginGroup(v, q) = IF q \in {p} THEN name ELSE PluginGroup(w, q)
    BY <2>1, MoveMoves
  <2>3. QED
    BY <2>2
<1>3. QED
  BY <1>1, <1>2

\* One plugin leaves its group empty if it was the only one in it.
LEMMA OnlyMember ==
  ASSUME NEW S \in SUBSET Installed, NEW p \in S
  PROVE  (Cardinality(S) > 1) <=> (S \ {p} # {})
<1>1. IsFiniteSet(S) /\ IsFiniteSet(S \ {p})
  BY InstalledAssumption, FS_Subset
<1>2. Cardinality(S \ {p}) = Cardinality(S) - 1 /\ Cardinality(S) \in Nat
  BY <1>1, FS_RemoveElement, FS_CardinalityType
<1>3. Cardinality(S \ {p}) = 0 <=> S \ {p} = {}
  BY <1>1, FS_EmptySet
<1>4. Cardinality(S \ {p}) \in Nat
  BY <1>1, FS_CardinalityType
<1> HIDE DEF InstalledAssumption
<1>5. QED
  BY <1>2, <1>3, <1>4

RuleStepKeeps(c, k, w) ==
  /\ IsDialog(w) /\ ~w.clashed /\ w.selected = c.name
  /\ Covered(w) /\ FlagsBut(w, c.name)
  /\ k > 0 => Members(w, c.name) # {}

RuleFold == INSTANCE FoldLemmas WITH Op <- AddStep, P <- RuleStepKeeps

LEMMA RuleStep ==
  ASSUME NEW c, NEW k, NEW w, RuleStepKeeps(c, k, w), NEW p \in Installed,
         IsName(c.name), c.name # NoGroup
  PROVE  RuleStepKeeps(c, k + 1, AddPlugin(w, p, c.name))
<1> DEFINE name == c.name
           old == PluginGroup(w, p)
           yes == Cardinality(Members(w, old)) > 1
           v == AddPlugin(w, p, name)
<1>1. IsDialog(w) /\ DistinctNodes(w.nodes) /\ Covered(w) /\ FlagsBut(w, name)
      /\ name \in NodeNames(w.nodes)
  BY DEF RuleStepKeeps, IsDialog
<1>2. /\ v.nodes = Flagged(w.nodes, old, yes) /\ v.moved = Placed(w.moved, p, name)
      /\ v.clashed = w.clashed /\ v.selected = w.selected
  BY <1>1 DEF AddPlugin, IsDialog
<1>3. IsDialog(v)
  BY <1>1, AddPluginIsDialog
<1> HIDE DEF v
<1>4. \A q : PluginGroup(v, q) = IF q = p THEN name ELSE PluginGroup(w, q)
  BY <1>1, <1>2, PlacedMoves DEF IsDialog
<1>5. /\ DOMAIN v.nodes = DOMAIN w.nodes /\ NodeNames(v.nodes) = NodeNames(w.nodes)
      /\ \A i \in DOMAIN w.nodes :
           /\ v.nodes[i].name = w.nodes[i].name /\ v.nodes[i].user = w.nodes[i].user
           /\ v.nodes[i].contains = IF old \in NodeNames(w.nodes) /\ i = Find(w.nodes, old)
                                    THEN yes ELSE w.nodes[i].contains
  BY <1>1, <1>2, FlaggedNodes DEF IsDialog
<1>6. Covered(v)
  BY <1>1, <1>4, <1>5 DEF Covered
<1>7. old \in NodeNames(w.nodes) /\ p \in Members(w, old) /\ Members(w, old) \subseteq Installed
  BY <1>1 DEF Covered, Members
<1>8. \A i \in DOMAIN w.nodes : i = Find(w.nodes, old) <=> w.nodes[i].name = old
  BY <1>1, <1>7, FindFinds DEF DistinctNodes
<1> HIDE DEF old
<1>9. ASSUME NEW i \in DOMAIN v.nodes, v.nodes[i].name # name, v.nodes[i].user
      PROVE  v.nodes[i].contains <=> Members(v, v.nodes[i].name) # {}
  <2> DEFINE n == v.nodes[i].name
  <2>1. i \in DOMAIN w.nodes /\ w.nodes[i].name = n /\ w.nodes[i].user
        /\ v.nodes[i].contains = IF n = old THEN yes ELSE w.nodes[i].contains
    BY <1>5, <1>7, <1>8, <1>9
  <2>2. w.nodes[i].contains <=> Members(w, n) # {}
    BY <1>1, <1>9, <2>1 DEF FlagsBut, FlagIsRight
  <2>3. Members(v, n) = Members(w, n) \ {p}
    BY <1>4, <1>9 DEF Members
  <2>4. CASE n = old
    <3>1. yes <=> Members(w, old) \ {p} # {}
      BY <1>7, OnlyMember
    <3>2. QED
      BY <2>1, <2>3, <2>4, <3>1
  <2>5. CASE n # old
    <3>1. p \notin Members(w, n)
      BY <2>5 DEF Members, old
    <3>2. QED
      BY <2>1, <2>2, <2>3, <2>5, <3>1
  <2>6. QED
    BY <2>4, <2>5
<1>10. p \in Members(v, name)
  BY <1>4 DEF Members
<1>11. FlagsBut(v, name)
  BY <1>9, Zenon DEF FlagsBut, FlagIsRight
<1>12. RuleStepKeeps(c, k + 1, v)
  BY <1>2, <1>3, <1>6, <1>10, <1>11 DEF RuleStepKeeps
<1>13. QED
  BY <1>12 DEF v

LEMMA AddPluginsKeepsRule ==
  ASSUME NEW w, IsDialog(w), ~w.clashed, RuleHolds(w), w.selected # NoGroup,
         NEW ps \in SUBSET Installed, ps # {}
  PROVE  LET v == WithPlugins(w, ps, w.selected)
         IN /\ IsDialog(v) /\ ~v.clashed /\ v.selected = w.selected /\ Covered(v)
            /\ FlagsBut(v, v.selected) /\ Members(v, v.selected) # {}
<1> DEFINE name == w.selected
           c == [name |-> name]
           seq == SetToSeq(ps)
           n == Cardinality(ps)
<1>1. n \in Nat /\ n > 0 /\ seq \in [1 .. n -> ps]
  <2>1. IsFiniteSet(ps)
    BY InstalledAssumption, FS_Subset
  <2>2. QED
    BY <2>1, SetToSeqLists, FS_EmptySet
<1>2. c.name = name
  OBVIOUS
<1>3. WithPlugins(w, ps, c.name) = RuleFold!Fold(c, w, seq)
  BY Zenon DEF WithPlugins, FoldLeft, MapThenFoldSet, Max, AddStep, RuleFold!Fold,
     RuleFold!FoldLeft, RuleFold!MapThenFoldSet, RuleFold!Max
<1>4. IsName(name)
  BY DEF IsDialog, IsNodes, NodeNames
<1> HIDE DEF c, seq, n
<1>5. RuleStepKeeps(c, 0, w)
  BY <1>2 DEF RuleStepKeeps, RuleHolds, Flags, FlagsBut
<1>6. ASSUME NEW k \in 0 .. n - 1, NEW x, RuleStepKeeps(c, k, x)
      PROVE  RuleStepKeeps(c, k + 1, AddStep(c, x, seq[k + 1]))
  <2>1. seq[k + 1] \in Installed
    BY <1>1
  <2>2. QED
    BY <1>2, <1>4, <1>6, <2>1, RuleStep DEF AddStep
<1>7. RuleStepKeeps(c, n, RuleFold!Fold(c, w, seq))
  BY <1>1, <1>5, <1>6, RuleFold!FoldInduction
<1>8. QED
  BY <1>1, <1>2, <1>3, <1>7 DEF RuleStepKeeps

\* When the editor opens, each plugin belongs to a group that has a node, and
\* groups of the user have their flags from the plugins.
LEMMA BuildNames ==
  ASSUME NEW gs
  PROVE  LET w == Build(gs)
         IN /\ w.moved = {} /\ ~w.clashed
            /\ DOMAIN Masterlist \subseteq NodeNames(w.nodes)
            /\ \A i \in DOMAIN w.nodes :
                 w.nodes[i] = GroupNode(w.nodes[i].name, w.nodes[i].name \notin DOMAIN Masterlist)
<1> DEFINE names == DOMAIN Masterlist \cup DOMAIN LoadAfter(gs) \cup References(Masterlist)
                      \cup References(LoadAfter(gs))
           w == Build(gs)
<1>1. w.moved = {} /\ ~w.clashed
  BY DEF Build
<1>2. /\ DOMAIN w.nodes = {<<n, 0>> : n \in names}
      /\ \A n \in names : w.nodes[<<n, 0>>] = GroupNode(n, n \notin DOMAIN Masterlist)
  BY DEF Build
<1>3. \A n, user : GroupNode(n, user).name = n
  BY DEF GroupNode
<1>4. DOMAIN Masterlist \subseteq names
  OBVIOUS
<1> HIDE DEF names, w
<1>5. \A n \in names : /\ <<n, 0>> \in DOMAIN w.nodes
                       /\ w.nodes[<<n, 0>>].name = n
  BY <1>2, <1>3
<1>6. DOMAIN Masterlist \subseteq NodeNames(w.nodes)
  BY <1>4, <1>5 DEF NodeNames
<1>7. ASSUME NEW i \in DOMAIN w.nodes
      PROVE  w.nodes[i] = GroupNode(w.nodes[i].name, w.nodes[i].name \notin DOMAIN Masterlist)
  <2>1. PICK n \in names : i = <<n, 0>>
    BY <1>2
  <2>2. QED
    BY <1>2, <1>5, <2>1
<1>8. QED
  BY <1>1, <1>6, <1>7 DEF w

LEMMA RuleAtFirst ==
  ASSUME AllBelong
  PROVE  RuleHolds(Build(groups))
<1> DEFINE w == Build(groups)
<1>1. /\ w.moved = {} /\ DOMAIN Masterlist \subseteq NodeNames(w.nodes)
      /\ \A i \in DOMAIN w.nodes :
           w.nodes[i] = GroupNode(w.nodes[i].name, w.nodes[i].name \notin DOMAIN Masterlist)
  BY BuildNames
<1>2. InstalledGroups \subseteq NodeNames(w.nodes)
  BY DEF AllBelong
<1> HIDE DEF w
<1>3. \A p : PluginGroup(w, p) = IF items[p] = NoGroup THEN Default ELSE items[p]
  BY <1>1 DEF PluginGroup
<1>4. Default \in DOMAIN Masterlist
  BY MasterlistAssumption
<1>5. Covered(w)
  BY <1>1, <1>2, <1>3, <1>4 DEF Covered, InstalledGroups
<1>6. ASSUME NEW i \in DOMAIN w.nodes, w.nodes[i].user
      PROVE  w.nodes[i].contains <=> Members(w, w.nodes[i].name) # {}
  <2> DEFINE n == w.nodes[i].name
  <2>1. w.nodes[i] = [name |-> n, user |-> n \notin DOMAIN Masterlist,
                      contains |-> n \in InstalledGroups]
    BY <1>1, Zenon DEF GroupNode
  <2>2. n # Default /\ (w.nodes[i].contains <=> n \in InstalledGroups)
    <3>1. /\ w.nodes[i].user = (n \notin DOMAIN Masterlist)
          /\ w.nodes[i].contains = (n \in InstalledGroups)
      BY <2>1
    <3>2. QED
      BY <1>4, <1>6, <3>1
  <2> HIDE DEF n
  <2>3. \A p \in Installed : PluginGroup(w, p) = n <=> items[p] = n /\ n # NoGroup
    BY <1>3, <2>2
  <2>4. Members(w, n) # {} <=> n \in InstalledGroups
    BY <2>3 DEF Members, InstalledGroups
  <2>5. QED
    BY <2>2, <2>4 DEF n
<1>7. QED
  BY <1>5, <1>6 DEF w, RuleHolds, Flags, FlagIsRight

\* A group is added that no plugin belongs to: no group had its name.
LEMMA AddGroupKeepsRule ==
  ASSUME NEW w, NEW v, IsDialog(w), RuleHolds(w), NEW name, name \notin NodeNames(w.nodes),
         NEW id, id \notin DOMAIN w.nodes,
         v = [w EXCEPT !.nodes = [i \in DOMAIN w.nodes \cup {id} |->
                IF i = id THEN [name |-> name, user |-> TRUE, contains |-> FALSE]
                ELSE w.nodes[i]]]
  PROVE  RuleHolds(v)
<1>1. /\ v.moved = w.moved /\ v.clashed = w.clashed
      /\ DOMAIN v.nodes = DOMAIN w.nodes \cup {id}
      /\ v.nodes[id].name = name /\ ~v.nodes[id].contains
      /\ \A i \in DOMAIN w.nodes : v.nodes[i] = w.nodes[i]
  BY DEF IsDialog
<1>2. \A p : PluginGroup(v, p) = PluginGroup(w, p)
  BY <1>1 DEF PluginGroup
<1>3. \A n : Members(v, n) = Members(w, n)
  BY <1>2 DEF Members
<1>4. SUFFICES ASSUME ~v.clashed PROVE Covered(v) /\ Flags(v)
  BY DEF RuleHolds
<1>5. Covered(w) /\ Flags(w)
  BY <1>1, <1>4 DEF RuleHolds
<1>6. Covered(v)
  <2>1. NodeNames(w.nodes) \subseteq NodeNames(v.nodes)
    BY <1>1 DEF NodeNames
  <2>2. QED
    BY <1>2, <1>5, <2>1 DEF Covered
<1>7. Members(w, name) = {}
  BY <1>5 DEF Covered, Members
<1>8. ASSUME NEW i \in DOMAIN v.nodes
      PROVE  FlagIsRight(v, i)
  <2>1. CASE i = id
    BY <1>1, <1>3, <1>7, <2>1 DEF FlagIsRight
  <2>2. CASE i \in DOMAIN w.nodes
    BY <1>1, <1>3, <1>5, <2>2 DEF Flags, FlagIsRight
  <2>3. QED
    BY <1>1, <2>1, <2>2
<1>9. QED
  BY <1>6, <1>8 DEF Flags

\* The plugins of a group follow it to a name that no other group has, and that no
\* plugin belonged to.
LEMMA RenameKeepsRule ==
  ASSUME NEW w, NEW v, IsDialog(w), RuleHolds(w), NEW name, IsName(name),
         w.selected \in NodeNames(w.nodes), NEW i, i = Find(w.nodes, w.selected),
         v.nodes = [w.nodes EXCEPT ![i].name = name],
         v.moved = Move(w.moved, Members(w, w.selected), name),
         v.clashed <=> w.clashed \/ Named(w.nodes, name) \ {i} # {}
  PROVE  RuleHolds(v)
<1> DEFINE old == w.selected
<1>1. SUFFICES ASSUME ~v.clashed PROVE Covered(v) /\ Flags(v)
  BY DEF RuleHolds
<1>2. Covered(w) /\ Flags(w) /\ DistinctNodes(w.nodes)
  BY <1>1 DEF RuleHolds, IsDialog
<1>3. i \in DOMAIN w.nodes /\ w.nodes[i].name = old
  BY FindFinds
<1>4. \A j \in DOMAIN w.nodes : j # i => w.nodes[j].name # name /\ w.nodes[j].name # old
  BY <1>1, <1>2, <1>3 DEF Named, DistinctNodes
<1>5. /\ DOMAIN v.nodes = DOMAIN w.nodes
      /\ v.nodes[i].name = name /\ v.nodes[i].user = w.nodes[i].user
      /\ v.nodes[i].contains = w.nodes[i].contains
      /\ \A j \in DOMAIN w.nodes : j # i => v.nodes[j] = w.nodes[j]
  BY <1>3 DEF IsDialog, IsNodes
<1>6. \A q \in Installed : PluginGroup(v, q) = IF PluginGroup(w, q) = old THEN name
                                               ELSE PluginGroup(w, q)
  <2>1. Members(w, old) \in SUBSET Installed
        /\ \A q \in Installed : q \in Members(w, old) <=> PluginGroup(w, q) = old
    BY DEF Members
  <2>2. QED
    BY <2>1, MoveMoves DEF IsDialog
<1> HIDE DEF old
<1>7. Covered(v)
  <2> SUFFICES ASSUME NEW q \in Installed PROVE PluginGroup(v, q) \in NodeNames(v.nodes)
    BY DEF Covered
  <2>1. PICK j \in DOMAIN w.nodes : PluginGroup(w, q) = w.nodes[j].name
    BY <1>2 DEF Covered, NodeNames
  <2>2. PluginGroup(v, q) = v.nodes[j].name
    BY <1>3, <1>4, <1>5, <1>6, <2>1
  <2>3. QED
    BY <1>5, <2>2 DEF NodeNames
<1>8. ASSUME NEW q \in Installed, PluginGroup(w, q) = name
      PROVE  name = old
  BY <1>2, <1>3, <1>4, <1>8 DEF Covered, NodeNames
<1>9. Members(v, name) = Members(w, old)
  BY <1>6, <1>8 DEF Members
<1>10. \A n : n # name /\ n # old => Members(v, n) = Members(w, n)
  BY <1>6 DEF Members
<1>11. ASSUME NEW j \in DOMAIN v.nodes
       PROVE  FlagIsRight(v, j)
  <2>1. FlagIsRight(w, j)
    BY <1>2, <1>5 DEF Flags
  <2>2. CASE j = i
    BY <1>3, <1>5, <1>9, <2>1, <2>2 DEF FlagIsRight
  <2>3. CASE j # i
    BY <1>4, <1>5, <1>10, <2>1, <2>3 DEF FlagIsRight
  <2>4. QED
    BY <2>2, <2>3
<1>12. QED
  BY <1>7, <1>11 DEF Flags

\* A group is removed that no plugin belongs to, as its flag says.
LEMMA RemoveKeepsRule ==
  ASSUME NEW w, NEW v, IsDialog(w), RuleHolds(w), NEW i \in DOMAIN w.nodes,
         w.nodes[i].user, ~w.nodes[i].contains,
         v.nodes = [j \in DOMAIN w.nodes \ {i} |-> w.nodes[j]],
         v.moved = w.moved, v.clashed = w.clashed
  PROVE  RuleHolds(v)
<1>1. \A p : PluginGroup(v, p) = PluginGroup(w, p)
  BY DEF PluginGroup
<1>2. \A n : Members(v, n) = Members(w, n)
  BY <1>1 DEF Members
<1>3. SUFFICES ASSUME ~v.clashed PROVE Covered(v) /\ Flags(v)
  BY DEF RuleHolds
<1>4. Covered(w) /\ Flags(w)
  BY <1>3 DEF RuleHolds
<1>5. Members(w, w.nodes[i].name) = {}
  BY <1>4 DEF Flags, FlagIsRight
<1>6. ASSUME NEW p \in Installed
      PROVE  PluginGroup(v, p) \in NodeNames(v.nodes)
  <2>1. PICK j \in DOMAIN w.nodes : PluginGroup(w, p) = w.nodes[j].name
    BY <1>4 DEF Covered, NodeNames
  <2>2. j # i
    BY <1>5, <2>1 DEF Members
  <2>3. QED
    BY <1>1, <2>1, <2>2 DEF NodeNames
<1>7. Flags(v)
  BY <1>2, <1>4 DEF Flags, FlagIsRight
<1>8. QED
  BY <1>6, <1>7 DEF Covered

\* The last flag that is set is that of the selected group, which has its plugins.
LEMMA FlagsComplete ==
  ASSUME NEW w, NEW v, NEW yes, IsDialog(w), DistinctNodes(w.nodes), NEW name, w.selected = name,
         name # NoGroup, Covered(w), FlagsBut(w, name), Members(w, name) # {},
         v.nodes = Flagged(w.nodes, name, yes), v.moved = w.moved
  PROVE  Covered(v) /\ (yes = TRUE => Flags(v))
<1>1. \A p : PluginGroup(v, p) = PluginGroup(w, p)
  BY DEF PluginGroup
<1>2. \A n : Members(v, n) = Members(w, n)
  BY <1>1 DEF Members
<1>3. name \in NodeNames(w.nodes) /\ IsNodes(w.nodes)
  BY DEF IsDialog
<1>4. /\ DOMAIN v.nodes = DOMAIN w.nodes /\ NodeNames(v.nodes) = NodeNames(w.nodes)
      /\ \A i \in DOMAIN w.nodes :
           /\ v.nodes[i].name = w.nodes[i].name /\ v.nodes[i].user = w.nodes[i].user
           /\ v.nodes[i].contains = IF name \in NodeNames(w.nodes) /\ i = Find(w.nodes, name)
                                    THEN yes ELSE w.nodes[i].contains
  BY <1>3, FlaggedNodes
<1>5. \A i \in DOMAIN w.nodes : i = Find(w.nodes, name) <=> w.nodes[i].name = name
  BY <1>3, FindFinds DEF DistinctNodes
<1>6. Covered(v)
  BY <1>1, <1>4 DEF Covered
<1>7. ASSUME yes = TRUE, NEW i \in DOMAIN v.nodes
      PROVE  FlagIsRight(v, i)
  <2>1. CASE v.nodes[i].name = name
    <3>1. v.nodes[i].contains = yes
      BY <1>3, <1>4, <1>5, <1>7, <2>1
    <3>2. Members(v, v.nodes[i].name) # {}
      BY <1>2, <2>1
    <3>3. QED
      BY <1>7, <3>1, <3>2, Zenon DEF FlagIsRight
  <2>2. CASE v.nodes[i].name # name
    <3>1. /\ w.nodes[i].name = v.nodes[i].name /\ w.nodes[i].user = v.nodes[i].user
          /\ v.nodes[i].contains = w.nodes[i].contains
          /\ i \in DOMAIN w.nodes
      BY <1>4, <1>5, <1>7, <2>2
    <3>2. FlagIsRight(w, i)
      BY <2>2, <3>1 DEF FlagsBut
    <3>3. QED
      BY <1>2, <3>1, <3>2, Zenon DEF FlagIsRight
  <2>3. QED
    BY <2>1, <2>2
<1>8. QED
  BY <1>6, <1>7, Zenon DEF Flags

\* An edit of the dialog changes the window only.
LEMMA AllBelongStays ==
  ASSUME UNCHANGED <<groups, positions, items>>
  PROVE  AllBelong' <=> AllBelong
<1>1. Build(groups)' = Build(groups)
  BY DEF Build, GroupNode, InstalledGroups, SavedOrAuto, AllPositioned
<1>2. InstalledGroups' = InstalledGroups
  BY DEF InstalledGroups
<1>3. QED
  BY <1>1, <1>2 DEF AllBelong

LEMMA RuleInStep ==
  ASSUME NEW v, v = window', UNCHANGED <<groups, positions, items>>,
         InDialog' /\ AllBelong => RuleHolds(v)
  PROVE  RemovalInv'
<1>1. RuleHolds(v)' <=> RuleHolds(v)
  BY DEF RuleHolds, Covered, Flags, FlagIsRight, Members, PluginGroup
<1>2. RuleHolds(window)' <=> RuleHolds(v)'
  BY DEF RuleHolds, Covered, Flags, FlagIsRight, Members, PluginGroup
<1>3. QED
  BY <1>1, <1>2, AllBelongStays DEF RemovalInv

LEMMA RemovalStep ==
  ASSUME TypeInv, RemovalInv, [Next]_vars
  PROVE  RemovalInv'
<1>a. InDialog => IsDialog(window)
  BY DialogIsDialog DEF TypeInv
<1>b. PICK v : v = window'
  OBVIOUS
<1>c. InDialog /\ AllBelong => RuleHolds(window)
  BY DEF RemovalInv
<1>1. CASE OpenGroups
  <2>1. AllBelong => RuleHolds(v)
    BY <1>1, <1>b, RuleAtFirst DEF OpenGroups
  <2>2. QED
    BY <1>1, <1>b, <2>1, RuleInStep DEF OpenGroups
<1>2. CASE \E name \in NewNames : AddGroup(name)
  <2>1. PICK name \in NewNames : AddGroup(name)
    BY <1>2
  <2>2. PICK id : /\ id \notin DOMAIN nodes
                  /\ window' = [window EXCEPT !.nodes = [i \in DOMAIN nodes \cup {id} |->
                        IF i = id THEN [name |-> name, user |-> TRUE, contains |-> FALSE]
                        ELSE nodes[i]]]
    BY <2>1, Zenon DEF AddGroup, Edit, Show
  <2>3. InDialog /\ name \notin NodeNames(nodes) /\ UNCHANGED <<groups, positions, items>>
    BY <2>1 DEF AddGroup, Edit, Show
  <2>4. AllBelong => RuleHolds(v)
    BY <1>a, <1>b, <1>c, <2>2, <2>3, AddGroupKeepsRule DEF nodes
  <2>5. QED
    BY <1>b, <2>3, <2>4, RuleInStep
<1>3. CASE \E name \in NewNames : RenameGroup(name)
  <2>1. PICK name \in NewNames : RenameGroup(name)
    BY <1>3
  <2>2. PICK i : i = Find(nodes, window.selected)
    OBVIOUS
  <2>3. /\ window' = [window EXCEPT
                        !.nodes[i].name = name,
                        !.moved = Move(@, Members(window, window.selected), name),
                        !.selected = name,
                        !.clashed = @ \/ Named(nodes, name) \ {i} # {}]
        /\ window.selected \in NodeNames(nodes)
        /\ InDialog /\ UNCHANGED <<groups, positions, items>>
    BY <2>1, <2>2, Zenon DEF RenameGroup, Edit, Show
  <2>4. /\ v.nodes = [window.nodes EXCEPT ![i].name = name]
        /\ v.moved = Move(window.moved, Members(window, window.selected), name)
        /\ v.clashed <=> window.clashed \/ Named(window.nodes, name) \ {i} # {}
    BY <1>a, <1>b, <2>3 DEF IsDialog, nodes
  <2>5. IsName(name)
    BY UserAssumption
  <2>6. AllBelong => RuleHolds(v)
    BY <1>a, <1>c, <2>2, <2>3, <2>4, <2>5, RenameKeepsRule DEF nodes
  <2>7. QED
    BY <1>b, <2>3, <2>6, RuleInStep
<1>4. CASE InDialog /\ \E i \in DOMAIN nodes : RemoveGroup(i)
  <2>1. PICK i \in DOMAIN nodes : RemoveGroup(i)
    BY <1>4
  <2>2. /\ nodes[i].user /\ ~nodes[i].contains
        /\ window' = Deselected(WithoutNode(window, i), nodes[i].name)
        /\ UNCHANGED <<groups, positions, items>>
    BY <2>1, Zenon DEF RemoveGroup, Edit, Show
  <2>3. /\ v.nodes = [j \in DOMAIN window.nodes \ {i} |-> window.nodes[j]]
        /\ v.moved = window.moved /\ v.clashed = window.clashed
    BY <1>4, <1>a, <1>b, <2>2 DEF IsDialog, nodes, Deselected, WithoutNode
  <2>4. AllBelong => RuleHolds(v)
    BY <1>4, <1>a, <1>c, <2>2, <2>3, RemoveKeepsRule DEF nodes
  <2>5. QED
    BY <1>b, <2>2, <2>4, RuleInStep
<1>5. CASE \E ps \in (SUBSET Installed) \ {{}} : AddPlugins(ps)
  <2>1. PICK ps \in (SUBSET Installed) \ {{}} : AddPlugins(ps)
    BY <1>5
  <2>2. PICK name : name = window.selected
    OBVIOUS
  <2>3. PICK w : w = WithPlugins(window, ps, name)
    OBVIOUS
  <2>4. /\ InDialog /\ name # NoGroup /\ UNCHANGED <<groups, positions, items>>
        /\ window' = [w EXCEPT !.nodes = Flagged(@, name, TRUE)]
    BY <2>1, <2>2, <2>3, Zenon DEF AddPlugins, Edit, Show
  <2>5. ASSUME AllBelong, ~window.clashed
        PROVE  /\ IsDialog(w) /\ ~w.clashed /\ w.selected = name /\ Covered(w)
               /\ FlagsBut(w, name) /\ Members(w, name) # {}
    BY <1>a, <1>c, <2>1, <2>2, <2>3, <2>4, <2>5, AddPluginsKeepsRule
  <2>6. ASSUME AllBelong, ~v.clashed
        PROVE  Covered(v) /\ Flags(v)
    <3>1. IsDialog(w) /\ w.clashed = window.clashed
      <4>1. IsName(name)
        BY <1>a, <2>2, <2>4 DEF IsDialog, IsNodes, NodeNames
      <4>2. QED
        BY <1>a, <2>1, <2>3, <2>4, <4>1, AddPluginsIsDialog DEF SameGraph
    <3>2. /\ v.nodes = Flagged(w.nodes, name, TRUE) /\ v.moved = w.moved
          /\ v.clashed = w.clashed
      BY <1>b, <2>4, <3>1 DEF IsDialog
    <3>3. /\ w.selected = name /\ Covered(w) /\ FlagsBut(w, name) /\ Members(w, name) # {}
          /\ DistinctNodes(w.nodes)
      BY <2>5, <2>6, <3>1, <3>2 DEF IsDialog
    <3>4. QED
      BY <2>4, <3>1, <3>2, <3>3, FlagsComplete, Zenon
  <2>7. QED
    BY <1>b, <2>4, <2>6, RuleInStep DEF RuleHolds
<1>6. CASE InDialog /\ \/ \E i \in DOMAIN nodes : Select(i) \/ DragNode(i)
                       \/ \E i, j \in DOMAIN nodes : AddLoadAfter(i, j)
                       \/ \E e \in edges : RemoveLoadAfter(e)
                       \/ AutoArrange
  <2>1. UNCHANGED <<groups, positions, items>>
    BY <1>6, Zenon DEF Select, DragNode, AddLoadAfter, RemoveLoadAfter, AutoArrange, Edit, Show
  <2>2. \/ \E i : \/ window' = Selected(window, i)
                  \/ window' = [Selected(window, i) EXCEPT !.layout = "own", !.dragged = TRUE]
                  \/ \E j : window' = [Selected(window, i) EXCEPT
                                         !.edges = @ \cup {Edge(i, j, TRUE)}, !.dragged = TRUE]
        \/ \E e : window' = [window EXCEPT !.edges = @ \ {e}]
        \/ window' = Arranged(window)
    BY <1>6, Zenon DEF Select, DragNode, AddLoadAfter, RemoveLoadAfter, AutoArrange, Edit, Show
  <2>3. v.nodes = window.nodes /\ v.moved = window.moved /\ v.clashed = window.clashed
    BY <1>6, <1>a, <1>b, <2>2 DEF IsDialog, Selected, Arranged
  <2>4. AllBelong => RuleHolds(v)
    BY <1>6, <1>c, <2>3, RuleStays
  <2>5. QED
    BY <1>b, <2>1, <2>4, RuleInStep
<1>7. CASE SaveGroups \/ CloseGroups \/ SavePane \/ CancelPane
           \/ (\E p \in Installed : OpenPane(p) \/ ClearPlugin(p))
  <2>1. ~InDialog'
    BY <1>7 DEF SaveGroups, CloseGroups, Show, SavePane, CancelPane, OpenPane, Pane, ClearPlugin,
       CanOpen, InDialog
  <2>2. QED
    BY <2>1 DEF RemovalInv
<1>8. CASE \/ InPane /\ \E text \in window.listed : ChooseGroup(text)
           \/ InsertRow \/ \E value \in RowValues : DropPlugin(value)
           \/ \E row \in 1 .. Len(NonUserRows) + MaxEdits :
                RemoveRow(row) \/ \E value \in RowValues : EditRow(row, value)
  <2>1. IsPane(window)
    BY <1>8, PaneIsPane DEF TypeInv, InsertRow, DropPlugin, RemoveRow, EditRow
  <2>2. \E rows : \/ window' = [window EXCEPT !.text = rows, !.edited = TRUE]
                  \/ window' = [window EXCEPT !.rows = rows, !.edited = TRUE]
    BY <1>8, Zenon DEF ChooseGroup, InsertRow, DropPlugin, RemoveRow, EditRow, SetRows, Edit, Show
  <2>3. ~InDialog'
    BY <2>1, <2>2 DEF IsPane, InDialog
  <2>4. QED
    BY <2>3 DEF RemovalInv
<1>9. CASE UNCHANGED vars
  <2>1. InDialog' = InDialog
    BY <1>9 DEF vars, InDialog
  <2>2. QED
    BY <1>9, <1>b, <1>c, <2>1, RuleInStep DEF vars
<1>10. QED
  <2>1. AutoArrange => InDialog
    BY DEF AutoArrange
  <2>2. QED
    BY <1>1, <1>2, <1>3, <1>4, <1>5, <1>6, <1>7, <1>8, <1>9, <2>1, Zenon DEF Next

LEMMA RemovalAtFirst == Init => RemovalInv
BY DEF Init, RemovalInv, InDialog

\* A group is removed only if no plugin belongs to it, and can be if none does,
\* after any moves of plugins, renames and removals of groups.
THEOREM GroupsWithPluginsStay == Spec => []RemovalRule
<1>1. TypeInv /\ RemovalInv => RemovalRule
  <2> SUFFICES ASSUME RemovalInv, InDialog, ~window.clashed, AllBelong,
                      NEW i \in DOMAIN nodes, nodes[i].user
               PROVE  nodes[i].contains <=> Members(window, nodes[i].name) # {}
    BY DEF RemovalRule
  <2>1. FlagIsRight(window, i)
    BY DEF RemovalInv, RuleHolds, Flags, nodes
  <2>2. QED
    BY <2>1, Zenon DEF FlagIsRight, nodes
<1>2. TypeInv /\ RemovalInv /\ [Next]_vars => TypeInv' /\ RemovalInv'
  BY TypeStep, RemovalStep
<1>3. QED
  BY <1>1, <1>2, TypeInit, RemovalAtFirst, PTL DEF Spec

-----------------------------------------------------------------------------
(* What has been edited is noticed.                                         *)

OneOfName(gs) == \A g, h \in gs : g.name = h.name => g = h

\* Groups that have names of their own are what the map of them says.
LEMMA AsMapTells ==
  ASSUME NEW gs, NEW hs, IsGroups(gs), IsGroups(hs), OneOfName(gs), OneOfName(hs),
         AsMap(gs) = AsMap(hs)
  PROVE  gs \subseteq hs
<1> SUFFICES ASSUME NEW g \in gs PROVE g \in hs
  OBVIOUS
<1>1. DOMAIN AsMap(gs) = {x.name : x \in gs} /\ DOMAIN AsMap(hs) = {x.name : x \in hs}
  BY DEF AsMap
<1>2. PICK h \in hs : h.name = g.name
  BY <1>1
<1>3. AsMap(gs)[g.name] = g.after
  <2>1. PICK x : x = CHOOSE y \in gs : y.name = g.name
    OBVIOUS
  <2>2. x = g
    BY <2>1 DEF OneOfName
  <2>3. QED
    BY <2>1, <2>2 DEF AsMap
<1>4. AsMap(hs)[g.name] = h.after
  <2>1. PICK x : x = CHOOSE y \in hs : y.name = g.name
    OBVIOUS
  <2>2. x = h
    BY <1>2, <2>1 DEF OneOfName
  <2>3. QED
    BY <1>2, <2>1, <2>2 DEF AsMap
<1>5. g = [name |-> g.name, after |-> g.after] /\ h = [name |-> h.name, after |-> h.after]
  BY DEF IsGroups
<1>6. g = h
  BY <1>2, <1>3, <1>4, <1>5
<1>7. QED
  BY <1>6

LEMMA OneUserGroupOfName ==
  ASSUME NEW w, DistinctNodes(w.nodes)
  PROVE  OneOfName(WithDefault(UserGroups(w)))
<1>1. OneOfName(UserGroups(w))
  BY DEF UserGroups, OneOfName, DistinctNodes
<1>2. QED
  BY <1>1 DEF OneOfName, WithDefault

\* The dialog does not close without a question while it holds something that the
\* user has done, and that saving would keep.
THEOREM EditsAreNoticed == Spec => []UnsavedChangesNoticed
<1>1. TypeInv => UnsavedChangesNoticed
  <2> SUFFICES ASSUME TypeInv, InDialog, Distinct(groups), ~window.clashed,
                      ~HasUnsavedChanges(window)
               PROVE  /\ WithDefault(UserGroups(window)) = groups
                      /\ window.moved = {} /\ window.layout # "own"
    BY DEF UnsavedChangesNoticed
  <2>1. IsDialog(window) /\ IsGroups(groups)
    BY DialogIsDialog DEF TypeInv, TypeOK
  <2> DEFINE saved == WithDefault(UserGroups(window))
  <2>2. IsGroups(saved) /\ OneOfName(saved)
    BY <2>1, UserGroupsIsGroups, WithDefaultIsGroups, OneUserGroupOfName DEF IsDialog
  <2>3. OneOfName(groups)
    BY DEF Distinct, OneOfName
  <2>4. window.moved = {} /\ AsMap(groups) = AsMap(saved)
        /\ IF positions = {} THEN ~window.dragged ELSE window.layout = "saved"
    BY DEF HasUnsavedChanges, GroupsChanged
  <2> HIDE DEF saved
  <2>5. saved = groups
    BY <2>1, <2>2, <2>3, <2>4, AsMapTells
  <2>6. window.layout # "own"
    BY <2>1, <2>4 DEF IsDialog
  <2>7. QED
    BY <2>4, <2>5, <2>6 DEF saved
<1>2. QED
  BY <1>1, TypeInit, TypeStep, PTL DEF Spec

-----------------------------------------------------------------------------
(* The metadata editor without edits.                                       *)

\* What is saved keeps the rows, and the group if there is one of its name: the
\* group that the masterlist puts the plugin in is left out, and is the plugin's
\* group then.
THEOREM UneditedPaneKeeps == Spec => SavePaneKeeps
<1> DEFINE p == window.plugin
           Kept == /\ plugins'[p].rows = plugins[p].rows
                   /\ GroupIn(plugins, p) \in GroupNames =>
                        GroupIn(plugins', p) = GroupIn(plugins, p)
                   /\ \A q \in Plugins \ {p} : plugins'[q] = plugins[q]
<1>1. ASSUME TypeInv, [Next]_vars, InPane, ~window.edited, plugins' # plugins
      PROVE  Kept
  <2>1. IsPane(window) /\ IsPlugins(plugins) /\ p \in Plugins
    BY <1>1, PaneIsPane, InstalledAssumption DEF TypeInv, TypeOK, IsPane
  <2>2. ~InDialog /\ window # NoWindow
    BY <1>1, <2>1 DEF InDialog, InPane, IsPane
  <2>3. SavePane
    BY <1>1, <2>2, Zenon DEF Next, vars, OpenGroups, AddGroup, RenameGroup, AddPlugins,
       AutoArrange, SaveGroups, CloseGroups, OpenPane, ClearPlugin, CanOpen, ChooseGroup,
       InsertRow, DropPlugin, RemoveRow, EditRow, SetRows, Edit, Show, CancelPane
  <2>4. PICK group : group = PaneGroup(window)
    OBVIOUS
  <2>5. plugins' = [plugins EXCEPT ![p] = [group |-> group, rows |-> window.rows]]
    BY <2>3, <2>4 DEF SavePane, PaneMetadata
  <2>6. /\ plugins'[p] = [group |-> group, rows |-> window.rows]
        /\ \A q \in Plugins \ {p} : plugins'[q] = plugins[q]
    BY <2>1, <2>5 DEF IsPlugins
  <2>7. window.text = GroupText(p) /\ window.rows = plugins[p].rows
    BY <1>1, <2>1 DEF IsPane
  <2>8. ASSUME GroupIn(plugins, p) \in GroupNames
        PROVE  GroupIn(plugins', p) = GroupIn(plugins, p)
    <3>1. window.text = GroupIn(plugins, p)
      BY <2>7, <2>8 DEF GroupText, GroupIn, Effective, NonUserGroup
    <3>2. group = IF window.text = NonUserGroup(p) THEN NoGroup ELSE window.text
      BY <2>4 DEF PaneGroup
    <3>3. GroupIn(plugins', p) = IF group # NoGroup THEN group ELSE NonUserGroup(p)
      BY <2>6 DEF GroupIn, Effective, NonUserGroup
    <3>4. GroupIn(plugins, p) # NonUserGroup(p) => GroupIn(plugins, p) # NoGroup
      BY DEF GroupIn, Effective, NonUserGroup
    <3>5. QED
      BY <3>1, <3>2, <3>3, <3>4
  <2>9. QED
    BY <2>6, <2>7, <2>8
<1>2. TypeInv /\ [Next]_vars =>
        [InPane /\ ~window.edited /\ plugins' # plugins => Kept]_vars
  BY <1>1
<1>3. QED
  BY <1>2, TypeInit, TypeStep, PTL DEF Spec, SavePaneKeeps

-----------------------------------------------------------------------------
(* What is saved is what is shown.                                          *)

\* The masterlist's groups are nodes as they were made, whatever the user does;
\* all other nodes are the user's.  Of the masterlist's load-afters only those
\* can be missing that a group has left which the masterlist does not define.
MasterlistNodes(ns) ==
  /\ \A n \in DOMAIN Masterlist :
       /\ <<n, 0>> \in DOMAIN ns
       /\ ns[<<n, 0>>].name = n /\ ns[<<n, 0>>].user = FALSE
  /\ \A i \in DOMAIN ns :
       \/ ns[i].user = TRUE
       \/ ns[i].user = FALSE /\ \E n \in DOMAIN Masterlist : i = <<n, 0>>
MasterlistEdges(es) ==
  \A e \in es :
    /\ e = Edge(e.src, e.dst, e.user)
    /\ \/ e.user = TRUE
       \/ e.user = FALSE /\ e \in GroupEdges(Masterlist, FALSE)
MasterlistKept(w) == MasterlistNodes(w.nodes) /\ MasterlistEdges(w.edges)
GraphInv == InDialog => MasterlistKept(window)

\* As many elements as a finite set has, that cover it, are all in it.
LEMMA CoverIsAll ==
  ASSUME NEW S, IsFiniteSet(S), NEW T \in SUBSET S, NEW U, NEW f \in [T -> U],
         \A s \in S : \E t \in T : f[t] = s
  PROVE  \A t \in T : f[t] \in S
<1> DEFINE R == {f[t] : t \in T}
<1>1. IsFiniteSet(T) /\ Cardinality(T) <= Cardinality(S)
  BY FS_Subset
<1>2. f \in Surjection(T, R)
  BY DEF Surjection
<1>3. IsFiniteSet(R) /\ Cardinality(R) <= Cardinality(T)
  BY <1>1, <1>2, FS_Surjection
<1>4. S \subseteq R
  OBVIOUS
<1> HIDE DEF R
<1>5. Cardinality(S) <= Cardinality(R) /\ (Cardinality(S) = Cardinality(R) => S = R)
  BY <1>3, <1>4, FS_Subset
<1>6. Cardinality(S) \in Nat /\ Cardinality(T) \in Nat /\ Cardinality(R) \in Nat
  BY <1>1, <1>3, FS_CardinalityType
<1>7. S = R
  BY <1>1, <1>3, <1>5, <1>6
<1>8. QED
  BY <1>7 DEF R

\* An edge that is not the user's is a load-after of the masterlist.
LEMMA MasterlistEdgeIs ==
  ASSUME NEW w, MasterlistKept(w), NEW e \in w.edges, e.user = FALSE
  PROVE  \E n, m : /\ n \in DOMAIN Masterlist /\ m \in Masterlist[n]
                   /\ e = Edge(<<m, 0>>, <<n, 0>>, FALSE)
<1>1. e \in GroupEdges(Masterlist, FALSE)
  BY DEF MasterlistKept, MasterlistEdges
<1>2. PICK n \in DOMAIN Masterlist :
        e \in {Edge(<<m, 0>>, <<n, 0>>, FALSE) : m \in Masterlist[n]}
  BY <1>1 DEF GroupEdges
<1>3. PICK m \in Masterlist[n] : e = Edge(<<m, 0>>, <<n, 0>>, FALSE)
  BY <1>2
<1>4. QED
  BY <1>3

\* If the masterlist's load-afters are all shown, no others are shown as such.
LEMMA MasterlistShownOnly ==
  ASSUME NEW w, IsDialog(w), MasterlistKept(w), MasterlistShown(w),
         NEW e \in w.edges, e.user = FALSE
  PROVE  /\ w.nodes[e.dst].name \in DOMAIN Masterlist
         /\ w.nodes[e.src].name \in Masterlist[w.nodes[e.dst].name]
<1>1. PICK n, m : /\ n \in DOMAIN Masterlist /\ m \in Masterlist[n]
                  /\ e = Edge(<<m, 0>>, <<n, 0>>, FALSE)
  BY MasterlistEdgeIs
<1> DEFINE S == Masterlist[n]
           Kept(x) == Edge(<<x, 0>>, <<n, 0>>, FALSE) \in w.edges
           T == {x \in S : Kept(x)}
           f == [x \in T |-> w.nodes[<<x, 0>>].name]
<1>2. w.nodes[<<n, 0>>].name = n
  BY <1>1 DEF MasterlistKept, MasterlistNodes
<1>3. IsFiniteSet(S)
  BY <1>1, MasterlistAssumption
<1>4. ASSUME NEW s \in S
      PROVE  \E t \in T : f[t] = s
  <2>1. Edge(s, n, FALSE) \in Shown(w).edges
    BY <1>1, <1>4 DEF MasterlistShown
  <2>2. PICK d \in w.edges :
          Edge(w.nodes[d.src].name, w.nodes[d.dst].name, d.user) = Edge(s, n, FALSE)
    BY <2>1 DEF Shown
  <2>3. w.nodes[d.src].name = s /\ w.nodes[d.dst].name = n /\ d.user = FALSE
    BY <2>2 DEF Edge
  <2>4. PICK k, x : /\ k \in DOMAIN Masterlist /\ x \in Masterlist[k]
                    /\ d = Edge(<<x, 0>>, <<k, 0>>, FALSE)
    BY <2>3, MasterlistEdgeIs
  <2>5. d.src = <<x, 0>> /\ d.dst = <<k, 0>>
    BY <2>4 DEF Edge
  <2>6. k = n
    BY <2>3, <2>4, <2>5 DEF MasterlistKept, MasterlistNodes
  <2>7. x \in T
    BY <2>4, <2>6
  <2>8. f[x] = s
    BY <2>3, <2>5, <2>7
  <2>9. QED
    BY <2>7, <2>8
<1>5. m \in T /\ f[m] = w.nodes[<<m, 0>>].name
  BY <1>1
<1>6. \A t \in T : f[t] \in S
  <2>1. PICK U : U = {f[t] : t \in T}
    OBVIOUS
  <2>2. T \in SUBSET S /\ f \in [T -> U]
    BY <2>1
  <2> HIDE DEF S, T, f
  <2>3. QED
    BY <1>3, <1>4, <2>2, CoverIsAll
<1>7. e.src = <<m, 0>> /\ e.dst = <<n, 0>>
  BY <1>1 DEF Edge
<1>8. QED
  BY <1>1, <1>2, <1>5, <1>6, <1>7

\* What a group is saved to load after is what the user's edges show.
LEMMA SavedAfter ==
  ASSUME NEW w, IsDialog(w), MasterlistKept(w), NoLoops(w), NEW i \in DOMAIN w.nodes
  PROVE  AfterNode(w, i) = {w.nodes[e.src].name : e \in {d \in w.edges : d.dst = i /\ d.user = TRUE}}
<1>1. ASSUME NEW e \in w.edges, e.dst = i
      PROVE  /\ e.src # i
             /\ e.user \in BOOLEAN
             /\ w.nodes[i].user => e.user = TRUE
  <2>1. e.src # i
    BY <1>1 DEF NoLoops
  <2>2. ASSUME e.user = FALSE
        PROVE  w.nodes[i].user = FALSE
    <3>1. PICK n, m : /\ n \in DOMAIN Masterlist /\ m \in Masterlist[n]
                      /\ e = Edge(<<m, 0>>, <<n, 0>>, FALSE)
      BY <1>1, <2>2, MasterlistEdgeIs
    <3>2. i = <<n, 0>>
      BY <1>1, <3>1 DEF Edge
    <3>3. QED
      BY <3>1, <3>2 DEF MasterlistKept, MasterlistNodes
  <2>3. e.user = TRUE \/ e.user = FALSE
    BY <1>1 DEF MasterlistKept, MasterlistEdges
  <2>4. QED
    BY <2>1, <2>2, <2>3
<1>2. {d \in InEdges(w, i) : w.nodes[i].user \/ d.user}
        = {d \in w.edges : d.dst = i /\ d.user = TRUE}
  BY <1>1 DEF InEdges
<1>3. QED
  BY <1>2 DEF AfterNode

\* What the user's groups load after, when they are loaded again.
IsSavedAfter(w, after) ==
  /\ DOMAIN after = {w.nodes[i].name : i \in {j \in DOMAIN w.nodes : w.nodes[j].user}}
                      \cup {w.nodes[e.dst].name : e \in {d \in w.edges : d.user}}
                      \cup {Default}
  /\ \A n \in DOMAIN after : \A m :
       m \in after[n] <=>
         \E e \in w.edges : /\ e.user
                            /\ w.nodes[e.src].name = m /\ w.nodes[e.dst].name = n

\* Each load-after that is saved is a user's edge, and each of these is saved.
LEMMA SavedEdges ==
  ASSUME NEW w, IsDialog(w), MasterlistKept(w), NoLoops(w)
  PROVE  IsSavedAfter(w, LoadAfter(WithDefault(UserGroups(w))))
<1> DEFINE gs == UserGroups(w)
           hs == WithDefault(gs)
           after == LoadAfter(hs)
           Added(m, n) == \E e \in w.edges : /\ e.user
                                             /\ w.nodes[e.src].name = m
                                             /\ w.nodes[e.dst].name = n
<1>1. ASSUME NEW i \in DOMAIN w.nodes
      PROVE  /\ \A m : m \in AfterNode(w, i) <=>
                         \E e \in w.edges : e.dst = i /\ e.user /\ w.nodes[e.src].name = m
             /\ AfterNode(w, i) # {} <=> \E e \in w.edges : e.dst = i /\ e.user
  <2>1. \A e \in w.edges : e.user = TRUE \/ e.user = FALSE
    BY DEF MasterlistKept, MasterlistEdges
  <2>2. AfterNode(w, i) = {w.nodes[e.src].name : e \in {d \in w.edges : d.dst = i /\ d.user = TRUE}}
    BY SavedAfter
  <2>3. QED
    BY <2>1, <2>2
<1>2. \A e \in w.edges : e.src \in DOMAIN w.nodes /\ e.dst \in DOMAIN w.nodes
  BY DEF IsDialog
<1>3. \A g \in gs : \E i \in DOMAIN w.nodes :
        /\ g.name = w.nodes[i].name /\ g.after = AfterNode(w, i)
        /\ w.nodes[i].user \/ AfterNode(w, i) # {}
  BY DEF UserGroups
<1>4. \A i \in DOMAIN w.nodes : w.nodes[i].user \/ AfterNode(w, i) # {} =>
        \E g \in gs : g.name = w.nodes[i].name /\ g.after = AfterNode(w, i)
  <2>1. ASSUME NEW i \in DOMAIN w.nodes, w.nodes[i].user \/ AfterNode(w, i) # {}
        PROVE  [name |-> w.nodes[i].name, after |-> AfterNode(w, i)] \in gs
    BY <2>1 DEF UserGroups
  <2> HIDE DEF gs
  <2>2. QED
    BY <2>1
<1> HIDE DEF gs
<1>5. /\ \A g \in hs : g \in gs \/ (g.name = Default /\ g.after = {})
      /\ gs \subseteq hs /\ \E g \in hs : g.name = Default
  <2>1. CASE \E g \in gs : g.name = Default
    BY <2>1 DEF WithDefault
  <2>2. CASE ~\E g \in gs : g.name = Default
    <3>1. hs = gs \cup {[name |-> Default, after |-> {}]}
      BY <2>2 DEF WithDefault
    <3>2. PICK d : d = [name |-> Default, after |-> {}]
      OBVIOUS
    <3>3. d.name = Default /\ d.after = {} /\ hs = gs \cup {d}
      BY <3>1, <3>2
    <3> HIDE DEF hs
    <3>4. QED
      BY <3>3
  <2>3. QED
    BY <2>1, <2>2
<1> HIDE DEF hs
<1>6. DOMAIN after = {g.name : g \in hs}
  BY DEF LoadAfter
<1>7. \A n \in DOMAIN after : \A m :
        m \in after[n] <=> \E g \in hs : g.name = n /\ m \in g.after
  BY DEF LoadAfter
<1> HIDE DEF after
<1>8. \A n : n \in DOMAIN after <=>
        \/ \E i \in DOMAIN w.nodes : w.nodes[i].user /\ w.nodes[i].name = n
        \/ \E e \in w.edges : e.user /\ w.nodes[e.dst].name = n
        \/ n = Default
  <2>1. ASSUME NEW g \in gs
        PROVE  \/ \E i \in DOMAIN w.nodes : w.nodes[i].user /\ w.nodes[i].name = g.name
               \/ \E e \in w.edges : e.user /\ w.nodes[e.dst].name = g.name
    BY <1>1, <1>3
  <2>2. \A i \in DOMAIN w.nodes : w.nodes[i].user => \E g \in gs : g.name = w.nodes[i].name
    BY <1>4
  <2>3. \A e \in w.edges : e.user => \E g \in gs : g.name = w.nodes[e.dst].name
    BY <1>1, <1>2, <1>4
  <2>4. QED
    BY <1>5, <1>6, <2>1, <2>2, <2>3
<1>9. \A n \in DOMAIN after : \A m : m \in after[n] <=> Added(m, n)
  <2>1. ASSUME NEW g \in hs, NEW m \in g.after
        PROVE  Added(m, g.name)
    <3>1. PICK i \in DOMAIN w.nodes : g.name = w.nodes[i].name /\ g.after = AfterNode(w, i)
      BY <1>3, <1>5, <2>1
    <3>2. QED
      BY <1>1, <2>1, <3>1
  <2>2. ASSUME NEW e \in w.edges, e.user
        PROVE  \E g \in hs : g.name = w.nodes[e.dst].name /\ w.nodes[e.src].name \in g.after
    <3>1. e.dst \in DOMAIN w.nodes /\ w.nodes[e.src].name \in AfterNode(w, e.dst)
      BY <1>1, <1>2, <2>2
    <3>2. QED
      BY <1>4, <1>5, <3>1
  <2>3. QED
    BY <1>7, <2>1, <2>2
<1>10. DOMAIN after = {w.nodes[i].name : i \in {j \in DOMAIN w.nodes : w.nodes[j].user}}
                        \cup {w.nodes[e.dst].name : e \in {d \in w.edges : d.user}}
                        \cup {Default}
  BY <1>8
<1>11. IsSavedAfter(w, after)
  BY <1>9, <1>10 DEF IsSavedAfter
<1>12. QED
  BY <1>11 DEF after, hs, gs

\* Opening the groups editor on what was saved shows what was shown.
LEMMA ReopenedIsShown ==
  ASSUME NEW w, IsDialog(w), MasterlistKept(w), DistinctNodes(w.nodes), NoLoops(w),
         MasterlistShown(w)
  PROVE  Shown(Build(WithDefault(UserGroups(w)))) = Shown(w)
<1> DEFINE after == LoadAfter(WithDefault(UserGroups(w)))
           names == DOMAIN Masterlist \cup DOMAIN after \cup References(Masterlist)
                      \cup References(after)
           v == Build(WithDefault(UserGroups(w)))
           Node(n, user) == [name |-> n, user |-> user]
<1>0. IsSavedAfter(w, after)
  BY SavedEdges
<1>2. /\ DOMAIN v.nodes = {<<n, 0>> : n \in names}
      /\ \A n \in names : v.nodes[<<n, 0>>] = GroupNode(n, n \notin DOMAIN Masterlist)
      /\ v.edges = GroupEdges(Masterlist, FALSE) \cup GroupEdges(after, TRUE)
  BY DEF Build
<1>a. \A n \in names : /\ v.nodes[<<n, 0>>].name = n
                       /\ v.nodes[<<n, 0>>].user = (n \notin DOMAIN Masterlist)
  <2>1. ASSUME NEW n \in names
        PROVE  /\ v.nodes[<<n, 0>>].name = n
               /\ v.nodes[<<n, 0>>].user = (n \notin DOMAIN Masterlist)
    <3>1. PICK node : node = v.nodes[<<n, 0>>]
      OBVIOUS
    <3>2. node = GroupNode(n, n \notin DOMAIN Masterlist)
      BY <1>2, <3>1
    <3>3. node.name = n /\ node.user = (n \notin DOMAIN Masterlist)
      BY <3>2 DEF GroupNode
    <3>4. QED
      BY <3>1, <3>3, Zenon
  <2>2. QED
    BY <2>1
<1> HIDE DEF after, v
<1>1. /\ DOMAIN after = {w.nodes[i].name : i \in {j \in DOMAIN w.nodes : w.nodes[j].user}}
                          \cup {w.nodes[e.dst].name : e \in {d \in w.edges : d.user}}
                          \cup {Default}
      /\ \A n \in DOMAIN after : \A m :
           m \in after[n] <=>
             \E e \in w.edges : /\ e.user
                                /\ w.nodes[e.src].name = m /\ w.nodes[e.dst].name = n
  BY <1>0 DEF IsSavedAfter
<1>3. \A e \in w.edges : e.src \in DOMAIN w.nodes /\ e.dst \in DOMAIN w.nodes
  BY DEF IsDialog
<1>4. names = NodeNames(w.nodes)
  <2>1. DOMAIN Masterlist \subseteq NodeNames(w.nodes)
    BY DEF MasterlistKept, MasterlistNodes, NodeNames
  <2>2. Default \in DOMAIN Masterlist
    BY MasterlistAssumption
  <2>3. DOMAIN after \subseteq NodeNames(w.nodes)
    BY <1>1, <1>3, <2>1, <2>2 DEF NodeNames
  <2>4. References(after) \subseteq NodeNames(w.nodes)
    BY <1>1, <1>3 DEF NodeNames, References
  <2>5. ASSUME NEW n \in DOMAIN Masterlist, NEW m \in Masterlist[n]
        PROVE  m \in NodeNames(w.nodes)
    <3>1. Edge(m, n, FALSE) \in Shown(w).edges
      BY DEF MasterlistShown
    <3>2. PICK d \in w.edges :
            Edge(w.nodes[d.src].name, w.nodes[d.dst].name, d.user) = Edge(m, n, FALSE)
      BY <3>1 DEF Shown
    <3>3. w.nodes[d.src].name = m
      BY <3>2 DEF Edge
    <3>4. QED
      BY <1>3, <3>3 DEF NodeNames
  <2>6. References(Masterlist) \subseteq NodeNames(w.nodes)
    BY <2>5 DEF References
  <2>7. ASSUME NEW i \in DOMAIN w.nodes
        PROVE  w.nodes[i].name \in names
    <3>1. CASE w.nodes[i].user
      BY <1>1, <3>1
    <3>2. CASE ~w.nodes[i].user
      BY <3>2 DEF MasterlistKept, MasterlistNodes
    <3>3. QED
      BY <3>1, <3>2
  <2>8. QED
    BY <2>1, <2>3, <2>4, <2>6, <2>7 DEF NodeNames
<1>5. ASSUME NEW i \in DOMAIN w.nodes
      PROVE  w.nodes[i].user = (w.nodes[i].name \notin DOMAIN Masterlist)
  <2>1. CASE w.nodes[i].name \in DOMAIN Masterlist
    <3> DEFINE j == <<w.nodes[i].name, 0>>
    <3>1. j \in DOMAIN w.nodes /\ w.nodes[j].name = w.nodes[i].name /\ w.nodes[j].user = FALSE
      BY <2>1 DEF MasterlistKept, MasterlistNodes
    <3> HIDE DEF j
    <3>2. QED
      BY <2>1, <3>1 DEF DistinctNodes
  <2>2. CASE w.nodes[i].name \notin DOMAIN Masterlist
    BY <2>2 DEF MasterlistKept, MasterlistNodes
  <2>3. QED
    BY <2>1, <2>2
<1> HIDE DEF names
<1>6. Shown(v).nodes = Shown(w).nodes
  <2>2. {Node(v.nodes[i].name, v.nodes[i].user) : i \in DOMAIN v.nodes}
          = {Node(n, n \notin DOMAIN Masterlist) : n \in names}
    <3> HIDE DEF Node
    <3>1. QED
      <4>1. ASSUME NEW i \in DOMAIN v.nodes
            PROVE  \E n \in names :
                     Node(v.nodes[i].name, v.nodes[i].user) = Node(n, n \notin DOMAIN Masterlist)
        <5>1. PICK n \in names : i = <<n, 0>>
          BY <1>2
        <5>2. QED
          BY <1>a, <5>1, Zenon
      <4>2. ASSUME NEW n \in names
            PROVE  \E i \in DOMAIN v.nodes :
                     Node(v.nodes[i].name, v.nodes[i].user) = Node(n, n \notin DOMAIN Masterlist)
        <5>1. <<n, 0>> \in DOMAIN v.nodes
          BY <1>2
        <5>2. QED
          BY <1>a, <5>1, Zenon
      <4>3. QED
        BY <4>1, <4>2
  <2>3. {Node(w.nodes[i].name, w.nodes[i].user) : i \in DOMAIN w.nodes}
          = {Node(n, n \notin DOMAIN Masterlist) : n \in names}
    <3> HIDE DEF Node
    <3>1. QED
      <4>1. \A i \in DOMAIN w.nodes :
              Node(w.nodes[i].name, w.nodes[i].user)
                = Node(w.nodes[i].name, w.nodes[i].name \notin DOMAIN Masterlist)
        BY <1>5, Zenon
      <4>2. \A n : n \in names <=> \E i \in DOMAIN w.nodes : w.nodes[i].name = n
        BY <1>4 DEF NodeNames
      <4>3. QED
        BY <4>1, <4>2
  <2>4. \A x : Shown(x).nodes = {Node(x.nodes[i].name, x.nodes[i].user) : i \in DOMAIN x.nodes}
    BY DEF Shown
  <2>5. QED
    BY <2>2, <2>3, <2>4
<1>7. ASSUME NEW m, NEW n, NEW user
      PROVE  Edge(m, n, user) \in Shown(v).edges <=>
               \/ user = FALSE /\ n \in DOMAIN Masterlist /\ m \in Masterlist[n]
               \/ user = TRUE /\ n \in DOMAIN after /\ m \in after[n]
  <2>1. \A k \in names : v.nodes[<<k, 0>>].name = k
    BY <1>a
  <2>2. \A d \in v.edges : \E k, x :
          /\ d.src = <<x, 0>> /\ d.dst = <<k, 0>> /\ k \in names /\ x \in names
          /\ \/ d.user = FALSE /\ k \in DOMAIN Masterlist /\ x \in Masterlist[k]
             \/ d.user = TRUE /\ k \in DOMAIN after /\ x \in after[k]
    <3>1. ASSUME NEW f, NEW yes, NEW d \in GroupEdges(f, yes)
          PROVE  \E k, x : /\ d.src = <<x, 0>> /\ d.dst = <<k, 0>> /\ d.user = yes
                           /\ k \in DOMAIN f /\ x \in f[k] /\ x \in References(f)
      BY DEF GroupEdges, Edge, References
    <3>2. DOMAIN Masterlist \subseteq names /\ DOMAIN after \subseteq names
          /\ References(Masterlist) \subseteq names /\ References(after) \subseteq names
      BY DEF names
    <3>3. \A d \in v.edges :
            d \in GroupEdges(Masterlist, FALSE) \/ d \in GroupEdges(after, TRUE)
      BY <1>2
    <3>4. ASSUME NEW d \in v.edges
          PROVE  \E k, x :
            /\ d.src = <<x, 0>> /\ d.dst = <<k, 0>> /\ k \in names /\ x \in names
            /\ \/ d.user = FALSE /\ k \in DOMAIN Masterlist /\ x \in Masterlist[k]
               \/ d.user = TRUE /\ k \in DOMAIN after /\ x \in after[k]
      <4>1. CASE d \in GroupEdges(Masterlist, FALSE)
        <5>1. PICK k, x : /\ d.src = <<x, 0>> /\ d.dst = <<k, 0>> /\ d.user = FALSE
                          /\ k \in DOMAIN Masterlist /\ x \in Masterlist[k]
                          /\ x \in References(Masterlist)
          BY <3>1, <4>1
        <5>2. QED
          BY <3>2, <5>1
      <4>2. CASE d \in GroupEdges(after, TRUE)
        <5>1. PICK k, x : /\ d.src = <<x, 0>> /\ d.dst = <<k, 0>> /\ d.user = TRUE
                          /\ k \in DOMAIN after /\ x \in after[k]
                          /\ x \in References(after)
          BY <3>1, <4>2
        <5>2. QED
          BY <3>2, <5>1
      <4>3. QED
        BY <3>3, <4>1, <4>2
    <3>5. QED
      BY <3>4
  <2>3. \A f, yes, k, x : k \in DOMAIN f /\ x \in f[k] =>
          Edge(<<x, 0>>, <<k, 0>>, yes) \in GroupEdges(f, yes) /\ x \in References(f)
    BY DEF GroupEdges, References
  <2>4. ASSUME Edge(m, n, user) \in Shown(v).edges
        PROVE  \/ user = FALSE /\ n \in DOMAIN Masterlist /\ m \in Masterlist[n]
               \/ user = TRUE /\ n \in DOMAIN after /\ m \in after[n]
    <3>1. PICK d \in v.edges :
            Edge(m, n, user) = Edge(v.nodes[d.src].name, v.nodes[d.dst].name, d.user)
      BY <2>4 DEF Shown
    <3>2. m = v.nodes[d.src].name /\ n = v.nodes[d.dst].name /\ user = d.user
      BY <3>1 DEF Edge
    <3>3. QED
      BY <2>1, <2>2, <3>2
  <2>5. ASSUME \/ user = FALSE /\ n \in DOMAIN Masterlist /\ m \in Masterlist[n]
               \/ user = TRUE /\ n \in DOMAIN after /\ m \in after[n]
        PROVE  Edge(m, n, user) \in Shown(v).edges
    <3> DEFINE d == Edge(<<m, 0>>, <<n, 0>>, user)
    <3>1. d \in v.edges /\ m \in names /\ n \in names
      BY <1>2, <2>3, <2>5 DEF names
    <3>2. d.src = <<m, 0>> /\ d.dst = <<n, 0>> /\ d.user = user
      BY DEF Edge
    <3> HIDE DEF d
    <3>3. Edge(v.nodes[d.src].name, v.nodes[d.dst].name, d.user) = Edge(m, n, user)
      BY <2>1, <3>1, <3>2
    <3>4. QED
      BY <3>1, <3>3 DEF Shown
  <2>6. QED
    BY <2>4, <2>5
<1>8. ASSUME NEW m, NEW n, NEW user
      PROVE  Edge(m, n, user) \in Shown(w).edges <=>
               \/ user = FALSE /\ n \in DOMAIN Masterlist /\ m \in Masterlist[n]
               \/ user = TRUE /\ n \in DOMAIN after /\ m \in after[n]
  <2>1. Edge(m, n, user) \in Shown(w).edges <=>
          \E e \in w.edges : /\ w.nodes[e.src].name = m /\ w.nodes[e.dst].name = n
                             /\ e.user = user
    BY DEF Shown, Edge
  <2>2. \A e \in w.edges : e.user = TRUE \/ e.user = FALSE
    BY DEF MasterlistKept, MasterlistEdges
  <2>3. (\E e \in w.edges : /\ w.nodes[e.src].name = m /\ w.nodes[e.dst].name = n
                            /\ e.user = TRUE)
          <=> n \in DOMAIN after /\ m \in after[n]
    BY <1>1, <2>2
  <2>4. (\E e \in w.edges : /\ w.nodes[e.src].name = m /\ w.nodes[e.dst].name = n
                            /\ e.user = FALSE)
          <=> n \in DOMAIN Masterlist /\ m \in Masterlist[n]
    <3>1. n \in DOMAIN Masterlist /\ m \in Masterlist[n] => Edge(m, n, FALSE) \in Shown(w).edges
      BY DEF MasterlistShown
    <3>2. Edge(m, n, FALSE) \in Shown(w).edges =>
            \E e \in w.edges : /\ w.nodes[e.src].name = m /\ w.nodes[e.dst].name = n
                               /\ e.user = FALSE
      BY DEF Shown, Edge
    <3>3. QED
      BY <3>1, <3>2, MasterlistShownOnly
  <2>5. QED
    BY <2>1, <2>2, <2>3, <2>4
<1>9. Shown(v).edges = Shown(w).edges
  <2> DEFINE Is(m, n, user) ==
        \/ user = FALSE /\ n \in DOMAIN Masterlist /\ m \in Masterlist[n]
        \/ user = TRUE /\ n \in DOMAIN after /\ m \in after[n]
  <2>1. \A m, n, user : Edge(m, n, user) \in Shown(v).edges <=> Is(m, n, user)
    BY <1>7
  <2>2. \A m, n, user : Edge(m, n, user) \in Shown(w).edges <=> Is(m, n, user)
    BY <1>8
  <2>3. \A x : \A d \in Shown(x).edges : \E m, n, user : d = Edge(m, n, user)
    BY DEF Shown
  <2> HIDE DEF Is
  <2>4. PICK A, B : A = Shown(v).edges /\ B = Shown(w).edges
    OBVIOUS
  <2>5. ASSUME NEW d
        PROVE  d \in A <=> d \in B
    BY <2>1, <2>2, <2>3, <2>4
  <2>6. QED
    BY <2>4, <2>5
<1>10. QED
  <2>1. \A x : Shown(x) = [nodes |-> Shown(x).nodes, edges |-> Shown(x).edges]
    BY DEF Shown
  <2>2. QED
    BY <1>6, <1>9, <2>1, Zenon DEF v

\* The editor opens with the masterlist's groups and load-afters as they are.
LEMMA BuildIsKept ==
  ASSUME NEW gs
  PROVE  MasterlistKept(Build(gs))
<1> DEFINE after == LoadAfter(gs)
           names == DOMAIN Masterlist \cup DOMAIN after \cup References(Masterlist)
                      \cup References(after)
           w == Build(gs)
<1>1. /\ DOMAIN w.nodes = {<<n, 0>> : n \in names}
      /\ \A n \in names : w.nodes[<<n, 0>>] = GroupNode(n, n \notin DOMAIN Masterlist)
      /\ w.edges = GroupEdges(Masterlist, FALSE) \cup GroupEdges(after, TRUE)
  BY DEF Build
<1>2. DOMAIN Masterlist \subseteq names
  OBVIOUS
<1> HIDE DEF names, w
<1>3. \A n \in names : /\ w.nodes[<<n, 0>>].name = n
                       /\ w.nodes[<<n, 0>>].user = (n \notin DOMAIN Masterlist)
  <2>1. ASSUME NEW n \in names
        PROVE  /\ w.nodes[<<n, 0>>].name = n
               /\ w.nodes[<<n, 0>>].user = (n \notin DOMAIN Masterlist)
    <3>1. PICK node : node = w.nodes[<<n, 0>>]
      OBVIOUS
    <3>2. node = GroupNode(n, n \notin DOMAIN Masterlist)
      BY <1>1, <3>1
    <3>3. node.name = n /\ node.user = (n \notin DOMAIN Masterlist)
      BY <3>2 DEF GroupNode
    <3>4. QED
      BY <3>1, <3>3, Zenon
  <2>2. QED
    BY <2>1
<1>4. MasterlistNodes(w.nodes)
  <2>1. \A n \in DOMAIN Masterlist :
          /\ <<n, 0>> \in DOMAIN w.nodes
          /\ w.nodes[<<n, 0>>].name = n /\ w.nodes[<<n, 0>>].user = FALSE
    BY <1>1, <1>2, <1>3
  <2>2. ASSUME NEW i \in DOMAIN w.nodes
        PROVE  \/ w.nodes[i].user = TRUE
               \/ w.nodes[i].user = FALSE /\ \E n \in DOMAIN Masterlist : i = <<n, 0>>
    <3>1. PICK n \in names : i = <<n, 0>>
      BY <1>1
    <3>2. w.nodes[i].user = (n \notin DOMAIN Masterlist)
      BY <1>3, <3>1
    <3>3. QED
      BY <3>1, <3>2
  <2>3. QED
    BY <2>1, <2>2 DEF MasterlistNodes
<1>5. MasterlistEdges(w.edges)
  <2>1. ASSUME NEW f, NEW user, NEW e \in GroupEdges(f, user)
        PROVE  e = Edge(e.src, e.dst, e.user) /\ e.user = user
    <3>1. PICK n \in DOMAIN f : e \in {Edge(<<m, 0>>, <<n, 0>>, user) : m \in f[n]}
      BY DEF GroupEdges
    <3>2. PICK m \in f[n] : e = Edge(<<m, 0>>, <<n, 0>>, user)
      BY <3>1
    <3>3. e.src = <<m, 0>> /\ e.dst = <<n, 0>> /\ e.user = user
      BY <3>2 DEF Edge
    <3>4. QED
      BY <3>2, <3>3
  <2>2. ASSUME NEW e \in w.edges
        PROVE  /\ e = Edge(e.src, e.dst, e.user)
               /\ \/ e.user = TRUE
                  \/ e.user = FALSE /\ e \in GroupEdges(Masterlist, FALSE)
    BY <1>1, <2>1
  <2>3. QED
    BY <2>2 DEF MasterlistEdges
<1>6. QED
  BY <1>4, <1>5 DEF MasterlistKept, w

LEMMA SameGraphIsKept ==
  ASSUME NEW w, MasterlistKept(w), NEW v, SameGraph(v, w)
  PROVE  MasterlistKept(v)
<1>1. MasterlistNodes(v.nodes)
  BY DEF MasterlistKept, MasterlistNodes, SameGraph
<1>2. QED
  BY <1>1 DEF MasterlistKept, SameGraph

LEMMA FlaggedIsSameGraph ==
  ASSUME NEW w, IsDialog(w), NEW name, NEW yes
  PROVE  SameGraph([w EXCEPT !.nodes = Flagged(@, name, yes)], w)
BY FlaggedNodes DEF SameGraph, IsDialog

\* The user edits no node and no edge of the masterlist; removing a group takes
\* its edges along.
LEMMA DialogKeepsMasterlist ==
  ASSUME TypeInv, InDialog, MasterlistKept(window)
  PROVE  /\ \A name \in NewNames : AddGroup(name) \/ RenameGroup(name)
                                     => MasterlistKept(window')
         /\ \A i \in DOMAIN nodes : Select(i) \/ RemoveGroup(i) \/ DragNode(i)
                                      => MasterlistKept(window')
         /\ \A i, j \in DOMAIN nodes : AddLoadAfter(i, j) => MasterlistKept(window')
         /\ \A e \in edges : RemoveLoadAfter(e) => MasterlistKept(window')
         /\ \A ps \in SUBSET Installed : AddPlugins(ps) => MasterlistKept(window')
         /\ AutoArrange => MasterlistKept(window')
<1>a. /\ IsDialog(window)
      /\ MasterlistNodes(nodes) /\ MasterlistEdges(edges)
  BY DialogIsDialog DEF TypeInv, MasterlistKept, nodes, edges
<1>b. ASSUME MasterlistNodes(window'.nodes), MasterlistEdges(window'.edges)
      PROVE  MasterlistKept(window')
  BY <1>b DEF MasterlistKept
<1>c. ASSUME SameGraph(window', window)
      PROVE  MasterlistKept(window')
  BY <1>c, SameGraphIsKept
<1>1. ASSUME NEW name \in NewNames, AddGroup(name)
      PROVE  MasterlistKept(window')
  <2> DEFINE id == <<name, IF <<name, 0>> \in DOMAIN nodes THEN 1 ELSE 0>>
             node == [name |-> name, user |-> TRUE, contains |-> FALSE]
             ns == [i \in DOMAIN nodes \cup {id} |-> IF i = id THEN node ELSE nodes[i]]
  <2>1. window' = [window EXCEPT !.nodes = ns] /\ id \notin DOMAIN nodes
    BY <1>1 DEF AddGroup, Edit, Show
  <2>2. node.user = TRUE
    OBVIOUS
  <2> HIDE DEF id, node
  <2>3. MasterlistNodes(ns)
    BY <1>a, <2>1, <2>2 DEF MasterlistNodes
  <2> HIDE DEF ns
  <2>4. QED
    BY <1>a, <1>b, <2>1, <2>3 DEF IsDialog, edges
<1>2. ASSUME NEW name \in NewNames, RenameGroup(name)
      PROVE  MasterlistKept(window')
  <2> DEFINE i == Find(nodes, window.selected)
             ns == [nodes EXCEPT ![i].name = name]
             moved == Move(window.moved, Members(window, window.selected), name)
             clashed == window.clashed \/ Named(nodes, name) \ {i} # {}
  <2>1. /\ window' = [window EXCEPT !.nodes[i].name = name, !.moved = moved,
                                    !.selected = name, !.clashed = clashed]
        /\ window.selected \in NodeNames(nodes) /\ nodes[i].user
    BY <1>2, Zenon DEF RenameGroup, Edit, Show
  <2>2. i \in DOMAIN nodes
    BY <2>1, FindFinds
  <2> HIDE DEF i, moved, clashed
  <2>3. /\ DOMAIN ns = DOMAIN nodes /\ ns[i].user = nodes[i].user
        /\ \A j \in DOMAIN nodes : j # i => ns[j] = nodes[j]
    BY <1>a, <2>2 DEF IsDialog, IsNodes, nodes
  <2>4. window'.nodes = ns /\ window'.edges = edges
    BY <1>a, <2>1 DEF IsDialog, nodes, edges
  <2> HIDE DEF ns
  <2>5. MasterlistNodes(ns)
    BY <1>a, <2>1, <2>2, <2>3 DEF MasterlistNodes
  <2>6. QED
    BY <1>a, <1>b, <2>4, <2>5
<1>3. ASSUME NEW i \in DOMAIN nodes, Select(i) \/ DragNode(i)
      PROVE  MasterlistKept(window')
  <2>1. SameGraph(window', window)
    BY <1>3, <1>a DEF Select, DragNode, Edit, Show, Selected, SameGraph, IsDialog
  <2>2. QED
    BY <2>1, <1>c
<1>4. ASSUME NEW i \in DOMAIN nodes, RemoveGroup(i)
      PROVE  MasterlistKept(window')
  <2> DEFINE w == WithoutNode(window, i)
  <2>1. /\ w.nodes = [j \in DOMAIN nodes \ {i} |-> nodes[j]]
        /\ w.edges = {e \in edges : e.src # i /\ e.dst # i}
        /\ DOMAIN w = DOMAIN window
    BY <1>a DEF WithoutNode, IsDialog, nodes, edges
  <2>2. /\ window' = [w EXCEPT !.selected = IF @ = nodes[i].name THEN NoGroup ELSE @]
        /\ nodes[i].user
    BY <1>4 DEF RemoveGroup, Edit, Show, Deselected
  <2> HIDE DEF w
  <2>3. window'.nodes = w.nodes /\ window'.edges = w.edges
    BY <2>1, <2>2 DEF IsDialog
  <2>4. MasterlistNodes(w.nodes)
    BY <1>a, <2>1, <2>2 DEF MasterlistNodes
  <2>5. MasterlistEdges(w.edges)
    BY <1>a, <2>1 DEF MasterlistEdges
  <2>6. QED
    BY <1>b, <2>3, <2>4, <2>5
<1>5. ASSUME NEW i \in DOMAIN nodes, NEW j \in DOMAIN nodes, AddLoadAfter(i, j)
      PROVE  MasterlistKept(window')
  <2>1. window'.nodes = nodes /\ window'.edges = edges \cup {Edge(i, j, TRUE)}
    BY <1>5, <1>a DEF AddLoadAfter, Edit, Show, Selected, IsDialog, nodes, edges
  <2>2. PICK d : d = Edge(i, j, TRUE)
    OBVIOUS
  <2>3. d = Edge(d.src, d.dst, d.user) /\ d.user = TRUE
    BY <2>2 DEF Edge
  <2>4. MasterlistEdges(window'.edges)
    BY <1>a, <2>1, <2>2, <2>3 DEF MasterlistEdges
  <2>5. QED
    BY <1>a, <1>b, <2>1, <2>4
<1>6. ASSUME NEW e \in edges, RemoveLoadAfter(e)
      PROVE  MasterlistKept(window')
  <2>1. window'.nodes = nodes /\ window'.edges \subseteq edges
    BY <1>6, <1>a DEF RemoveLoadAfter, Edit, Show, IsDialog, nodes, edges
  <2>2. QED
    BY <1>a, <1>b, <2>1 DEF MasterlistEdges
<1>7. ASSUME NEW ps \in SUBSET Installed, AddPlugins(ps)
      PROVE  MasterlistKept(window')
  <2> DEFINE name == window.selected
             added == WithPlugins(window, ps, name)
  <2>1. IsName(name)
    BY <1>7, <1>a DEF AddPlugins, IsDialog, IsNodes, NodeNames
  <2>2. IsDialog(added) /\ SameGraph(added, window)
    BY <1>a, <2>1, AddPluginsIsDialog, Zenon
  <2>3. window' = [added EXCEPT !.nodes = Flagged(@, name, TRUE)]
    BY <1>7, Zenon DEF AddPlugins, Edit, Show
  <2> HIDE DEF added, name
  <2>4. SameGraph([added EXCEPT !.nodes = Flagged(@, name, TRUE)], added)
    BY <2>2, FlaggedIsSameGraph, Zenon
  <2>5. SameGraph(window', window)
    BY <2>2, <2>3, <2>4 DEF SameGraph
  <2>6. QED
    BY <1>c, <2>5
<1>8. ASSUME AutoArrange
      PROVE  MasterlistKept(window')
  <2>1. SameGraph(window', window)
    BY <1>8, <1>a DEF AutoArrange, Edit, Show, Arranged, SameGraph, IsDialog
  <2>2. QED
    BY <1>c, <2>1
<1>9. QED
  BY <1>1, <1>2, <1>3, <1>4, <1>5, <1>6, <1>7, <1>8, Zenon

\* Only the dialog changes the graph that it shows.
LEMMA GraphStep == TypeInv /\ GraphInv /\ [Next]_vars => GraphInv'
<1> SUFFICES ASSUME TypeInv, GraphInv, [Next]_vars PROVE GraphInv'
  OBVIOUS
<1>a. ASSUME window' = NoWindow \/ MasterlistKept(window') PROVE GraphInv'
  BY <1>a DEF GraphInv, InDialog
<1>b. ASSUME window'.kind = "pane" PROVE GraphInv'
  BY <1>b DEF GraphInv, InDialog
<1>1. CASE OpenGroups
  BY <1>1, <1>a, BuildIsKept DEF OpenGroups
<1>2. CASE InDialog /\ \/ \E name \in NewNames : AddGroup(name) \/ RenameGroup(name)
                       \/ \E i \in DOMAIN nodes : Select(i) \/ RemoveGroup(i) \/ DragNode(i)
                       \/ \E i, j \in DOMAIN nodes : AddLoadAfter(i, j)
                       \/ \E e \in edges : RemoveLoadAfter(e)
                       \/ \E ps \in (SUBSET Installed) \ {{}} : AddPlugins(ps)
                       \/ AutoArrange
  <2>1. MasterlistKept(window)
    BY <1>2 DEF GraphInv
  <2>2. MasterlistKept(window')
    BY <1>2, <2>1, DialogKeepsMasterlist
  <2>3. QED
    BY <1>a, <2>2
<1>3. CASE SaveGroups \/ CloseGroups \/ SavePane \/ CancelPane
  BY <1>3, <1>a DEF SaveGroups, CloseGroups, SavePane, CancelPane, Show
<1>4. CASE \E p \in Installed : OpenPane(p)
  BY <1>4, <1>b DEF OpenPane, Pane
<1>5. CASE \/ InPane /\ \E text \in window.listed : ChooseGroup(text)
           \/ InsertRow \/ \E v \in RowValues : DropPlugin(v)
           \/ \E row \in 1 .. Len(NonUserRows) + MaxEdits :
                RemoveRow(row) \/ \E v \in RowValues : EditRow(row, v)
  <2>1. InPane
    BY <1>5 DEF InsertRow, DropPlugin, RemoveRow, EditRow
  <2>2. IsPane(window)
    BY <2>1, PaneIsPane DEF TypeInv
  <2>3. \E text, rows : window' = [window EXCEPT !.text = text, !.edited = TRUE]
                        \/ window' = [window EXCEPT !.rows = rows, !.edited = TRUE]
    BY <1>5, Zenon DEF ChooseGroup, InsertRow, DropPlugin, RemoveRow, EditRow, SetRows, Edit, Show
  <2>4. QED
    BY <1>b, <2>2, <2>3 DEF IsPane
<1>6. CASE UNCHANGED window
  BY <1>6 DEF GraphInv, InDialog, MasterlistKept
<1>7. CASE \E p \in Installed : ClearPlugin(p)
  BY <1>6, <1>7 DEF ClearPlugin
<1>8. QED
  <2>1. ASSUME \/ \E name \in NewNames : AddGroup(name) \/ RenameGroup(name)
               \/ \E ps \in (SUBSET Installed) \ {{}} : AddPlugins(ps)
               \/ AutoArrange
        PROVE  InDialog
    BY <2>1 DEF AddGroup, RenameGroup, AddPlugins, AutoArrange
  <2>2. UNCHANGED vars => UNCHANGED window
    BY DEF vars
  <2>3. QED
    BY <1>1, <1>2, <1>3, <1>4, <1>5, <1>6, <1>7, <2>1, <2>2 DEF Next

\* The groups that are saved are the user's part of what the editor shows, and
\* the masterlist's part is made of the masterlist again.
THEOREM SavedGraphStays == Spec => SavedGraphIsReopened
<1>1. ASSUME TypeInv, GraphInv, [Next]_vars, InDialog, groups' # groups, ~window.clashed,
             NoLoops(window), MasterlistShown(window)
      PROVE  Shown(Build(groups')) = Shown(window)
  <2>1. IsDialog(window) /\ MasterlistKept(window)
    BY <1>1, DialogIsDialog DEF TypeInv, GraphInv
  <2>2. DistinctNodes(window.nodes)
    BY <1>1, <2>1 DEF IsDialog
  <2>3. SaveGroups
    BY <1>1, Zenon DEF Next, vars, OpenGroups, AddGroup, RenameGroup, Select, RemoveGroup,
       DragNode, AddLoadAfter, RemoveLoadAfter, AddPlugins, AutoArrange, CloseGroups, OpenPane,
       ClearPlugin, ChooseGroup, InsertRow, DropPlugin, RemoveRow, EditRow, SetRows, Edit, Show,
       SavePane, CancelPane
  <2>4. groups' = WithDefault(UserGroups(window))
    BY <2>3 DEF SaveGroups
  <2>5. Shown(Build(WithDefault(UserGroups(window)))) = Shown(window)
    BY <1>1, <2>1, <2>2, ReopenedIsShown
  <2>6. QED
    BY <2>4, <2>5
<1>2. TypeInv /\ GraphInv /\ [Next]_vars =>
        [InDialog /\ groups' # groups /\ ~window.clashed /\ NoLoops(window)
           /\ MasterlistShown(window) => Shown(Build(groups')) = Shown(window)]_vars
  BY <1>1
<1>3. Init => GraphInv
  BY DEF Init, GraphInv, InDialog
<1>4. QED
  BY <1>2, <1>3, TypeInit, TypeStep, GraphStep, PTL DEF Spec, SavedGraphIsReopened
=============================================================================
