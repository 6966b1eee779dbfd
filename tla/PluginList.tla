----------------------------- MODULE PluginList -----------------------------
(***************************************************************************)
(* The main window's list of plugin cards, with the filters of its sidebar  *)
(* and the search toolbar: PluginItemModel, the proxy PluginItemFilterModel, *)
(* FiltersWidget, SearchToolBar and the handlers of MainWindow that connect  *)
(* them.  Everything runs in the main thread, but one signal causes others:  *)
(* a handler here is the composition of all the slots that it reaches.      *)
(*                                                                         *)
(* The cards and general messages are those that Validation gives for an     *)
(* installation of a game, a card's details being named like the checkboxes  *)
(* that hide them.  A text is what it matches.                              *)
(***************************************************************************)
EXTENDS Validation, SequencesExt

CONSTANTS
  Games, Boxes,     \* the games, and the checkboxes that the user clicks on
  Stored,           \* the checkboxes that the last session may have left checked
  Installs,         \* what loading each game may find, as Validation describes it
  InitMessages,     \* the general messages that starting LOOT has given
  Official,         \* the official plugins of each game
  Texts, MatchedBy, \* the texts that are typed, and what each one matches
  Empty, AnyText,   \* no text, and texts that also match the empty string
  Invalid,          \* texts that are no valid regular expression
  Default,          \* the default group
  MaxEvents         \* bound: all but hidden messages being unhidden, a sorted order
                    \* being settled and clicks on the warnings filter and its boxes

ContentBoxes == {"versionNumbers", "crcs", "bashTags", "locations", "notes",
                 "officialPluginsCleaningMessages", "pluginMessages",
                 "showOnlyNewMessages"}
LoadAfterBoxes == {"loadAfterMetadata", "loadAfterUserMetadata"}
PluginBoxes == {"inactivePlugins", "messagelessPlugins", "creationClubPlugins",
                "showOnlyEmptyPlugins", "withoutLoadOrderMetadata"} \cup LoadAfterBoxes
\* The filters that "Show only warnings and errors" stands for.
WarningBoxes == {"bashTags", "locations", "notes", "messagelessPlugins"}
\* The filters that are on in a LootSettings::Filters that nothing was written to.
DefaultFilters == {"bashTags", "locations"}

ASSUME BoxesAssumption ==
  Boxes \subseteq ContentBoxes \cup PluginBoxes /\ Stored \subseteq SUBSET Boxes

\* Loading a game gives a list of plugins that is finite and has no gaps.
ASSUME InstallsAssumption ==
  \A g \in Games : \A x \in Installs[g] : Loaded(x) \in Seq(DOMAIN x.plugins)

VARIABLES
  list,    \* the model, the proxy, the search toolbar and the displayed counts
  widget,  \* the inputs of the sidebar's filters
  game,    \* the current game, or None before the first one is loaded
  hidden,  \* each game's hidden messages, as its settings hold them
  seen,    \* each game's file of old messages
  pending, \* the load order that a sorted one would replace, or None
  before,  \* its checkboxes as they were when the warnings filter was enabled, or
           \* DefaultFilters if that has not happened in this session
  events   \* the number of events so far, which MaxEvents bounds

vars == <<list, widget, game, hidden, seen, pending, before, events>>

-----------------------------------------------------------------------------
(* The model and its proxy. *)

\* Whether a message of a card, or a general message, is filtered out.
Hides(l, owner, m) ==
  \/ owner # None /\ "pluginMessages" \in l.content.boxes
  \/ m.type = "say" /\ "notes" \in l.content.boxes
  \/ /\ "officialPluginsCleaningMessages" \in l.content.boxes
     /\ m.source = "cleaningMetadata"
     /\ l.content.game # None /\ owner \in Official[l.content.game]
  \/ <<owner, m>> \in l.hidden
  \/ "showOnlyNewMessages" \in l.content.boxes /\ <<owner, m>> \in l.old

ShownMessages(l, card) == {m \in card.messages : ~Hides(l, card.name, m)}

\* filterContent: what a card shows.
Shown(l, card) ==
  [card EXCEPT !.details = @ \ l.content.boxes, !.messages = ShownMessages(l, card)]

\* containsText, and the same parts of a card in getContentToSearch.
Matches(card, text) ==
  \/ card.name \in MatchedBy[text].names
  \/ card.details \cap MatchedBy[text].details # {}
  \/ card.messages \cap MatchedBy[text].messages # {}

Accepts(l, card) ==
  LET filter == l.filter
  IN /\ "inactivePlugins" \in filter.boxes => "active" \in card.traits
     /\ "messagelessPlugins" \in filter.boxes => ShownMessages(l, card) # {}
     /\ "creationClubPlugins" \in filter.boxes => "creationClub" \notin card.traits
     /\ "showOnlyEmptyPlugins" \in filter.boxes => "empty" \in card.traits
     /\ "loadAfterMetadata" \in filter.boxes => "loadAfter" \in card.traits
     /\ "loadAfterUserMetadata" \in filter.boxes => "loadAfterUser" \in card.traits
     /\ "withoutLoadOrderMetadata" \in filter.boxes => "loadOrder" \notin card.traits
     /\ filter.group \in {None, IF card.group = None THEN Default ELSE card.group}
     /\ filter.text # Empty => Matches(Shown(l, card), filter.text)
     /\ filter.overlap # None => card.name \in l.overlapping

Rows(l) == DOMAIN l.items
Accepted(l) == {i \in Rows(l) : Accepts(l, l.items[i])}

\* The proxy filters all rows, or one that has changed.
Refilter(l) == [l EXCEPT !.visible = Accepted(l)]
RefilterRow(l, i) ==
  [l EXCEPT !.visible = IF Accepts(l, l.items[i]) THEN @ \cup {i} ELSE @ \ {i}]

\* getCurrentMessages.
CurrentMessages(l) ==
  {<<None, m>> : m \in l.general} \cup
    UNION {{<<l.items[i].name, m>> : m \in l.items[i].messages} : i \in Rows(l)}

Counts(l) ==
  [hiddenMessages |-> Cardinality({c \in CurrentMessages(l) : Hides(l, c[1], c[2])}),
   messages |-> Cardinality(CurrentMessages(l)),
   hiddenPlugins |-> Len(l.items) - Cardinality(l.visible),
   plugins |-> Len(l.items)]
UpdateCounts(l) == [l EXCEPT !.counts = Counts(l)]

-----------------------------------------------------------------------------
(* The search.  Results are marked on the model's rows, but looked for and   *)
(* cleared on the rows that the proxy shows.                                *)

\* setData: marking the current result again unmarks it as the current one.
SetCurrent(l, row) == [l EXCEPT !.current = IF @ = row THEN None ELSE row]

\* setCurrentSearchResult: the index counts all rows that are marked.
MarkCurrent(l, index) ==
  IF index >= Cardinality(l.results) THEN l
  ELSE SetCurrent(l, SetToSortSeq(l.results, <)[index + 1])

\* The toolbar's buttons, which do nothing without results.
Jump(l, index) == MarkCurrent([l EXCEPT !.position = index], index)
FindNext(l) ==
  IF l.count = 0 THEN l
  ELSE Jump(l, IF l.position = None \/ l.position >= l.count - 1 THEN 0
               ELSE l.position + 1)
FindPrevious(l) ==
  IF l.count = 0 THEN l
  ELSE Jump(l, IF l.position \in {None, 0} THEN l.count - 1 ELSE l.position - 1)

\* PluginItemFilterModel::setSearchResults.
SetResults(l, rows) ==
  [l EXCEPT !.results = (@ \ l.visible) \cup rows,
            !.current = IF @ \in l.visible THEN None ELSE @]

\* SearchToolBar::setSearchResults.
Announce(l, n) == FindNext([l EXCEPT !.count = n, !.position = None])

\* The cards are searched as they are before they are filtered.
Found(l) == {i \in l.visible : Matches(l.items[i], l.search)}

\* The general information card has no text, which is a match for some texts.
RefreshSearch(l) ==
  IF l.search = Empty THEN SetResults(l, {})
  ELSE Announce(SetResults(l, Found(l)),
                Cardinality(Found(l)) + IF l.search \in AnyText THEN 1 ELSE 0)

-----------------------------------------------------------------------------
(* What the signals of the model and the sidebar reach. *)

Redisplay(l) == RefreshSearch(UpdateCounts(l))

\* dataChanged of filtered content, and of the raw data of a card's row or of
\* the general information's.
ContentChanged(l) == Redisplay(Refilter(l))
SetCard(l, i, card) == Redisplay(RefilterRow([l EXCEPT !.items[i] = card], i))
SetGeneral(l, messages) == Redisplay([l EXCEPT !.general = messages])

\* setPluginItems clears the search's results, and has no data change.
SetPluginItems(l, items) ==
  Refilter([l EXCEPT !.items = items, !.results = {}, !.current = None])

\* Counting the rows before they are filtered.
SetFiltersState_CountsFirst(l, filter) ==
  RefreshSearch(Refilter(UpdateCounts([l EXCEPT !.filter = filter])))
SetFiltersState(l, filter) == Redisplay(Refilter([l EXCEPT !.filter = filter]))
SetOverlap(l, filter, names) ==
  SetFiltersState([l EXCEPT !.overlapping = names], filter)

PluginFilters(w) ==
  [boxes |-> w.checked \cap PluginBoxes, overlap |-> w.overlap, group |-> w.group,
   text |-> w.text]
ContentFilters(w, g) == [boxes |-> w.checked \cap ContentBoxes, game |-> g]

\* setComboBoxItems keeps the selected item if it is still there, and otherwise
\* selects none, which is not signalled.
Kept(selected, names) == IF selected \in names THEN selected ELSE None
Names(items) == {items[i].name : i \in DOMAIN items}
SetChoices(w, plugins, groups) ==
  [w EXCEPT !.plugins = plugins, !.overlap = Kept(@, plugins),
            !.groups = groups, !.group = Kept(@, groups)]

LoadedList(l, items, old, general) ==
  SetGeneral(ContentChanged([SetPluginItems(l, items) EXCEPT !.old = old]), general)

\* resetOverlapAndGroupsFilters
ResetCombos(w) == [w EXCEPT !.overlap = None, !.group = None]

-----------------------------------------------------------------------------
NoFilters == [boxes |-> {}, overlap |-> None, group |-> None, text |-> Empty]

\* A window without a game, whose filters are those of the last session.  Setting
\* them does not touch the memory of the warnings filter.
Init ==
  \E checked \in Stored :
    LET warnings == WarningBoxes \subseteq checked
        w == [checked |-> checked, warnings |-> warnings, memory |-> DefaultFilters,
              overlap |-> None, group |-> None, text |-> Empty, plugins |-> {}, groups |-> {}]
    IN /\ widget = w
       /\ list = [items |-> <<>>, general |-> {}, results |-> {}, current |-> None,
                  content |-> [boxes |-> {}, game |-> None], hidden |-> {}, old |-> {},
                  filter |-> NoFilters, overlapping |-> {}, visible |-> {},
                  search |-> Empty, count |-> 0, position |-> None,
                  counts |-> [hiddenMessages |-> 0, messages |-> 0,
                              hiddenPlugins |-> 0, plugins |-> 0]]
       /\ game = None
       /\ hidden = [g \in Games |-> {}]
       /\ seen = hidden
       /\ pending = None
       /\ before = DefaultFilters
       /\ events = 0

Event == events < MaxEvents /\ events' = events + 1

\* What loading a game's data may give.
Loads ==
  [g \in Games |->
     {[items |-> Cards(x), general |-> InitMessages \cup GeneralMessages(x),
       groups |-> x.groups] : x \in Installs[g]}]
Generals == [g \in Games |-> {data.general : data \in Loads[g]}]

\* handleGameDataLoaded, from a list and a sidebar that are l and w by then.
GameDataLoaded(l, w, data, old) ==
  /\ list' = LoadedList(l, data.items, old, data.general)
  /\ widget' = SetChoices(w, Names(data.items), data.groups)

\* The filters are applied before the first game's data is loaded.
Start(g) ==
  /\ game = None
  /\ game' = g
  /\ LET l == SetOverlap(ContentChanged([list EXCEPT
                  !.content = ContentFilters(widget, g), !.hidden = hidden[g]]),
                  PluginFilters(widget), {})
     IN \E data \in Loads[g] : GameDataLoaded(l, widget, data, seen[g])
  /\ UNCHANGED <<hidden, seen, pending, before, events>>

InGame == game # None
Idle == InGame /\ pending = None

\* The messages that are displayed are recorded as old before a game's data is
\* loaded again, and before another game is.
Record == seen' = [seen EXCEPT ![game] = CurrentMessages(list)]

\* Refreshing content, or an update of the current game's masterlist.
Reload ==
  /\ Idle /\ Event
  /\ Record
  /\ \E data \in Loads[game] : GameDataLoaded(list, widget, data, seen'[game])
  /\ UNCHANGED <<game, hidden, pending, before>>

\* The content filters' game and the hidden messages stay those of the old game.
ChangeGame(g) ==
  /\ Idle /\ g # game /\ Event
  /\ Record
  /\ game' = g
  /\ LET w == ResetCombos(widget)
         l == SetFiltersState(list, PluginFilters(w))
     IN \E data \in Loads[g] : GameDataLoaded(l, w, data, seen[g])
  /\ UNCHANGED <<hidden, pending, before>>

Order(items) == [i \in DOMAIN items |-> items[i].name]

\* The game's load order, which a sorted one has yet to replace.
LoadOrder == IF pending = None THEN Order(list.items) ELSE pending
CardOf(name) == CHOOSE c \in ToSet(list.items) : c.name = name
InLoadOrder == [k \in DOMAIN LoadOrder |-> CardOf(LoadOrder[k])]

\* Sorting may fail, and then only general messages change; it may find the same
\* order.
Sorted ==
  /\ Idle /\ Event
  /\ LET w == ResetCombos(widget)
         l == SetFiltersState(list, PluginFilters(w))
     IN \/ /\ \E general \in Generals[game] : list' = SetGeneral(l, general)
           /\ widget' = w
           /\ UNCHANGED pending
        \/ \E data \in Loads[game] :
             /\ Names(data.items) = Names(list.items)
             /\ pending' = IF Order(data.items) = Order(list.items) THEN None
                           ELSE Order(list.items)
             /\ GameDataLoaded(l, w, data, seen[game])
  /\ UNCHANGED <<game, hidden, seen, before>>

\* Applying the sorted order leaves the list as it is; discarding it puts the
\* cards in the load order again.
ApplySort ==
  /\ pending # None /\ pending' = None
  /\ UNCHANGED <<list, widget, game, hidden, seen, before, events>>
DiscardSort ==
  /\ pending # None /\ pending' = None
  /\ LET items == Numbered(InLoadOrder)
     IN \E general \in Generals[game] : list' = SetGeneral(SetPluginItems(list, items), general)
  /\ UNCHANGED <<widget, game, hidden, seen, before, events>>

\* Edits of metadata replace cards by ones that are made anew, with the index that
\* the plugin has among certain cards.  A sorted order may be pending.
Remade(i, among) ==
  LET old == list.items[i]
      k == SelectInSeq(among, LAMBDA c : c.name = old.name)
  IN {[c EXCEPT !.index = Index(among, k)] :
        c \in {c \in UNION {ToSet(data.items) : data \in Loads[game]} :
                 c.name = old.name /\ c.kind = old.kind /\ (Active(c) <=> Active(old))}}
Changes(rows, among) ==
  {f \in [rows -> UNION {Remade(i, among) : i \in rows}] :
     \A i \in rows : f[i] \in Remade(i, among)}
SetCards(l, cards) ==
  FoldLeftDomain(LAMBDA x, i : IF i \in DOMAIN cards THEN SetCard(x, i, cards[i]) ELSE x,
                 l, l.items)

EditMetadata(i) ==
  /\ InGame /\ Event
  /\ \E card \in Remade(i, InLoadOrder) : list' = SetCard(list, i, card)
  /\ UNCHANGED <<widget, game, hidden, seen, pending, before>>

\* The groups editor's changes do not reach the sidebar's groups.
AcceptGroups ==
  /\ InGame /\ Event
  /\ \E general \in Generals[game], rows \in SUBSET Rows(list) :
       \E cards \in Changes(rows, InLoadOrder) :
         list' = SetGeneral(SetCards(list, cards), general)
  /\ UNCHANGED <<widget, game, hidden, seen, pending, before>>

\* The cards that had user metadata are numbered among themselves.
ClearAllMetadata ==
  /\ InGame /\ Event
  /\ \E data \in Loads[game], rows \in SUBSET Rows(list) :
       LET names == {list.items[i].name : i \in rows}
           cleared == SelectSeq(InLoadOrder, LAMBDA c : c.name \in names)
       IN \E cards \in Changes(rows, cleared) :
            /\ widget' = SetChoices(widget, widget.plugins, data.groups)
            /\ list' = SetCards(SetGeneral(list, data.general), cards)
  /\ UNCHANGED <<game, hidden, seen, pending, before>>

HideMessage(owner, m) ==
  /\ InGame /\ Event
  /\ <<owner, m>> \in CurrentMessages(list) /\ ~Hides(list, owner, m)
  /\ hidden' = [hidden EXCEPT ![game] = @ \cup {<<owner, m>>}]
  /\ list' = UpdateCounts(ContentChanged([list EXCEPT !.hidden = @ \cup {<<owner, m>>}]))
  /\ UNCHANGED <<widget, game, seen, pending, before>>

\* All messages of the game, the general ones or a plugin's are unhidden.  The
\* model is given what the game's settings then hold.
Unhide(owners) ==
  /\ InGame
  /\ LET left == {h \in hidden[game] : h[1] \notin owners}
     IN /\ hidden[game] # left
        /\ hidden' = [hidden EXCEPT ![game] = left]
        /\ list' = ContentChanged([list EXCEPT !.hidden = left])
  /\ UNCHANGED <<widget, game, seen, pending, before, events>>

-----------------------------------------------------------------------------
(* The sidebar.  Checkboxes tell the model and the proxy which filters are   *)
(* on if one of theirs has changed.                                         *)

Shows(w) ==
  LET content == widget.checked \cap ContentBoxes # w.checked \cap ContentBoxes
      plugin == widget.checked \cap PluginBoxes # w.checked \cap PluginBoxes
      l == IF content THEN ContentChanged([list EXCEPT !.content = ContentFilters(w, game)])
           ELSE list
  IN /\ widget' = w
     /\ list' = IF plugin THEN SetFiltersState(l, PluginFilters(w)) ELSE l
     /\ UNCHANGED <<game, hidden, seen, pending>>

\* Filters on load order metadata being there and not being there exclude each
\* other.
Excluded(box) ==
  CASE box \in LoadAfterBoxes -> {"withoutLoadOrderMetadata"}
    [] box = "withoutLoadOrderMetadata" -> LoadAfterBoxes
    [] OTHER -> {}

\* Forgetting that a click on a checkbox can enable the warnings filter as well.
Toggled_Forgets(w, box) ==
  LET checked == IF box \in w.checked THEN w.checked \ {box}
                 ELSE (w.checked \ Excluded(box)) \cup {box}
  IN [w EXCEPT !.checked = checked, !.warnings = WarningBoxes \subseteq checked]

\* A click on a checkbox.  If it completes the warnings filter, the state that
\* disabling this filter goes back to is the one before the click.
Toggled(w, box) ==
  LET checked == IF box \in w.checked THEN w.checked \ {box}
                 ELSE (w.checked \ Excluded(box)) \cup {box}
      warnings == WarningBoxes \subseteq checked
  IN [w EXCEPT !.checked = checked, !.warnings = warnings,
               !.memory = IF warnings /\ ~w.warnings THEN WarningBoxes \ {box} ELSE @]

Click(box) ==
  /\ InGame
  /\ LET w == Toggled(widget, box)
     IN /\ Shows(w)
        /\ IF box \in WarningBoxes THEN UNCHANGED events ELSE Event
        /\ before' = IF w.warnings /\ ~widget.warnings THEN widget.checked \cap WarningBoxes
                      ELSE before

\* A click on the warnings filter.
WarningsOn(w) ==
  [w EXCEPT !.warnings = TRUE, !.memory = w.checked \cap WarningBoxes,
            !.checked = @ \cup WarningBoxes]
WarningsOff(w) ==
  [w EXCEPT !.warnings = FALSE, !.checked = @ \ (WarningBoxes \ w.memory)]

EnableWarnings ==
  /\ InGame /\ ~widget.warnings
  /\ Shows(WarningsOn(widget))
  /\ before' = widget.checked \cap WarningBoxes
  /\ UNCHANGED events
DisableWarnings ==
  /\ InGame /\ widget.warnings
  /\ Shows(WarningsOff(widget))
  /\ UNCHANGED <<before, events>>

\* The group's and the text's filters.
FilterBy(w) ==
  /\ InGame
  /\ Event
  /\ widget' = w
  /\ list' = SetFiltersState(list, PluginFilters(w))
  /\ UNCHANGED <<game, hidden, seen, pending, before>>
SelectGroup(group) == FilterBy([widget EXCEPT !.group = group])
EditContentFilter(text) == FilterBy([widget EXCEPT !.text = text])

\* The query for plugins that overlap loads the game's data again in its load
\* order.  It may fail, and the plugin is then selected without effect.
SelectOverlap(name) ==
  /\ InGame /\ Event
  /\ name \in widget.plugins \cup {None}
  /\ LET w == [widget EXCEPT !.overlap = name]
     IN \/ /\ name = None
           /\ widget' = w
           /\ list' = SetOverlap(list, PluginFilters(w), {})
        \/ /\ name # None
           /\ widget' = w
           /\ UNCHANGED list
        \/ /\ name # None
           /\ \E items \in {data.items : data \in Loads[game]},
                 overlapping \in SUBSET Names(list.items) :
                /\ Order(items) = LoadOrder
                /\ widget' = SetChoices(w, Names(items), w.groups)
                /\ list' = SetOverlap(LoadedList(list, items, seen[game], list.general),
                                      PluginFilters(widget'), overlapping)
  /\ UNCHANGED <<game, hidden, seen, pending, before>>

-----------------------------------------------------------------------------
(* The search toolbar. *)

\* What is not a valid regular expression is not searched for when it is typed,
\* and matches nothing when the search is refreshed.
Search(text) ==
  /\ InGame /\ Event
  /\ text # list.search
  /\ LET l == [list EXCEPT !.search = text]
     IN list' = IF text \in Invalid THEN l ELSE RefreshSearch(l)
  /\ UNCHANGED <<widget, game, hidden, seen, pending, before>>

\* The buttons are disabled if there are fewer than two results, the keyboard
\* shortcuts are not.
Step(l) ==
  /\ InGame /\ Event
  /\ list.count > 0
  /\ list' = l
  /\ UNCHANGED <<widget, game, hidden, seen, pending, before>>
ClickNext == Step(FindNext(list))
ClickPrevious == Step(FindPrevious(list))

-----------------------------------------------------------------------------
Next ==
  \/ \E g \in Games : Start(g) \/ ChangeGame(g)
  \/ Reload
  \/ Sorted
  \/ ApplySort
  \/ DiscardSort
  \/ \E i \in Rows(list) : EditMetadata(i)
  \/ AcceptGroups
  \/ ClearAllMetadata
  \/ \E message \in CurrentMessages(list) : HideMessage(message[1], message[2])
  \/ Unhide(Names(list.items) \cup {None})
  \/ \E owner \in Names(list.items) \cup {None} : Unhide({owner})
  \/ \E box \in Boxes : Click(box)
  \/ EnableWarnings
  \/ DisableWarnings
  \/ \E group \in widget.groups \cup {None} : SelectGroup(group)
  \/ \E text \in Texts : EditContentFilter(text)
  \/ \E name \in widget.plugins \cup {None} : SelectOverlap(name)
  \/ \E text \in Texts : Search(text)
  \/ ClickNext
  \/ ClickPrevious

Spec == Init /\ [][Next]_vars

-----------------------------------------------------------------------------
(* Properties. *)

\* What is shown is what the present filters, messages and search give.
Fresh(l) ==
  /\ l.visible = Accepted(l)
  /\ l.counts = Counts(l)
  /\ l.search \notin Invalid =>
       l.results \cap l.visible = IF l.search = Empty THEN {} ELSE Found(l)

\* Nothing that the window shows is stale once a handler has run: the rows are
\* those that the filters accept, the counts are of what is hidden now, and of
\* the rows shown those are marked as results that the search would find now.
\* Signals of five kinds lead here, each through slots of its own; the search of
\* an invalid regular expression is left as it was.
NothingStaleShown == InGame => Fresh(list)

\* Disabling the warnings filter directly leaves those of its filters checked that
\* were so when it was enabled, in whichever of the two ways that happened and
\* whatever was clicked before: what the comment in
\* on_showOnlyWarningsAndErrorsFilter_clicked promises.  If the last session left
\* it enabled and nobody has enabled it since, there is no such moment, and the
\* filters that are on by default stay checked: not those of any earlier state.
WarningsFilterRestores ==
  [][DisableWarnings =>
       widget'.checked \cap WarningBoxes = before]_vars
=============================================================================
