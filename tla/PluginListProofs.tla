--------------------------- MODULE PluginListProofs ---------------------------
(***************************************************************************)
(* That the window shows nothing stale once a handler has run, and that the  *)
(* warnings filter can be undone: both for any games, plugins, filters and   *)
(* texts, and for any number of events.  And about the messages that it      *)
(* shows, for every game, plugin, load order and limit: no unmet master and  *)
(* no shared load order index goes unreported, and installing or activating  *)
(* plugins never makes it worse.                                            *)
(***************************************************************************)
EXTENDS PluginList, FiniteSetTheorems, TLAPS

-----------------------------------------------------------------------------
(* Lists.  A handler is a composition of operators that each replace some     *)
(* fields of the list: each lemma says which fields stay, and what is fresh.  *)

ListFields ==
  {"items", "general", "results", "current", "content", "hidden", "old", "filter",
   "overlapping", "visible", "search", "count", "position", "counts"}

\* A list of cards, as Init makes it.
IsSequence(items) == \E n \in Nat : DOMAIN items = 1 .. n
IsList(l) == DOMAIN l = ListFields /\ IsSequence(l.items)

\* Two lists that hide the same messages; that accept the same cards; and that
\* display the same rows.
HidesSame(l, k) == l.content = k.content /\ l.hidden = k.hidden /\ l.old = k.old
AcceptsSame(l, k) ==
  HidesSame(l, k) /\ l.filter = k.filter /\ l.overlapping = k.overlapping
DisplaysSame(l, k) ==
  AcceptsSame(l, k) /\ l.items = k.items /\ l.general = k.general /\ l.visible = k.visible

LEMMA HidesSameMessages ==
  ASSUME NEW l, NEW k, HidesSame(l, k)
  PROVE  /\ \A owner, m : Hides(l, owner, m) <=> Hides(k, owner, m)
         /\ \A card : ShownMessages(l, card) = ShownMessages(k, card)
         /\ \A card : Shown(l, card) = Shown(k, card)
<1>1. ASSUME NEW owner, NEW m
      PROVE  Hides(l, owner, m) <=> Hides(k, owner, m)
  BY DEF HidesSame, Hides
<1>2. ASSUME NEW card
      PROVE  ShownMessages(l, card) = ShownMessages(k, card)
  BY <1>1 DEF ShownMessages
<1>3. ASSUME NEW card
      PROVE  Shown(l, card) = Shown(k, card)
  BY <1>2 DEF Shown, HidesSame
<1>4. QED
  BY <1>1, <1>2, <1>3

LEMMA AcceptsSameCards ==
  ASSUME NEW l, NEW k, AcceptsSame(l, k)
  PROVE  \A card : Accepts(l, card) <=> Accepts(k, card)
<1>1. \A card : ShownMessages(l, card) = ShownMessages(k, card)
                /\ Shown(l, card) = Shown(k, card)
  BY HidesSameMessages DEF AcceptsSame
<1>2. QED
  BY <1>1 DEF Accepts, AcceptsSame

LEMMA AcceptsSameRows ==
  ASSUME NEW l, NEW k, AcceptsSame(l, k), l.items = k.items
  PROVE  Accepted(l) = Accepted(k)
BY AcceptsSameCards DEF Accepted, Rows

LEMMA CountsSame ==
  ASSUME NEW l, NEW k, DisplaysSame(l, k)
  PROVE  Counts(l) = Counts(k)
<1>1. \A owner, m : Hides(l, owner, m) <=> Hides(k, owner, m)
  BY HidesSameMessages DEF DisplaysSame, AcceptsSame
<1>2. CurrentMessages(l) = CurrentMessages(k)
  BY DEF CurrentMessages, Rows, DisplaysSame
<1>3. {c \in CurrentMessages(l) : Hides(l, c[1], c[2])} =
        {c \in CurrentMessages(k) : Hides(k, c[1], c[2])}
  BY <1>1, <1>2
<1>4. QED
  BY <1>2, <1>3 DEF Counts, DisplaysSame

-----------------------------------------------------------------------------
(* The search. *)

\* Only what is marked as the current result, and the toolbar, change.
MarksOnly(l, k) ==
  /\ DisplaysSame(k, l) /\ k.search = l.search /\ k.results = l.results
  /\ k.counts = l.counts
  /\ IsList(k)

LEMMA JumpMarksOnly ==
  ASSUME NEW l, NEW index, IsList(l)
  PROVE  MarksOnly(l, Jump(l, index))
<1> DEFINE k == [l EXCEPT !.position = index]
<1>1. MarksOnly(l, k)
  BY DEF MarksOnly, IsList, ListFields, DisplaysSame, AcceptsSame, HidesSame
<1>2. \A row : MarksOnly(l, SetCurrent(k, row))
  BY <1>1 DEF SetCurrent, MarksOnly, IsList, ListFields, DisplaysSame, AcceptsSame, HidesSame
<1>3. QED
  BY <1>1, <1>2 DEF Jump, MarkCurrent

LEMMA FindMarksOnly ==
  ASSUME NEW l, IsList(l)
  PROVE  MarksOnly(l, FindNext(l)) /\ MarksOnly(l, FindPrevious(l))
<1>1. MarksOnly(l, l)
  BY DEF MarksOnly, DisplaysSame, AcceptsSame, HidesSame
<1>2. QED
  BY <1>1, JumpMarksOnly DEF FindNext, FindPrevious

LEMMA AnnounceMarksOnly ==
  ASSUME NEW l, NEW n, IsList(l)
  PROVE  MarksOnly(l, Announce(l, n))
<1> DEFINE k == [l EXCEPT !.count = n, !.position = None]
<1>1. MarksOnly(l, k)
  BY DEF MarksOnly, IsList, ListFields, DisplaysSame, AcceptsSame, HidesSame
<1>2. MarksOnly(k, FindNext(k))
  BY <1>1, FindMarksOnly DEF MarksOnly
<1>3. QED
  BY <1>1, <1>2 DEF Announce, MarksOnly, DisplaysSame, AcceptsSame, HidesSame

\* What a handler leaves of the list when it has searched it again.
Refreshed(l, k) ==
  DisplaysSame(k, l) /\ k.search = l.search /\ IsList(k)

LEMMA FoundSame ==
  ASSUME NEW l, NEW k, l.items = k.items, l.visible = k.visible, l.search = k.search
  PROVE  Found(l) = Found(k)
BY DEF Found

\* Searching again what is displayed marks what is found.
LEMMA RefreshSearchIsFresh ==
  ASSUME NEW l, IsList(l), l.visible = Accepted(l), l.counts = Counts(l)
  PROVE  Fresh(RefreshSearch(l)) /\ Refreshed(l, RefreshSearch(l))
<1> DEFINE rows == IF l.search = Empty THEN {} ELSE Found(l)
           k == SetResults(l, rows)
           n == Cardinality(Found(l)) + IF l.search \in AnyText THEN 1 ELSE 0
<1>1. /\ DisplaysSame(k, l) /\ k.search = l.search /\ k.counts = l.counts /\ IsList(k)
      /\ k.results = (l.results \ l.visible) \cup rows
  BY DEF SetResults, IsList, ListFields, DisplaysSame, AcceptsSame, HidesSame
<1>2. rows \subseteq l.visible
  BY DEF Found
<1>3. k.results \cap k.visible = rows
  BY <1>1, <1>2 DEF DisplaysSame
<1> DEFINE r == RefreshSearch(l)
<1>4. r = IF l.search = Empty THEN k ELSE Announce(k, n)
  BY DEF RefreshSearch
<1> HIDE DEF rows, n, k, r
<1>5. MarksOnly(k, k) /\ MarksOnly(k, Announce(k, n))
  BY <1>1, AnnounceMarksOnly DEF MarksOnly, DisplaysSame, AcceptsSame, HidesSame
<1>6. MarksOnly(k, r)
  BY <1>4, <1>5
<1>7. Refreshed(l, r)
  BY <1>1, <1>6 DEF Refreshed, MarksOnly, DisplaysSame, AcceptsSame, HidesSame
<1>8. Accepted(r) = Accepted(l) /\ Counts(r) = Counts(l) /\ Found(r) = Found(l)
  BY <1>7, AcceptsSameRows, CountsSame, FoundSame DEF Refreshed, DisplaysSame
<1>9. r.results \cap r.visible = rows
  BY <1>3, <1>6 DEF MarksOnly, DisplaysSame
<1>10. r.visible = Accepted(r)
  BY <1>7, <1>8 DEF Refreshed, DisplaysSame
<1>11. r.counts = Counts(r)
  BY <1>1, <1>6, <1>8 DEF MarksOnly
<1>12. r.results \cap r.visible = IF r.search = Empty THEN {} ELSE Found(r)
  BY <1>7, <1>8, <1>9 DEF Refreshed, rows
<1>13. QED
  BY <1>7, <1>10, <1>11, <1>12 DEF Fresh, r

-----------------------------------------------------------------------------
(* What the signals reach.  A list is up to date if it is a list and nothing  *)
(* that it shows is stale, and filtered if its rows are those accepted.      *)

UpToDate(l) == IsList(l) /\ Fresh(l)
Filtered(l) == IsList(l) /\ l.visible = Accepted(l)

LEMMA RedisplayIsFresh ==
  ASSUME NEW l, Filtered(l)
  PROVE  UpToDate(Redisplay(l)) /\ Refreshed(l, Redisplay(l))
<1> DEFINE k == UpdateCounts(l)
<1>1. DisplaysSame(k, l) /\ k.search = l.search /\ IsList(k) /\ k.counts = Counts(l)
  BY DEF Filtered, UpdateCounts, IsList, ListFields, DisplaysSame, AcceptsSame, HidesSame
<1> HIDE DEF k
<1>2. Accepted(k) = Accepted(l) /\ Counts(k) = Counts(l)
  BY <1>1, AcceptsSameRows, CountsSame DEF DisplaysSame
<1>3. k.visible = Accepted(k) /\ k.counts = Counts(k)
  BY <1>1, <1>2 DEF Filtered, DisplaysSame
<1>4. Fresh(RefreshSearch(k)) /\ Refreshed(k, RefreshSearch(k))
  BY <1>1, <1>3, RefreshSearchIsFresh
<1>5. Redisplay(l) = RefreshSearch(k)
  BY DEF Redisplay, k
<1>6. QED
  BY <1>1, <1>4, <1>5 DEF UpToDate, Refreshed, DisplaysSame, AcceptsSame, HidesSame

LEMMA RefilterFilters ==
  ASSUME NEW l, IsList(l)
  PROVE  Filtered(Refilter(l)) /\ Refilter(l).items = l.items
<1> DEFINE k == Refilter(l)
<1>1. AcceptsSame(k, l) /\ k.items = l.items /\ IsList(k) /\ k.visible = Accepted(l)
  BY DEF Refilter, IsList, ListFields, AcceptsSame, HidesSame
<1> HIDE DEF k
<1>2. Accepted(k) = Accepted(l)
  BY <1>1, AcceptsSameRows
<1>3. QED
  BY <1>1, <1>2 DEF Filtered, k

LEMMA ContentChangedIsFresh ==
  ASSUME NEW l, IsList(l)
  PROVE  UpToDate(ContentChanged(l)) /\ ContentChanged(l).items = l.items
<1>1. Filtered(Refilter(l)) /\ Refilter(l).items = l.items
  BY RefilterFilters
<1>2. QED
  BY <1>1, RedisplayIsFresh DEF ContentChanged, Refreshed, DisplaysSame

LEMMA FiltersStateIsFresh ==
  ASSUME NEW l, NEW filter, IsList(l)
  PROVE  /\ UpToDate(SetFiltersState(l, filter))
         /\ SetFiltersState(l, filter).items = l.items
<1> DEFINE k == [l EXCEPT !.filter = filter]
<1>1. IsList(k) /\ k.items = l.items
  BY DEF IsList, ListFields
<1>2. SetFiltersState(l, filter) = ContentChanged(k)
  BY DEF SetFiltersState, ContentChanged
<1> HIDE DEF k
<1>3. QED
  BY <1>1, <1>2, ContentChangedIsFresh

LEMMA OverlapIsFresh ==
  ASSUME NEW l, NEW filter, NEW names, IsList(l)
  PROVE  UpToDate(SetOverlap(l, filter, names))
<1> DEFINE k == [l EXCEPT !.overlapping = names]
<1>1. IsList(k)
  BY DEF IsList, ListFields
<1> HIDE DEF k
<1>2. UpToDate(SetFiltersState(k, filter))
  BY <1>1, FiltersStateIsFresh
<1>3. QED
  BY <1>2 DEF SetOverlap, k

\* General messages do not decide which rows are accepted.
LEMMA GeneralIsFresh ==
  ASSUME NEW l, NEW messages, Filtered(l)
  PROVE  UpToDate(SetGeneral(l, messages)) /\ SetGeneral(l, messages).items = l.items
<1> DEFINE k == [l EXCEPT !.general = messages]
<1>1. AcceptsSame(k, l) /\ k.items = l.items /\ k.visible = l.visible /\ IsList(k)
  BY DEF Filtered, IsList, ListFields, AcceptsSame, HidesSame
<1> HIDE DEF k
<1>2. Filtered(k)
  BY <1>1, AcceptsSameRows DEF Filtered
<1>3. UpToDate(Redisplay(k)) /\ Redisplay(k).items = k.items
  BY <1>2, RedisplayIsFresh DEF Refreshed, DisplaysSame
<1>4. QED
  BY <1>1, <1>3 DEF SetGeneral, k

\* Filtering the row of a card that is replaced again is enough, as whether a card
\* is accepted does not depend on the other rows.
LEMMA CardIsFresh ==
  ASSUME NEW l, NEW i \in Rows(l), NEW card, Filtered(l)
  PROVE  UpToDate(SetCard(l, i, card)) /\ Rows(SetCard(l, i, card)) = Rows(l)
<1> DEFINE k == [l EXCEPT !.items[i] = card]
           r == RefilterRow(k, i)
<1>1. /\ AcceptsSame(k, l) /\ k.visible = l.visible /\ DOMAIN k = ListFields
      /\ k.items = [l.items EXCEPT ![i] = card]
  BY DEF Filtered, IsList, ListFields, AcceptsSame, HidesSame
<1>2. /\ Rows(k) = Rows(l)
      /\ \A j \in Rows(k) : k.items[j] = IF j = i THEN card ELSE l.items[j]
  BY <1>1 DEF Rows
<1>3. IsList(k)
  BY <1>1, <1>2 DEF Filtered, IsList, IsSequence, Rows
<1> HIDE DEF k
<1>4. /\ AcceptsSame(r, k) /\ r.items = k.items /\ IsList(r)
      /\ r.visible = IF Accepts(k, k.items[i]) THEN k.visible \cup {i} ELSE k.visible \ {i}
  BY <1>3 DEF RefilterRow, IsList, ListFields, AcceptsSame, HidesSame
<1> HIDE DEF r
<1>5. \A x : Accepts(k, x) <=> Accepts(l, x)
  BY <1>1, AcceptsSameCards
<1>6. r.visible = Accepted(k)
  <2>1. l.visible = {j \in Rows(l) : Accepts(l, l.items[j])}
    BY DEF Filtered, Accepted
  <2>2. Accepted(k) = {j \in Rows(l) : Accepts(l, IF j = i THEN card ELSE l.items[j])}
    BY <1>2, <1>5 DEF Accepted
  <2>3. Accepts(k, k.items[i]) <=> Accepts(l, card)
    BY <1>2, <1>5
  <2>4. QED
    BY <1>1, <1>4, <2>1, <2>2, <2>3
<1>7. Filtered(r)
  BY <1>4, <1>6, AcceptsSameRows DEF Filtered
<1>8. UpToDate(Redisplay(r)) /\ Redisplay(r).items = r.items
  BY <1>7, RedisplayIsFresh DEF Refreshed, DisplaysSame
<1>9. SetCard(l, i, card) = Redisplay(r)
  BY DEF SetCard, r, k
<1>10. QED
  BY <1>2, <1>4, <1>8, <1>9 DEF Rows

LEMMA PluginItemsFilter ==
  ASSUME NEW l, NEW items, IsList(l), IsSequence(items)
  PROVE  Filtered(SetPluginItems(l, items))
<1> DEFINE k == [l EXCEPT !.items = items, !.results = {}, !.current = None]
<1>1. IsList(k)
  BY DEF IsList, ListFields
<1> HIDE DEF k
<1>2. Filtered(Refilter(k))
  BY <1>1, RefilterFilters
<1>3. QED
  BY <1>2 DEF SetPluginItems, k

LEMMA LoadedListIsFresh ==
  ASSUME NEW l, NEW items, NEW old, NEW general, IsList(l), IsSequence(items)
  PROVE  UpToDate(LoadedList(l, items, old, general))
<1> DEFINE k == [SetPluginItems(l, items) EXCEPT !.old = old]
<1>1. IsList(SetPluginItems(l, items))
  BY PluginItemsFilter DEF Filtered
<1>2. IsList(k)
  BY <1>1 DEF IsList, ListFields
<1> HIDE DEF k
<1>3. UpToDate(ContentChanged(k))
  BY <1>2, ContentChangedIsFresh
<1>4. Filtered(ContentChanged(k))
  BY <1>3 DEF UpToDate, Filtered, Fresh
<1>5. UpToDate(SetGeneral(ContentChanged(k), general))
  BY <1>4, GeneralIsFresh
<1>6. QED
  BY <1>5 DEF LoadedList, k

-----------------------------------------------------------------------------
(* Cards that are replaced in turn: what holds of the list before each is     *)
(* what holds after it.                                                     *)

CardStep(c, l, i) == IF i \in DOMAIN c.cards THEN SetCard(l, i, c.cards[i]) ELSE l
CardStepKeeps(c, k, l) == UpToDate(l) /\ Rows(l) = c.rows

CardFold == INSTANCE FoldLemmas WITH Op <- CardStep, P <- CardStepKeeps

LEMMA SetCardsFolds ==
  ASSUME NEW c, NEW l
  PROVE  SetCards(l, c.cards) = CardFold!Fold(c, l, [i \in Rows(l) |-> i])
BY Zenon DEF SetCards, FoldLeftDomain, FoldLeft, MapThenFoldSet, Max, CardStep, Rows,
   CardFold!Fold, CardFold!FoldLeft, CardFold!MapThenFoldSet, CardFold!Max

LEMMA CardsAreFresh ==
  ASSUME NEW l, NEW cards, UpToDate(l)
  PROVE  UpToDate(SetCards(l, cards))
<1> DEFINE c == [cards |-> cards, rows |-> Rows(l)]
           rows == [i \in Rows(l) |-> i]
<1>1. PICK n \in Nat : Rows(l) = 1 .. n
  BY DEF UpToDate, IsList, IsSequence, Rows
<1>2. SetCards(l, cards) = CardFold!Fold(c, l, rows)
  BY SetCardsFolds, c.cards = cards
<1>3. DOMAIN rows = 1 .. n
  BY <1>1
<1>4. CardStepKeeps(c, 0, l)
  BY DEF CardStepKeeps
<1>5. ASSUME NEW k \in 0 .. n - 1, NEW x, CardStepKeeps(c, k, x)
      PROVE  CardStepKeeps(c, k + 1, CardStep(c, x, rows[k + 1]))
  <2>1. k + 1 \in Rows(x) /\ rows[k + 1] = k + 1
    BY <1>1, <1>5 DEF CardStepKeeps
  <2>2. Filtered(x)
    BY <1>5 DEF CardStepKeeps, UpToDate, Filtered, Fresh
  <2>3. \A card : UpToDate(SetCard(x, k + 1, card)) /\ Rows(SetCard(x, k + 1, card)) = Rows(x)
    BY <2>1, <2>2, CardIsFresh
  <2>4. QED
    BY <1>5, <2>1, <2>3 DEF CardStepKeeps, CardStep
<1> HIDE DEF c, rows
<1>6. CardStepKeeps(c, n, CardFold!Fold(c, l, rows))
  BY <1>3, <1>4, <1>5, CardFold!FoldInduction
<1>7. QED
  BY <1>2, <1>6 DEF CardStepKeeps

-----------------------------------------------------------------------------
(* Nothing stale is shown.                                                  *)

\* The list has the form that Init gives it, also before the first game; a load
\* order that waits is one that the list had.
ListInv ==
  /\ IsList(list)
  /\ NothingStaleShown
  /\ pending # None => IsSequence(pending)

LEMMA ItemsAreLoaded ==
  ASSUME NEW g \in Games, NEW data \in Loads[g]
  PROVE  IsSequence(data.items)
<1>1. PICK x \in Installs[g] : data.items = Cards(x)
  BY DEF Loads
<1>2. Loaded(x) \in Seq(DOMAIN x.plugins)
  BY InstallsAssumption
<1>3. DOMAIN Cards(x) = 1 .. Len(Loaded(x)) /\ Len(Loaded(x)) \in Nat
  BY <1>2 DEF Cards, Numbered
<1>4. QED
  BY <1>1, <1>3 DEF IsSequence

\* What the handlers of loaded data give.
LEMMA LoadedIsFresh ==
  ASSUME NEW l, NEW w, NEW g \in Games, NEW data \in Loads[g], NEW old, IsList(l),
         GameDataLoaded(l, w, data, old)
  PROVE  UpToDate(list')
BY ItemsAreLoaded, LoadedListIsFresh DEF GameDataLoaded

LEMMA ListInvInit == Init => ListInv
<1> SUFFICES ASSUME Init PROVE ListInv
  OBVIOUS
<1>1. IsList(list)
  <2>1. DOMAIN list = ListFields /\ list.items = <<>>
    BY DEF Init, ListFields
  <2>2. DOMAIN <<>> = 1 .. 0
    OBVIOUS
  <2>3. QED
    BY <2>1, <2>2 DEF IsList, IsSequence
<1>2. ~InGame /\ pending = None
  BY DEF Init, InGame
<1>3. QED
  BY <1>1, <1>2 DEF ListInv, NothingStaleShown

\* Games are loaded in a game that exists.
GameKnown == InGame => game \in Games

LEMMA GameKnownInv == Spec => []GameKnown
<1>1. Init => GameKnown
  BY DEF Init, GameKnown, InGame
<1>2. GameKnown /\ [Next]_vars => GameKnown'
  <2> SUFFICES ASSUME GameKnown, [Next]_vars PROVE GameKnown'
    OBVIOUS
  <2>1. CASE \E g \in Games : Start(g) \/ ChangeGame(g)
    BY <2>1 DEF Start, ChangeGame, GameKnown
  <2>2. CASE UNCHANGED game
    BY <2>2 DEF GameKnown, InGame
  <2>3. QED
    BY <2>1, <2>2 DEF Next, vars, Reload, Sorted, ApplySort, DiscardSort, EditMetadata,
       AcceptGroups, ClearAllMetadata, HideMessage, Unhide, Click, EnableWarnings,
       DisableWarnings, Shows, SelectGroup, EditContentFilter, FilterBy, SelectOverlap,
       Search, ClickNext, ClickPrevious, Step
<1>3. QED
  BY <1>1, <1>2, PTL DEF Spec

\* An input of the sidebar that shows other rows.
LEMMA ShowsIsFresh ==
  ASSUME ListInv, InGame, NEW w, Shows(w)
  PROVE  UpToDate(list') /\ UNCHANGED pending
<1>1. UpToDate(list)
  BY DEF ListInv, NothingStaleShown, UpToDate
<1> DEFINE k == [list EXCEPT !.content = ContentFilters(w, game)]
<1>2. IsList(k)
  BY DEF ListInv, IsList, ListFields
<1> HIDE DEF k
<1>3. PICK l : /\ l \in {list, ContentChanged(k)}
               /\ list' \in {l, SetFiltersState(l, PluginFilters(w))}
  BY Zenon DEF Shows, k
<1>4. UpToDate(l)
  BY <1>1, <1>2, <1>3, ContentChangedIsFresh
<1>5. UpToDate(SetFiltersState(l, PluginFilters(w)))
  BY <1>4, FiltersStateIsFresh DEF UpToDate
<1>6. QED
  BY <1>3, <1>4, <1>5 DEF Shows

LEMMA ListInvStep == ListInv /\ GameKnown /\ [Next]_vars => ListInv'
<1> SUFFICES ASSUME ListInv, GameKnown, [Next]_vars
             PROVE  ListInv'
  OBVIOUS
<1>a. IsList(list) /\ (pending # None => IsSequence(pending))
  BY DEF ListInv
<1>b. InGame => game \in Games /\ UpToDate(list) /\ Filtered(list)
  BY DEF ListInv, NothingStaleShown, GameKnown, UpToDate, Filtered, Fresh
<1>c. \* It is enough that the list is up to date and that no order waits but one
      \* that a list had.
      ASSUME UpToDate(list'), pending' # None => IsSequence(pending')
      PROVE  ListInv'
  BY <1>c DEF ListInv, NothingStaleShown, UpToDate
<1>d. \A filter : UpToDate(SetFiltersState(list, filter))
  BY <1>a, FiltersStateIsFresh
<1>1. CASE \E g \in Games : Start(g)
  <2>1. PICK g \in Games : Start(g)
    BY <1>1
  <2> DEFINE k == [list EXCEPT !.content = ContentFilters(widget, g), !.hidden = hidden[g]]
             l == SetOverlap(ContentChanged(k), PluginFilters(widget), {})
  <2>2. IsList(k)
    BY <1>a DEF IsList, ListFields
  <2> HIDE DEF k
  <2>3. IsList(l)
    BY <2>2, ContentChangedIsFresh, OverlapIsFresh DEF UpToDate
  <2> HIDE DEF l
  <2>4. PICK data \in Loads[g] : GameDataLoaded(l, widget, data, seen[g])
    BY <2>1 DEF Start, l, k
  <2>5. UpToDate(list')
    BY <2>3, <2>4, LoadedIsFresh
  <2>6. QED
    BY <1>a, <1>c, <2>1, <2>5 DEF Start
<1>2. CASE \E g \in Games : ChangeGame(g)
  <2>1. PICK g \in Games : ChangeGame(g)
    BY <1>2
  <2> DEFINE w == ResetCombos(widget)
             l == SetFiltersState(list, PluginFilters(w))
  <2>2. IsList(l)
    BY <1>d DEF UpToDate
  <2> HIDE DEF l, w
  <2>3. PICK data \in Loads[g] : GameDataLoaded(l, w, data, seen[g])
    BY <2>1 DEF ChangeGame, l, w
  <2>4. UpToDate(list')
    BY <2>2, <2>3, LoadedIsFresh
  <2>5. QED
    BY <1>a, <1>c, <2>1, <2>4 DEF ChangeGame
<1>3. CASE Reload
  <2>1. PICK data \in Loads[game] : GameDataLoaded(list, widget, data, seen'[game])
    BY <1>3 DEF Reload
  <2>2. UpToDate(list')
    BY <1>3, <1>a, <1>b, <2>1, LoadedIsFresh DEF Reload, Idle
  <2>3. QED
    BY <1>3, <1>a, <1>c, <2>2 DEF Reload
<1>4. CASE Sorted
  <2> DEFINE w == ResetCombos(widget)
             l == SetFiltersState(list, PluginFilters(w))
  <2>1. UpToDate(l)
    BY <1>d
  <2> HIDE DEF l, w
  <2>2. CASE \E general \in Generals[game] : list' = SetGeneral(l, general)
                                              /\ UNCHANGED pending
    <3>1. UpToDate(list')
      BY <2>1, <2>2, GeneralIsFresh DEF UpToDate, Filtered, Fresh
    <3>2. QED
      BY <1>a, <1>c, <2>2, <3>1
  <2>3. CASE \E data \in Loads[game] :
               /\ pending' = IF Order(data.items) = Order(list.items) THEN None
                             ELSE Order(list.items)
               /\ GameDataLoaded(l, w, data, seen[game])
    <3>1. UpToDate(list')
      BY <1>4, <1>b, <2>1, <2>3, LoadedIsFresh DEF Sorted, Idle, UpToDate
    <3>2. IsSequence(Order(list.items))
      BY <1>a DEF IsList, IsSequence, Order
    <3>3. QED
      BY <1>c, <2>3, <3>1, <3>2
  <2>4. QED
    BY <1>4, <2>2, <2>3 DEF Sorted, l, w
<1>5. CASE ApplySort
  BY <1>5 DEF ApplySort, ListInv, NothingStaleShown, InGame
<1>6. CASE DiscardSort
  <2> DEFINE items == Numbered(InLoadOrder)
  <2>1. DOMAIN items = DOMAIN pending
    BY <1>6 DEF DiscardSort, Numbered, InLoadOrder, LoadOrder
  <2>2. IsSequence(items)
    BY <1>6, <1>a, <2>1 DEF DiscardSort, IsSequence
  <2> HIDE DEF items
  <2>3. Filtered(SetPluginItems(list, items))
    BY <1>a, <2>2, PluginItemsFilter
  <2>4. PICK general : list' = SetGeneral(SetPluginItems(list, items), general)
    BY <1>6 DEF DiscardSort, items
  <2>5. UpToDate(list')
    BY <2>3, <2>4, GeneralIsFresh
  <2>6. QED
    BY <1>6, <1>c, <2>5 DEF DiscardSort
<1>7. CASE \E i \in Rows(list) : EditMetadata(i)
  <2>1. PICK i \in Rows(list) : EditMetadata(i)
    BY <1>7
  <2>2. PICK card : list' = SetCard(list, i, card)
    BY <2>1 DEF EditMetadata
  <2>3. UpToDate(list')
    BY <1>b, <2>1, <2>2, CardIsFresh DEF EditMetadata
  <2>4. QED
    BY <1>a, <1>c, <2>1, <2>3 DEF EditMetadata
<1>8. CASE AcceptGroups
  <2>1. PICK general, cards : list' = SetGeneral(SetCards(list, cards), general)
    BY <1>8 DEF AcceptGroups
  <2>2. UpToDate(SetCards(list, cards))
    BY <1>8, <1>b, CardsAreFresh DEF AcceptGroups
  <2>3. UpToDate(list')
    BY <2>1, <2>2, GeneralIsFresh DEF UpToDate, Filtered, Fresh
  <2>4. QED
    BY <1>8, <1>a, <1>c, <2>3 DEF AcceptGroups
<1>9. CASE ClearAllMetadata
  <2>1. PICK general, cards : list' = SetCards(SetGeneral(list, general), cards)
    BY <1>9, Zenon DEF ClearAllMetadata
  <2>2. UpToDate(list')
    BY <1>9, <1>b, <2>1, GeneralIsFresh, CardsAreFresh DEF ClearAllMetadata
  <2>3. QED
    BY <1>9, <1>a, <1>c, <2>2 DEF ClearAllMetadata
<1>10. CASE \E message \in CurrentMessages(list) : HideMessage(message[1], message[2])
  <2>1. PICK owner, m : HideMessage(owner, m)
    BY <1>10
  <2> DEFINE k == [list EXCEPT !.hidden = @ \cup {<<owner, m>>}]
             l == ContentChanged(k)
             r == UpdateCounts(l)
  <2>2. IsList(k)
    BY <1>a DEF IsList, ListFields
  <2> HIDE DEF k
  <2>3. UpToDate(l)
    BY <2>2, ContentChangedIsFresh
  <2> HIDE DEF l
  <2>4. /\ IsList(r) /\ DisplaysSame(r, l) /\ r.search = l.search
        /\ r.results = l.results /\ r.counts = Counts(l)
    BY <2>3 DEF UpToDate, UpdateCounts, IsList, ListFields, DisplaysSame, AcceptsSame,
       HidesSame
  <2> HIDE DEF r
  <2>5. Accepted(r) = Accepted(l) /\ Counts(r) = Counts(l) /\ Found(r) = Found(l)
    BY <2>4, AcceptsSameRows, CountsSame, FoundSame DEF DisplaysSame
  <2>6. UpToDate(r)
    BY <2>3, <2>4, <2>5 DEF UpToDate, Fresh, DisplaysSame
  <2>7. list' = r /\ UNCHANGED pending
    BY <2>1 DEF HideMessage, r, l, k
  <2>8. QED
    BY <1>a, <1>c, <2>6, <2>7
<1>11. CASE \E owners : Unhide(owners)
  <2>1. PICK left : list' = ContentChanged([list EXCEPT !.hidden = left]) /\ UNCHANGED pending
    BY <1>11, Zenon DEF Unhide
  <2> DEFINE k == [list EXCEPT !.hidden = left]
  <2>2. IsList(k)
    BY <1>a DEF IsList, ListFields
  <2> HIDE DEF k
  <2>3. UpToDate(ContentChanged(k))
    BY <2>2, ContentChangedIsFresh
  <2>4. QED
    BY <1>a, <1>c, <2>1, <2>3 DEF k
<1>12. CASE \/ \E box \in Boxes : Click(box)
            \/ EnableWarnings
            \/ DisableWarnings
  <2>1. InGame /\ \E w : Shows(w)
    BY <1>12, Zenon DEF Click, EnableWarnings, DisableWarnings
  <2>2. QED
    BY <1>a, <1>c, <2>1, ShowsIsFresh
<1>13. CASE \E w : FilterBy(w)
  BY <1>13, <1>a, <1>c, <1>d DEF FilterBy
<1>14. CASE \E name : SelectOverlap(name)
  <2>1. InGame /\ UNCHANGED pending
    BY <1>14 DEF SelectOverlap
  <2>2. CASE \E filter, names : list' = SetOverlap(list, filter, names)
    <3>1. UpToDate(list')
      BY <1>a, <2>2, OverlapIsFresh
    <3>2. QED
      BY <1>a, <1>c, <2>1, <3>1
  <2>3. CASE UNCHANGED list
    BY <1>a, <1>b, <1>c, <2>1, <2>3
  <2>4. CASE \E items \in {data.items : data \in Loads[game]} : \E old, filter, names :
               list' = SetOverlap(LoadedList(list, items, old, list.general), filter, names)
    <3>1. PICK data \in Loads[game] : \E old, filter, names :
            list' = SetOverlap(LoadedList(list, data.items, old, list.general), filter, names)
      BY <2>4
    <3>2. IsSequence(data.items)
      BY <1>b, <2>1, <3>1, ItemsAreLoaded
    <3>3. \A old : IsList(LoadedList(list, data.items, old, list.general))
      BY <1>a, <3>2, LoadedListIsFresh DEF UpToDate
    <3>4. UpToDate(list')
      BY <3>1, <3>3, OverlapIsFresh
    <3>5. QED
      BY <1>a, <1>c, <2>1, <3>4
  <2>5. QED
    BY <1>14, <2>2, <2>3, <2>4, Zenon DEF SelectOverlap
<1>15. CASE \E text \in Texts : Search(text)
  <2>1. PICK text \in Texts : Search(text)
    BY <1>15
  <2> DEFINE l == [list EXCEPT !.search = text]
  <2>2. /\ IsList(l) /\ DisplaysSame(l, list) /\ l.search = text
        /\ l.counts = list.counts
    BY <1>a DEF IsList, ListFields, DisplaysSame, AcceptsSame, HidesSame
  <2>3. list' = IF text \in Invalid THEN l ELSE RefreshSearch(l)
    BY <2>1 DEF Search
  <2> HIDE DEF l
  <2>4. l.visible = Accepted(l) /\ l.counts = Counts(l)
    <3>1. list.visible = Accepted(list) /\ list.counts = Counts(list)
      BY <1>b, <2>1 DEF Search, UpToDate, Fresh
    <3>2. Accepted(l) = Accepted(list) /\ Counts(l) = Counts(list)
      BY <2>2, AcceptsSameRows, CountsSame DEF DisplaysSame
    <3>3. QED
      BY <2>2, <3>1, <3>2 DEF DisplaysSame
  <2>5. CASE text \in Invalid
    BY <1>a, <1>c, <2>1, <2>2, <2>3, <2>4, <2>5 DEF UpToDate, Fresh, Search
  <2>6. CASE text \notin Invalid
    <3>1. UpToDate(list')
      BY <2>2, <2>3, <2>4, <2>6, RefreshSearchIsFresh DEF UpToDate, Refreshed
    <3>2. QED
      BY <1>a, <1>c, <2>1, <3>1 DEF Search
  <2>7. QED
    BY <2>5, <2>6
<1>16. CASE ClickNext \/ ClickPrevious
  <2>1. InGame /\ MarksOnly(list, list') /\ UNCHANGED pending
    BY <1>16, <1>a, FindMarksOnly DEF ClickNext, ClickPrevious, Step
  <2>2. /\ Accepted(list') = Accepted(list) /\ Counts(list') = Counts(list)
        /\ Found(list') = Found(list)
    BY <2>1, AcceptsSameRows, CountsSame, FoundSame DEF MarksOnly, DisplaysSame
  <2>3. UpToDate(list')
    BY <1>b, <2>1, <2>2 DEF UpToDate, Fresh, MarksOnly, DisplaysSame
  <2>4. QED
    BY <1>a, <1>c, <2>1, <2>3
<1>17. CASE UNCHANGED vars
  BY <1>17 DEF vars, ListInv, NothingStaleShown, InGame
<1>18. QED
  BY <1>1, <1>2, <1>3, <1>4, <1>5, <1>6, <1>7, <1>8, <1>9, <1>10, <1>11, <1>12, <1>13,
     <1>14, <1>15, <1>16, <1>17 DEF Next, SelectGroup, EditContentFilter

\* Once a handler has run, nothing that the window shows is stale.
THEOREM NothingStaleIsShown == Spec => []NothingStaleShown
<1>1. ListInv => NothingStaleShown
  BY DEF ListInv
<1>2. QED
  BY <1>1, ListInvInit, ListInvStep, GameKnownInv, PTL DEF Spec

-----------------------------------------------------------------------------
(* Disabling the warnings filter.                                           *)

\* The filter's own checkbox tells whether all those that it stands for are checked,
\* and while they are, what it remembers is what they were before, or what they are
\* by default.  That is not all of them, so that going back to it disables the
\* filter.
WarningsInv ==
  /\ DOMAIN widget = {"checked", "warnings", "memory", "overlap", "group", "text",
                      "plugins", "groups"}
  /\ widget.warnings = (WarningBoxes \subseteq widget.checked)
  /\ widget.warnings => /\ widget.memory = before
                        /\ before \subseteq WarningBoxes
                        /\ before # WarningBoxes

LEMMA WarningsInvInit == Init => WarningsInv
<1> SUFFICES ASSUME Init PROVE WarningsInv
  OBVIOUS
<1>1. PICK checked \in Stored :
        widget = [checked |-> checked, warnings |-> WarningBoxes \subseteq checked,
                  memory |-> DefaultFilters, overlap |-> None, group |-> None, text |-> Empty,
                  plugins |-> {}, groups |-> {}]
  BY DEF Init
<1>2. /\ before = DefaultFilters /\ DefaultFilters \subseteq WarningBoxes
      /\ "notes" \in WarningBoxes \ DefaultFilters
  BY DEF Init, WarningBoxes, DefaultFilters
<1>3. QED
  BY <1>1, <1>2 DEF WarningsInv

\* A click that completes the filter is one on a box that it stands for: the other
\* ones were checked.
LEMMA ClickCompletes ==
  ASSUME NEW checked, NEW box, NEW excluded,
         ~(WarningBoxes \subseteq checked),
         WarningBoxes \subseteq IF box \in checked THEN checked \ {box}
                                ELSE (checked \ excluded) \cup {box}
  PROVE  /\ box \in WarningBoxes
         /\ checked \cap WarningBoxes = WarningBoxes \ {box}
OBVIOUS

LEMMA WarningsInvStep == WarningsInv /\ [Next]_vars => WarningsInv'
<1> SUFFICES ASSUME WarningsInv, [Next]_vars PROVE WarningsInv'
  OBVIOUS
<1>1. CASE \E box \in Boxes : Click(box)
  <2>1. PICK box \in Boxes : Click(box)
    BY <1>1
  <2> DEFINE w == Toggled(widget, box)
             checked == IF box \in widget.checked THEN widget.checked \ {box}
                        ELSE (widget.checked \ Excluded(box)) \cup {box}
             warnings == WarningBoxes \subseteq checked
  <2>2. /\ DOMAIN w = DOMAIN widget
        /\ w.checked = checked /\ w.warnings = warnings
        /\ w.memory = IF warnings /\ ~widget.warnings THEN WarningBoxes \ {box}
                      ELSE widget.memory
    BY DEF WarningsInv, Toggled
  <2>3. widget' = w /\ before' = IF w.warnings /\ ~widget.warnings
                                 THEN widget.checked \cap WarningBoxes ELSE before
    BY <2>1 DEF Click, Shows
  <2>4. CASE warnings /\ ~widget.warnings
    <3>1. ~(WarningBoxes \subseteq widget.checked)
      BY <2>4 DEF WarningsInv
    <3>2. /\ box \in WarningBoxes
          /\ widget.checked \cap WarningBoxes = WarningBoxes \ {box}
      BY <2>4, <3>1, ClickCompletes
    <3> HIDE DEF w, checked, warnings
    <3>3. QED
      BY <2>2, <2>3, <2>4, <3>2 DEF WarningsInv, warnings
  <2>5. CASE ~(warnings /\ ~widget.warnings)
    <3> HIDE DEF w, checked
    <3>1. QED
      BY <2>2, <2>3, <2>5 DEF WarningsInv
  <2>6. QED
    BY <2>4, <2>5
<1>2. CASE EnableWarnings
  <2>1. /\ ~(WarningBoxes \subseteq widget.checked)
        /\ widget' = WarningsOn(widget) /\ before' = widget.checked \cap WarningBoxes
    BY <1>2 DEF EnableWarnings, Shows, WarningsInv
  <2>2. QED
    BY <2>1 DEF WarningsInv, WarningsOn
<1>3. CASE DisableWarnings
  <2>1. /\ WarningBoxes \subseteq widget.checked /\ widget' = WarningsOff(widget)
        /\ before \subseteq WarningBoxes /\ before # WarningBoxes /\ widget.memory = before
    BY <1>3 DEF DisableWarnings, Shows, WarningsInv
  <2>2. /\ DOMAIN widget' = DOMAIN widget /\ widget'.warnings = FALSE
        /\ widget'.checked = widget.checked \ (WarningBoxes \ before)
    BY <2>1 DEF WarningsInv, WarningsOff
  <2>3. ~(WarningBoxes \subseteq widget'.checked)
    BY <2>1, <2>2
  <2>4. QED
    BY <2>2, <2>3 DEF WarningsInv
<1>4. \* Nothing else changes what the checkboxes are and remember.
      ASSUME /\ DOMAIN widget' = DOMAIN widget
             /\ widget'.checked = widget.checked /\ widget'.warnings = widget.warnings
             /\ widget'.memory = widget.memory /\ UNCHANGED before
      PROVE  WarningsInv'
  BY <1>4 DEF WarningsInv
<1> DEFINE Same(w) ==
             /\ DOMAIN w = DOMAIN widget /\ w.checked = widget.checked
             /\ w.warnings = widget.warnings /\ w.memory = widget.memory
<1>5. ASSUME NEW w, Same(w), NEW plugins, NEW groups
      PROVE  Same(SetChoices(w, plugins, groups))
  BY <1>5 DEF WarningsInv, SetChoices
<1>6. Same(ResetCombos(widget))
  BY DEF WarningsInv, ResetCombos
<1>7. /\ \A group : Same([widget EXCEPT !.group = group])
      /\ \A text : Same([widget EXCEPT !.text = text])
      /\ \A name : Same([widget EXCEPT !.overlap = name])
  BY DEF WarningsInv
<1> HIDE DEF Same
<1>8. ASSUME Same(widget'), UNCHANGED before
      PROVE  WarningsInv'
  BY <1>4, <1>8 DEF Same
<1>9. Same(widget)
  BY DEF Same
<1>10. CASE (\E g \in Games : Start(g)) \/ Reload \/ ClearAllMetadata
  <2>1. \E plugins, groups : widget' = SetChoices(widget, plugins, groups)
    BY <1>10, Zenon DEF Start, Reload, ClearAllMetadata, GameDataLoaded
  <2>2. UNCHANGED before
    BY <1>10 DEF Start, Reload, ClearAllMetadata
  <2>3. QED
    BY <1>5, <1>8, <1>9, <2>1, <2>2
<1>11. CASE (\E g \in Games : ChangeGame(g)) \/ Sorted
  <2>1. \/ widget' = ResetCombos(widget)
        \/ \E plugins, groups : widget' = SetChoices(ResetCombos(widget), plugins, groups)
    BY <1>11, Zenon DEF ChangeGame, Sorted, GameDataLoaded
  <2>2. UNCHANGED before
    BY <1>11 DEF ChangeGame, Sorted
  <2>3. QED
    BY <1>5, <1>6, <1>8, <2>1, <2>2
<1>12. CASE (\E group : SelectGroup(group)) \/ \E text : EditContentFilter(text)
  <2>1. \/ \E group : widget' = [widget EXCEPT !.group = group]
        \/ \E text : widget' = [widget EXCEPT !.text = text]
    BY <1>12, Zenon DEF SelectGroup, EditContentFilter, FilterBy
  <2>2. UNCHANGED before
    BY <1>12, Zenon DEF SelectGroup, EditContentFilter, FilterBy
  <2>3. QED
    BY <1>7, <1>8, <2>1, <2>2
<1>13. CASE \E name : SelectOverlap(name)
  <2>1. \E name : LET w == [widget EXCEPT !.overlap = name]
                 IN widget' = w \/ \E plugins, groups : widget' = SetChoices(w, plugins, groups)
    BY <1>13, Zenon DEF SelectOverlap
  <2>2. UNCHANGED before
    BY <1>13, Zenon DEF SelectOverlap
  <2>3. QED
    BY <1>5, <1>7, <1>8, <2>1, <2>2
<1>14. CASE UNCHANGED <<widget, before>>
  BY <1>8, <1>9, <1>14
<1>15. QED
  BY <1>1, <1>2, <1>3, <1>10, <1>11, <1>12, <1>13, <1>14 DEF Next, vars, ApplySort,
     DiscardSort, EditMetadata, AcceptGroups, HideMessage, Unhide, Search, ClickNext,
     ClickPrevious, Step

\* Disabling the warnings filter goes back to what its checkboxes were when it was
\* enabled, by its own checkbox or by theirs, and to the default ones if that was in
\* an earlier session.
THEOREM WarningsAreUndone == Spec => WarningsFilterRestores
<1>1. WarningsInv /\ DisableWarnings => widget'.checked \cap WarningBoxes = before
  <2> SUFFICES ASSUME WarningsInv, DisableWarnings
               PROVE  widget'.checked \cap WarningBoxes = before
    OBVIOUS
  <2>1. /\ WarningBoxes \subseteq widget.checked /\ widget' = WarningsOff(widget)
        /\ before \subseteq WarningBoxes /\ widget.memory = before
    BY DEF DisableWarnings, Shows, WarningsInv
  <2>2. widget'.checked = widget.checked \ (WarningBoxes \ before)
    BY <2>1 DEF WarningsInv, WarningsOff
  <2>3. QED
    BY <2>1, <2>2
<1>2. QED
  BY <1>1, WarningsInvInit, WarningsInvStep, PTL DEF Spec, WarningsFilterRestores

-----------------------------------------------------------------------------
(* Validation: masters.                                                     *)

LEMMA WhenTrue ==
  ASSUME NEW condition, condition, NEW message
  PROVE  message \in When(condition, message)
BY DEF When

LEMMA InWhen ==
  ASSUME NEW condition, NEW message, NEW m \in When(condition, message)
  PROVE  condition /\ m = message
BY DEF When

\* An active plugin that is not for a bashed patch and has a master that is not
\* installed, or not active, has an error message about it on its card
\* (validateMasters, and checkInstallValidity that calls it).
THEOREM UnmetMastersReported ==
  ASSUME NEW g, NEW plugin, NEW metadata, NEW master \in plugin.masters,
         plugin.name \in g.active, ~FilterTagged(plugin, metadata),
         master \notin g.files \cap g.active
  PROVE  \E message \in CheckInstallValidity(g, plugin, metadata) :
           message.type = "error" /\ message.about = master
<1> DEFINE active == ExpectActive(g, plugin, metadata)
           missing == (active \/ ExpectInstalled(g)) /\ master \notin g.files
           Missing == MissingMaster(IF active THEN "error" ELSE "warn", master)
<1>1. active
  BY DEF ExpectActive
<1>2. MasterMessages(g, plugin, metadata, master)
        \subseteq CheckInstallValidity(g, plugin, metadata)
  BY DEF CheckInstallValidity, ValidateMasters
<1>3. CASE master \notin g.files
  <2>1. Missing \in When(missing, Missing)
    BY <1>1, <1>3, WhenTrue
  <2>2. Missing \in MasterMessages(g, plugin, metadata, master)
    BY <2>1 DEF MasterMessages
  <2>3. Missing.type = "error" /\ Missing.about = master
    BY <1>1 DEF MissingMaster, Message
  <2> QED
    BY <1>2, <2>2, <2>3
<1>4. CASE master \in g.files
  <2> DEFINE inactive == ~missing /\ active /\ master \notin g.active
  <2>1. inactive
    BY <1>1, <1>4
  <2>2. InactiveMaster(master) \in When(inactive, InactiveMaster(master))
    BY <2>1, WhenTrue
  <2>3. InactiveMaster(master) \in MasterMessages(g, plugin, metadata, master)
    BY <2>2 DEF MasterMessages
  <2>4. InactiveMaster(master).type = "error" /\ InactiveMaster(master).about = master
    BY DEF InactiveMaster, Error, Message
  <2> QED
    BY <1>2, <2>3, <2>4
<1> QED
  BY <1>3, <1>4

\* The masters that a plugin's card says are missing or inactive.
UnmetMasters(g, plugin, metadata) ==
  {master \in plugin.masters :
     \E message \in MasterMessages(g, plugin, metadata, master) :
       message.source \in {"missingMaster", "inactiveMaster"}}

LEMMA UnmetMastersAre ==
  ASSUME NEW g, NEW plugin, NEW metadata, NEW master
  PROVE  (\E message \in MasterMessages(g, plugin, metadata, master) :
            message.source \in {"missingMaster", "inactiveMaster"})
         <=> \/ /\ ExpectActive(g, plugin, metadata) \/ ExpectInstalled(g)
                /\ master \notin g.files
             \/ ExpectActive(g, plugin, metadata) /\ master \notin g.active
<1> DEFINE active == ExpectActive(g, plugin, metadata)
           missing == (active \/ ExpectInstalled(g)) /\ master \notin g.files
           inactive == ~missing /\ active /\ master \notin g.active
           Missing == MissingMaster(IF active THEN "error" ELSE "warn", master)
           messages == MasterMessages(g, plugin, metadata, master)
<1>1. ASSUME NEW message \in messages,
             message.source \in {"missingMaster", "inactiveMaster"}
      PROVE  missing \/ inactive
  <2> DEFINE other == g.plugins[master]
             loaded == master \in DOMAIN g.plugins
  <2>1. \/ message \in When(missing, Missing)
        \/ message \in When(inactive, InactiveMaster(master))
        \/ message \in {SelfMaster, NonMasterMaster(master), BlueprintMaster(master)}
    BY <1>1 DEF MasterMessages, When
  <2>2. message \notin {SelfMaster, NonMasterMaster(master), BlueprintMaster(master)}
    BY <1>1 DEF SelfMaster, NonMasterMaster, BlueprintMaster, Error, Warning, Message
  <2> QED
    BY <2>1, <2>2, InWhen
<1>2. ASSUME missing PROVE \E message \in messages : message.source = "missingMaster"
  <2>1. Missing \in messages
    BY <1>2 DEF MasterMessages, When
  <2>2. Missing.source = "missingMaster"
    BY DEF MissingMaster, Message
  <2> QED
    BY <2>1, <2>2
<1>3. ASSUME inactive PROVE \E message \in messages : message.source = "inactiveMaster"
  <2>1. InactiveMaster(master) \in messages
    BY <1>3 DEF MasterMessages, When
  <2>2. InactiveMaster(master).source = "inactiveMaster"
    BY DEF InactiveMaster, Error, Message
  <2> QED
    BY <2>1, <2>2
<1>4. missing \/ inactive <=> missing \/ (active /\ master \notin g.active)
  OBVIOUS
<1> QED
  BY <1>1, <1>2, <1>3, <1>4

\* Of a plugin that stays active, or inactive, installing or activating other
\* plugins leaves no master missing or inactive that was not before
\* (validateMasters; what is reported can change from missing to inactive).
THEOREM MastersOnlyImprove ==
  ASSUME NEW g, NEW later, NEW plugin, NEW metadata, later.id = g.id,
         g.files \subseteq later.files, g.active \subseteq later.active,
         plugin.name \in later.active => plugin.name \in g.active
  PROVE  UnmetMasters(later, plugin, metadata) \subseteq UnmetMasters(g, plugin, metadata)
<1>1. ExpectActive(later, plugin, metadata) => ExpectActive(g, plugin, metadata)
  BY DEF ExpectActive
<1>2. ExpectInstalled(later) <=> ExpectInstalled(g)
  BY DEF ExpectInstalled
<1>3. ASSUME NEW master \in UnmetMasters(later, plugin, metadata)
      PROVE  master \in UnmetMasters(g, plugin, metadata)
  <2>1. master \in plugin.masters
    BY <1>3 DEF UnmetMasters
  <2>2. \/ /\ ExpectActive(later, plugin, metadata) \/ ExpectInstalled(later)
           /\ master \notin later.files
        \/ ExpectActive(later, plugin, metadata) /\ master \notin later.active
    BY <1>3, UnmetMastersAre DEF UnmetMasters
  <2>3. \/ /\ ExpectActive(g, plugin, metadata) \/ ExpectInstalled(g)
           /\ master \notin g.files
        \/ ExpectActive(g, plugin, metadata) /\ master \notin g.active
    BY <1>1, <1>2, <2>2
  <2> QED
    BY <2>1, <2>3, UnmetMastersAre DEF UnmetMasters
<1> QED
  BY <1>3

-----------------------------------------------------------------------------
(* Load order indices. *)

\* Cards of a game's plugins, each of them once, as getPluginItems makes them of
\* whichever names it is given.
CardsAreOf(cards, n, g) ==
  /\ DOMAIN cards = 1..n
  /\ \A i \in 1..n :
       /\ cards[i].name \in DOMAIN g.plugins
       /\ cards[i].kind = Kind(g.plugins[cards[i].name])
       /\ Active(cards[i]) <=> cards[i].name \in g.active
  /\ \A i, j \in 1..n : cards[i].name = cards[j].name => i = j

Before(cards, k) ==
  {j \in DOMAIN cards : j < k /\ Active(cards[j]) /\ cards[j].kind = cards[k].kind}

LEMMA IndexCounts ==
  ASSUME NEW n \in Nat, NEW cards, DOMAIN cards = 1..n, NEW k \in 1..n, Active(cards[k])
  PROVE  /\ IsFiniteSet(Before(cards, k))
         /\ Index(cards, k) = Cardinality(Before(cards, k))
         /\ Index(cards, k) \in Nat
<1>1. IsFiniteSet(1..n)
  BY FS_Interval
<1>2. Before(cards, k) \subseteq 1..n
  BY DEF Before
<1>3. IsFiniteSet(Before(cards, k))
  BY <1>1, <1>2, FS_Subset
<1>4. Index(cards, k) = Cardinality(Before(cards, k))
  BY DEF Index, Before
<1> QED
  BY <1>3, <1>4, FS_CardinalityType

\* Active plugins of one kind have indices in the order of their cards, and so
\* no two have the same (mapToLoadOrderTuples).
THEOREM IndicesIncrease ==
  ASSUME NEW n \in Nat, NEW cards, DOMAIN cards = 1..n, NEW i \in 1..n, NEW k \in 1..n,
         i < k, Active(cards[i]), Active(cards[k]), cards[i].kind = cards[k].kind
  PROVE  Index(cards, i) < Index(cards, k)
<1>1. i \in Before(cards, k)
  BY DEF Before
<1>2. Before(cards, i) \subseteq Before(cards, k) \ {i}
  BY DEF Before
<1>3. IsFiniteSet(Before(cards, k))
  BY IndexCounts
<1>4. /\ IsFiniteSet(Before(cards, k) \ {i})
      /\ Cardinality(Before(cards, k) \ {i}) = Cardinality(Before(cards, k)) - 1
  BY <1>1, <1>3, FS_RemoveElement
<1>5. Cardinality(Before(cards, i)) <= Cardinality(Before(cards, k) \ {i})
  BY <1>2, <1>4, FS_Subset
<1>6. /\ Index(cards, i) = Cardinality(Before(cards, i)) /\ Index(cards, i) \in Nat
      /\ Index(cards, k) = Cardinality(Before(cards, k)) /\ Index(cards, k) \in Nat
  BY IndexCounts
<1> QED
  BY <1>4, <1>5, <1>6

LEMMA IndexBelowCount ==
  ASSUME NEW g, IsFiniteSet(DOMAIN g.plugins), NEW n \in Nat, NEW cards,
         CardsAreOf(cards, n, g), NEW k \in 1..n, Active(cards[k])
  PROVE  /\ Index(cards, k) \in Nat
         /\ Count(g, cards[k].kind) \in Nat
         /\ Index(cards, k) < Count(g, cards[k].kind)
<1> DEFINE earlier == Before(cards, k)
           all == ActiveOf(g, cards[k].kind)
           others == all \ {cards[k].name}
           nameOf == [j \in earlier |-> cards[j].name]
<1>1. DOMAIN cards = 1..n
  BY DEF CardsAreOf
<1>2. /\ IsFiniteSet(earlier)
      /\ Index(cards, k) = Cardinality(earlier)
      /\ Index(cards, k) \in Nat
  BY <1>1, IndexCounts
<1>3. IsFiniteSet(all)
  BY FS_Subset DEF ActiveOf
<1>4. cards[k].name \in all
  BY DEF CardsAreOf, ActiveOf
<1>5. IsFiniteSet(others) /\ Cardinality(others) = Cardinality(all) - 1
  BY <1>3, <1>4, FS_RemoveElement
<1>6. ASSUME NEW j \in earlier
      PROVE  cards[j].name \in others
  <2>1. j \in 1..n /\ j # k /\ Active(cards[j]) /\ cards[j].kind = cards[k].kind
    BY <1>1, <1>6 DEF Before
  <2>2. cards[j].name \in all
    BY <2>1 DEF CardsAreOf, ActiveOf
  <2>3. cards[j].name # cards[k].name
    BY <2>1 DEF CardsAreOf
  <2> QED
    BY <2>2, <2>3
<1>7. nameOf \in Injection(earlier, others)
  <2>1. nameOf \in [earlier -> others]
    BY <1>6
  <2>2. ASSUME NEW i \in earlier, NEW j \in earlier, nameOf[i] = nameOf[j]
        PROVE  i = j
    <3>1. i \in 1..n /\ j \in 1..n
      BY <1>1 DEF Before
    <3> QED
      BY <2>2, <3>1 DEF CardsAreOf
  <2> QED
    BY <2>1, <2>2 DEF Injection, IsInjective
<1>8. Cardinality(earlier) <= Cardinality(others)
  BY <1>5, <1>7, FS_Injection
<1>9. Cardinality(all) \in Nat /\ Cardinality(others) \in Nat
  BY <1>3, <1>5, FS_CardinalityType
<1> QED
  BY <1>2, <1>5, <1>8, <1>9 DEF Count

LEMMA CountPositive ==
  ASSUME NEW g, IsFiniteSet(DOMAIN g.plugins), NEW kind,
         NEW name \in ActiveOf(g, kind)
  PROVE  Count(g, kind) \in Nat /\ Count(g, kind) > 0
<1>1. IsFiniteSet(ActiveOf(g, kind))
  BY FS_Subset DEF ActiveOf
<1>2. Cardinality(ActiveOf(g, kind)) # 0
  BY <1>1, FS_EmptySet
<1> QED
  BY <1>1, <1>2, FS_CardinalityType DEF Count

\* If a card shows a full plugin with the index that all active light plugins
\* share (FE with a limit of 255), or the one that medium plugins share, and one
\* of these is active, then the general messages say so: no two active plugins
\* share an index unreported (validateActivePluginCounts).
THEOREM SharedSlotsReported ==
  ASSUME NEW g, IsFiniteSet(DOMAIN g.plugins), NEW n \in Nat, NEW cards,
         CardsAreOf(cards, n, g), NEW k \in 1..n,
         Active(cards[k]), cards[k].kind = "full",
         NEW kind \in {"light", "medium"}, NEW name \in ActiveOf(g, kind)
  PROVE  /\ kind = "light" /\ Index(cards, k) = FullLimit - 1
              => LightSlotShared \in GeneralMessages(g)
         /\ kind = "medium" /\ Index(cards, k) = FullLimit - 2
              => MediumSlotShared \in GeneralMessages(g)
<1>1. /\ Index(cards, k) \in Nat /\ Count(g, "full") \in Nat
      /\ Index(cards, k) < Count(g, "full")
  BY IndexBelowCount
<1>2. Count(g, kind) \in Nat /\ Count(g, kind) > 0
  BY CountPositive
<1>3. CountMessages(g) \subseteq GeneralMessages(g)
  BY DEF GeneralMessages
<1>4. ASSUME kind = "light", Index(cards, k) = FullLimit - 1
      PROVE  LightSlotShared \in CountMessages(g)
  <2>1. Count(g, "full") >= FullLimit /\ Count(g, "light") > 0
    BY <1>1, <1>2, <1>4, LimitsAssumption
  <2>2. LightSlotShared \in
          When(Count(g, "full") >= FullLimit /\ Count(g, "light") > 0, LightSlotShared)
    BY <2>1, WhenTrue
  <2> QED
    BY <2>2 DEF CountMessages
<1>5. ASSUME kind = "medium", Index(cards, k) = FullLimit - 2
      PROVE  MediumSlotShared \in CountMessages(g)
  <2>1. Count(g, "full") >= FullLimit - 1 /\ Count(g, "medium") > 0
    BY <1>1, <1>2, <1>5, LimitsAssumption
  <2>2. MediumSlotShared \in
          When(Count(g, "full") >= FullLimit - 1 /\ Count(g, "medium") > 0,
               MediumSlotShared)
    BY <2>1, WhenTrue
  <2> QED
    BY <2>2 DEF CountMessages
<1> QED
  BY <1>3, <1>4, <1>5
=============================================================================
