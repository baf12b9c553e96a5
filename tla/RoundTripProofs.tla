----------------------------- MODULE RoundTripProofs ---------------------------
(***************************************************************************)
(* A reopen that nothing disturbs brings back what closed, in its place    *)
(* and with its focus, whatever the session.  Story says at each step what *)
(* is open already and which calls are left; it is an inductive invariant, *)
(* and when no call is left it says what RoundTrip and FocusComesBack      *)
(* promise.                                                                *)
(***************************************************************************)
EXTENDS RestoreProofs

(***************************************************************************)
(* The undisturbed reopen, step by step: h is what is open, c the calls    *)
(* left, o the pairs of panes restored so far.  i and j are positions in   *)
(* Session.                                                                *)
(***************************************************************************)
SnapAt(i, j) == TabSnap(Session[i], j)

\* Tab t is the remembered tab s but for the ids.
Named(t, s) == effective_tab_label(t.label) = effective_tab_label(s.label)
Laid(t, s) == t.layout = Filled(strip_pane_ids(s.layout), t.id + 1)
Watched(t, s, o) == FocusOnReopen => <<s.focused, t.focused>> \in o
TabBack(t, s, o) ==
  Named(t, s) /\ strip_pane_ids(t.layout) = strip_pane_ids(s.layout) /\ Watched(t, s, o)

\* All ids but those of one tab are below n.
OthersOlder(h, i, j, n) ==
  \A a \in DOMAIN h : \A b \in DOMAIN h[a].tabs : a # i \/ b # j =>
    TabAt(h, a, b).id < n /\ \A p \in PaneIds(TabAt(h, a, b).layout) : p < n

\* What the answer to layout.apply leaves to do for the tab that is rebuilt.
RenameCall(t, s) == [call |-> "tab.rename", tab |-> t.id, label |-> s.label]
FillCall(t, i, j) == finish_tab(SnapAt(i, j), t.layout)
FocusCall(pane) == [call |-> "pane.focus", pane |-> pane]
Naming(c, t, i, j) == c = <<RenameCall(t, TabAt(Session, i, j)), FillCall(t, i, j)>>
Filling(c, t, i, j) == c = <<FillCall(t, i, j)>> /\ Named(t, TabAt(Session, i, j))
Watching(c, t, i, j, o) ==
  /\ Named(t, TabAt(Session, i, j))
  /\ \E x \in PaneIds(t.layout) : /\ c = <<FocusCall(x)>>
                                  /\ <<TabAt(Session, i, j).focused, x>> \in o
Chores(c, t, i, j, o) ==
  /\ Laid(t, TabAt(Session, i, j))
  /\ \/ Naming(c, t, i, j) \/ Filling(c, t, i, j) \/ Watching(c, t, i, j, o)
     \/ c = << >> /\ TabBack(t, TabAt(Session, i, j), o)

(***************************************************************************)
(* One tab.                                                                *)
(***************************************************************************)
ClosesTab(i, j, e) ==
  /\ IsPlace(Session, i, j) /\ Len(Session[i].tabs) > 1
  /\ e = Entry("tab", {ws_shell(WorkspaceSnap(i), SnapAt(i, j))})

ShowTab(t) == IF FocusOnReopen THEN <<[call |-> "tab.focus", tab |-> t.id]>> ELSE << >>

\* To be rebuilt beside the n tabs that are left.
AddingTab(i, j, h, c) ==
  /\ TabGone(h, Session, i, j)
  /\ c = <<[Apply(Session[i].id, None, effective_tab_label(TabAt(Session, i, j).label),
                  SnapAt(i, j))
              EXCEPT !.live_count = Len(Session[i].tabs)]>>

\* The rebuilt tab is the last.
TabLast(i, j, h) ==
  /\ Others(h, Session, i) /\ DOMAIN h[i].tabs = DOMAIN Session[i].tabs
  /\ \A k \in 1 .. Len(Session[i].tabs) - 1 :
       TabAt(h, i, k) = TabAt(Session, i, IF k < j THEN k ELSE k + 1)
TabAdded(i, j, h, c) ==
  LET t == TabAt(h, i, Len(Session[i].tabs))
  IN  /\ TabLast(i, j, h) /\ OthersOlder(h, i, Len(Session[i].tabs), t.id)
      /\ Laid(t, TabAt(Session, i, j)) /\ Named(t, TabAt(Session, i, j))
      /\ c = <<[call |-> "tab.move", tab |-> t.id, index |-> j - 1], FillCall(t, i, j)>>
              \o ShowTab(t)

\* It is in its place.
TabInPlace(i, j, h) ==
  /\ Others(h, Session, i) /\ DOMAIN h[i].tabs = DOMAIN Session[i].tabs
  /\ \A k \in DOMAIN Session[i].tabs : k # j => TabAt(h, i, k) = TabAt(Session, i, k)
FillingTab(i, j, h, c, o) ==
  /\ TabInPlace(i, j, h) /\ OthersOlder(h, i, j, TabAt(h, i, j).id)
  /\ \E d \in Prefixes(c) :
       Chores(d, TabAt(h, i, j), i, j, o) /\ c = d \o ShowTab(TabAt(h, i, j))
TabThere(i, j, h, c, o) ==
  /\ TabInPlace(i, j, h) /\ TabBack(TabAt(h, i, j), TabAt(Session, i, j), o)
  /\ FocusOnReopen => h[i].active = TabAt(h, i, j).id
  /\ c = << >>

TabStory(i, j, h, c, o) ==
  \/ AddingTab(i, j, h, c) \/ TabAdded(i, j, h, c)
  \/ FillingTab(i, j, h, c, o) \/ TabThere(i, j, h, c, o)

(***************************************************************************)
(* One pane.                                                               *)
(***************************************************************************)
ClosesPane(i, j, pane, e) ==
  /\ IsPlace(Session, i, j) /\ pane \in PaneIds(TabAt(Session, i, j).layout)
  /\ PaneIds(TabAt(Session, i, j).layout) # {pane}
  /\ e = Entry("pane", {ws_shell(WorkspaceSnap(i), [SnapAt(i, j) EXCEPT !.panes = {pane}])})

InTab(i, j, h) == OnlyTab(h, Session, i, j) /\ TabAt(h, i, j).label = TabAt(Session, i, j).label
OccupyCall(pane, new) ==
  [call |-> "restore_occupant", panes |-> {new}, pairs |-> {<<pane, new>>}, focus |-> new]

PaneGone(i, j, pane, h) ==
  InTab(i, j, h) /\ TabAt(h, i, j).layout = Closed(TabAt(Session, i, j).layout, pane)
Splitting(i, j, pane, h, c) ==
  /\ PaneGone(i, j, pane, h)
  /\ \E first \in PaneIds(TabAt(h, i, j).layout) :
       c = <<split_beside(SnapAt(i, j), pane, first, PaneIds(TabAt(h, i, j).layout))>>

\* The new pane is where it can be; if it is beside one, only the swap may be missing.
PaneIn(i, j, pane, h) == InTab(i, j, h) /\ PaneAt(h, i, j, FirstNew)
Looks(i, j, pane, layout) ==
  IsBesideOne(TabAt(Session, i, j).layout, pane) =>
    strip_pane_ids(layout) = strip_pane_ids(TabAt(Session, i, j).layout)
Swapping(i, j, pane, h, c) ==
  /\ PaneIn(i, j, pane, h)
  /\ \E target \in PaneIds(TabAt(h, i, j).layout) :
       /\ Looks(i, j, pane, Swapped(TabAt(h, i, j).layout, FirstNew, target))
       /\ c = <<[call |-> "pane.swap", source |-> FirstNew, target |-> target],
                  OccupyCall(pane, FirstNew)>>
PaneBeside(i, j, pane, h) == PaneIn(i, j, pane, h) /\ Looks(i, j, pane, TabAt(h, i, j).layout)
OccupyingPane(i, j, pane, h, c) ==
  PaneBeside(i, j, pane, h) /\ c = <<OccupyCall(pane, FirstNew)>>
FocusingPane(i, j, pane, h, c, o) ==
  PaneBeside(i, j, pane, h) /\ <<pane, FirstNew>> \in o /\ c = <<FocusCall(FirstNew)>>
PaneThere(i, j, pane, h, c, o) ==
  /\ PaneBeside(i, j, pane, h) /\ c = << >>
  /\ FocusOnReopen => <<pane, TabAt(h, i, j).focused>> \in o

PaneStory(i, j, pane, h, c, o) ==
  \/ Splitting(i, j, pane, h, c) \/ Swapping(i, j, pane, h, c)
  \/ OccupyingPane(i, j, pane, h, c)
  \/ FocusingPane(i, j, pane, h, c, o) \/ PaneThere(i, j, pane, h, c, o)

(***************************************************************************)
(* Whole workspaces.  S are those that closed.                             *)
(***************************************************************************)
ClosesWorkspaces(S, e) ==
  /\ S \in SUBSET DOMAIN Session \ {{}}
  /\ e = Entry(IF Cardinality(S) = 1 THEN "workspace" ELSE "workspace_group",
               {WorkspaceSnap(i) : i \in S})

Left(S) == DOMAIN Session \ S
At(S, m) == Cardinality(Left(S)) + m
WorkspacesGone(S, h) == h = Keep(Session, Left(S))
Unlisted(S, l) == l.workspaces = WorkspaceRows(Keep(Session, Left(S)))

WorkspaceLike(w, i) ==
  /\ w.id \in Nat \ Old
  /\ effective_ws_label(w.label, w.cwd) = effective_ws_label(Session[i].label, Session[i].cwd)
TabsBack(h, a, i, n, o) ==
  \A k \in 1 .. n : TabBack(TabAt(h, a, k), TabAt(Session, i, k), o)
ActiveBack(h, a, i) ==
  FocusOnReopen => \A k \in DOMAIN Session[i].tabs :
    TabAt(Session, i, k).id = Session[i].active => h[a].active = TabAt(h, a, k).id
WorkspaceBack(h, a, i, o) ==
  /\ WorkspaceLike(h[a], i) /\ DOMAIN h[a].tabs = DOMAIN Session[i].tabs
  /\ TabsBack(h, a, i, Len(Session[i].tabs), o) /\ ActiveBack(h, a, i)

\* The first m of them are back behind those that stayed.
SomeBack(S, m, h, o) ==
  /\ m \in 0 .. Cardinality(S)
  /\ DOMAIN h = 1 .. Len(h) /\ Len(h) >= At(S, m)
  /\ \A k \in 1 .. At(S, 0) : h[k] = Keep(Session, Left(S))[k]
  /\ \A k \in 1 .. m : WorkspaceBack(h, At(S, k), Pos(S, k), o)

Each(S, m) == RestoreEach({WorkspaceSnap(Pos(S, k)) : k \in m + 1 .. Cardinality(S)})
CreateCall(i) == [call |-> "workspace.create", ws |-> WorkspaceSnap(i)]
ArrangeCall(i) == [call |-> "arrange", ws |-> WorkspaceSnap(i)]

BetweenWorkspaces(S, m, h, c, o) ==
  SomeBack(S, m, h, o) /\ Len(h) = At(S, m) /\ c = Each(S, m)
Creating(S, m, h, c, o) ==
  /\ SomeBack(S, m, h, o) /\ m < Cardinality(S) /\ Len(h) = At(S, m)
  /\ c = <<CreateCall(Pos(S, m + 1))>> \o Each(S, m + 1)

\* The next one is there, named; g are the tabs that were rebuilt in it.
Latest(h, a) ==
  /\ \A b \in DOMAIN h : b # a => \A k \in DOMAIN h[b].tabs : TabAt(h, b, k).id < h[a].id
  /\ \A k \in DOMAIN h[a].tabs : TabAt(h, a, k).id > h[a].id
OneMore(S, m, h, g, o) ==
  /\ SomeBack(S, m, h, o) /\ m < Cardinality(S) /\ Len(h) = At(S, m + 1)
  /\ WorkspaceLike(h[At(S, m + 1)], Pos(S, m + 1)) /\ Latest(h, At(S, m + 1))
  /\ g = [k \in DOMAIN g |-> TabAt(h, At(S, m + 1), k).id]

\* Its placeholder has the id behind its own.
ApplyCall(i, ws, k) ==
  Apply(ws, IF k = 1 THEN ws + 1 ELSE None,
        IF k = 1 THEN None ELSE effective_tab_label(TabAt(Session, i, k).label), SnapAt(i, k))
Applies(i, ws, j) == [k \in 1 .. Len(Session[i].tabs) - j |-> ApplyCall(i, ws, j + k)]
Moves(g, n, l) ==
  [k \in 1 .. n - l |-> [call |-> "tab.move", tab |-> g[l + k], index |-> l + k - 1]]
Shows(i, g) ==
  IF FocusOnReopen
  THEN SetToSeq({[call |-> "tab.focus", tab |-> g[j]] :
                 j \in {k \in DOMAIN Session[i].tabs :
                          TabAt(Session, i, k).id = Session[i].active} \cap DOMAIN g})
  ELSE << >>

\* j of its tabs are rebuilt, the last of them but for d.
RebuiltBut(S, m, j, h, d, o) ==
  LET a == At(S, m + 1)
  IN  IF j = 0
      THEN d = << >> /\ DOMAIN h[a].tabs = {1} /\ TabAt(h, a, 1).id = h[a].id + 1
      ELSE /\ DOMAIN h[a].tabs = 1 .. j /\ TabsBack(h, a, Pos(S, m + 1), j - 1, o)
           /\ OthersOlder(h, a, j, TabAt(h, a, j).id)
           /\ Chores(d, TabAt(h, a, j), Pos(S, m + 1), j, o)
Building(S, m, j, h, c, g, o) ==
  /\ OneMore(S, m, h, g, o) /\ j \in 0 .. Len(Session[Pos(S, m + 1)].tabs) /\ DOMAIN g = 1 .. j
  /\ \E d \in Prefixes(c) :
       /\ RebuiltBut(S, m, j, h, d, o)
       /\ c = d \o (Applies(Pos(S, m + 1), h[At(S, m + 1)].id, j)
                      \o (<<ArrangeCall(Pos(S, m + 1))>> \o Each(S, m + 1)))

\* All are, and l of them are in their places.
Placing(S, m, l, h, c, g, o) ==
  LET i == Pos(S, m + 1)
  IN  /\ OneMore(S, m, h, g, o) /\ l \in 0 .. Len(Session[i].tabs)
      /\ DOMAIN g = DOMAIN Session[i].tabs
      /\ DOMAIN h[At(S, m + 1)].tabs = DOMAIN Session[i].tabs
      /\ TabsBack(h, At(S, m + 1), i, Len(Session[i].tabs), o)
      /\ c = Moves(g, Len(Session[i].tabs), l) \o (Shows(i, g) \o Each(S, m + 1))

WorkspaceStory(S, h, c, g, o) ==
  \E m \in 0 .. Cardinality(S) :
    \/ BetweenWorkspaces(S, m, h, c, o) \/ Creating(S, m, h, c, o)
    \/ m < Cardinality(S) /\ \E j \in 0 .. Len(Session[Pos(S, m + 1)].tabs) :
         Building(S, m, j, h, c, g, o) \/ Placing(S, m, j, h, c, g, o)

(***************************************************************************)
(* All of it.                                                              *)
(***************************************************************************)
\* Of a hydrated pane there is neither a focus nor a place to promise.
HydratedStory(e) ==
  /\ e.granularity = "pane" /\ e.workspaces # {}
  /\ \A ws \in e.workspaces :
       /\ 1 \in DOMAIN ws.tabs
       /\ \A tab \in Range(ws.tabs) :
            /\ tab.focused_pane_id \notin tab.panes /\ tab.panes # {}
            /\ \A pane \in tab.panes : locate(tab.layout, pane) = {}

TabTold ==
  \E i \in DOMAIN Session : \E j \in DOMAIN Session[i].tabs :
    /\ ClosesTab(i, j, entry)
    /\ IF pc \in {"calling", "over"} THEN TabStory(i, j, herdr, calls, occupied)
       ELSE TabGone(herdr, Session, i, j)
PaneTold ==
  \E i \in DOMAIN Session : \E j \in DOMAIN Session[i].tabs :
  \E pane \in PaneIds(TabAt(Session, i, j).layout) :
    /\ ClosesPane(i, j, pane, entry)
    /\ IF pc \in {"calling", "over"} THEN PaneStory(i, j, pane, herdr, calls, occupied)
       ELSE PaneGone(i, j, pane, herdr)
    /\ pc = "over" \/ calls = << >> \/ Head(calls).call # "pane.split" \/ next = FirstNew
WorkspacesTold ==
  \E S \in SUBSET DOMAIN Session :
    /\ ClosesWorkspaces(S, entry)
    /\ IF pc \in {"calling", "over"}
       THEN WorkspaceStory(S, herdr, calls, created, occupied) /\ Unlisted(S, live)
       ELSE WorkspacesGone(S, herdr)

Listed ==
  /\ pc = "idle" \/ pc = "workspaces" => calls = << >> /\ next = FirstNew
  /\ pc = "tabs" => calls = << >> /\ next = FirstNew /\ live.workspaces = WorkspaceRows(herdr)
  /\ pc = "panes" => calls = << >> /\ next = FirstNew
                     /\ live.workspaces = WorkspaceRows(herdr) /\ live.tabs = TabRows(herdr)
  /\ pc = "over" => calls = << >>
  /\ live = [workspaces |-> live.workspaces, tabs |-> live.tabs, panes |-> live.panes]

Calm == faults = 0 /\ changes = 0
Story ==
  Calm => /\ Listed /\ pc # "dead"
          /\ HydratedStory(entry) \/ TabTold \/ PaneTold \/ WorkspacesTold

\* A remembered pane of a rebuilt tab has one new id, that of a pane of the tab.
LEMMA NewIdIs ==
  ASSUME NEW layout, IsLayout(layout), PanesApart(layout), NEW n \in Nat,
         NEW pane \in PaneIds(layout),
         NEW full, full = Filled(strip_pane_ids(layout), n),
         NEW x, x = NewId(map_pane_ids(layout, full), pane)
  PROVE  /\ <<pane, x>> \in map_pane_ids(layout, full)
         /\ x \in PaneIds(full) /\ x # None
         /\ \A m \in map_pane_ids(layout, full) : m[1] \in PaneIds(layout)
<1> DEFINE root == strip_pane_ids(layout)
           maps == map_pane_ids(layout, full)
<1>1. IsLayout(root) /\ Leaves(root) = Leaves(layout)
  BY StripIsLayout
<1>2. IsLayout(full) /\ Leaves(full) = Leaves(layout)
      /\ PaneIds(full) = n .. n + Cardinality(Leaves(layout)) - 1
  <2>1. full = Filled(root, n)
    OBVIOUS
  <2> HIDE DEF root
  <2>2. QED
    BY <1>1, <2>1, FilledIsLayout
<1>3. \E m \in maps : m[1] = pane
  BY PanesMatched
<1>4. ASSUME NEW m \in maps
      PROVE  m = <<m[1], m[2]>> /\ m[1] \in PaneIds(layout) /\ m[2] \in PaneIds(full)
  <2>1. PICK k \in DOMAIN leaves(layout) \cap DOMAIN leaves(full) :
          m = <<leaf_pane_ids(layout)[k], leaf_pane_ids(full)[k]>>
    BY DEF map_pane_ids
  <2>2. leaves(layout)[k] \in Leaves(layout) /\ leaves(full)[k] \in Leaves(full)
    BY <1>2, LeavesAreListed
  <2>3. leaf_pane_ids(layout)[k] = layout[leaves(layout)[k]].pane_id
        /\ leaf_pane_ids(full)[k] = full[leaves(full)[k]].pane_id
    BY DEF leaf_pane_ids
  <2>4. leaf_pane_ids(layout)[k] \in PaneIds(layout) /\ leaf_pane_ids(full)[k] \in PaneIds(full)
    BY <2>2, <2>3 DEF PaneIds
  <2>5. QED
    BY <2>1, <2>4
<1> HIDE DEF maps, root
<1>5. x = NewId(maps, pane)
  BY DEF maps
<1>6. x = (CHOOSE m \in maps : m[1] = pane)[2]
  BY <1>3, <1>5 DEF NewId
<1>7. PICK m \in maps : m[1] = pane /\ x = m[2]
  BY <1>3, <1>6
<1>8. <<pane, x>> \in maps /\ x \in PaneIds(full)
  BY <1>4, <1>7
<1>9. x # None
  BY <1>2, <1>8, LeavesAreListed, IdAssumption
<1>10. QED
  BY <1>4, <1>8, <1>9 DEF maps

(***************************************************************************)
(* The steps of an undisturbed reopen.                                     *)
(***************************************************************************)
LEMMA CalmCall ==
  ASSUME Calm, Calm', [Next]_vars, pc = "calling", calls # << >>
  PROVE  \/ UNCHANGED vars
         \/ RestoreWorkspace \/ CreateWorkspace \/ ApplyLayout \/ SplitPane \/ RestoreOccupants
         \/ Arrange \/ RenameTab \/ MoveTab \/ FocusTab \/ FocusPane \/ SwapPanes
<1>1. ~Fault
  BY DEF Fault, Calm
<1>2. ~Change
  BY DEF Change, Calm
<1>3. ~Kill /\ ~UserCloses /\ ~UserOpens /\ ~UserSplits
  BY <1>1, <1>2 DEF Kill, UserCloses, UserOpens, UserSplits
<1>4. ~Pop /\ ~FetchWorkspaces /\ ~FetchTabs /\ ~FetchPanes /\ ~End
  BY DEF Pop, FetchWorkspaces, FetchTabs, FetchPanes, Fetch, End
<1> QED
  BY <1>3, <1>4 DEF Next, ReopenStep

\* Without a fault every request that can be carried out is, and is answered.
LEMMA CalmOutcome ==
  ASSUME Calm, Calm', NEW possible, possible = TRUE, NEW outcome, Outcome(possible, outcome)
  PROVE  outcome = "answered"
<1>1. ~Fault
  BY DEF Fault, Calm
<1> QED
  BY <1>1 DEF Outcome

LEMMA CalmTry ==
  ASSUME Calm, Calm', NEW name, NEW after, Try(name, after)
  PROVE  /\ herdr' = after /\ Head(calls).call = name /\ pc = "calling"
         /\ calls' = << >> \o Tail(calls)
         /\ UNCHANGED <<entry, pc, live, occupied, created, next>>
<1>1. ~Fault
  BY DEF Fault, Calm
<1> QED
  BY <1>1 DEF Try, Due, Then, reply

LEMMA CalmApply ==
  ASSUME Calm, Calm', ApplyLayout, NEW c, c = Head(calls), NEW i \in DOMAIN herdr,
         herdr[i].id = c.into, NEW u \in Range(herdr[i].tabs), c.placeholder = None
         \/ u.id = c.placeholder
  PROVE  /\ herdr' = Applied(herdr, c.into, c.placeholder, c.label,
            strip_pane_ids(c.tab.layout))
         /\ created' = (IF c.live_count = None THEN Append(created, next) ELSE created)
         /\ calls' = Follow(c, Filled(strip_pane_ids(c.tab.layout), next + 1)) \o Tail(calls)
         /\ UNCHANGED <<entry, pc, live, occupied>>
<1> DEFINE root  == strip_pane_ids(c.tab.layout)
           tabs  == UNION {Range(w.tabs) : w \in {v \in Range(herdr) : v.id = c.into}}
           old   == {t \in tabs : t.id = c.placeholder}
<1>1. u \in tabs /\ (c.placeholder # None => u \in old)
  BY DEF Range
<1>2. PICK outcome \in {"answered", "refused", "lost"} :
        /\ Outcome(tabs # {} /\ (c.placeholder = None \/ old # {}), outcome)
        /\ Make(outcome, Applied(herdr, c.into, c.placeholder, c.label, root),
                next .. next + Cardinality(Leaves(root)),
                UNION {{t.id} \cup PaneIds(t.layout) : t \in old}, "tabs", next)
        /\ created' = IF outcome = "answered" /\ c.live_count = None
                      THEN Append(created, next) ELSE created
        /\ Then(IF outcome = "answered" THEN Follow(c, Filled(root, next + 1)) ELSE << >>)
  BY Zenon DEF ApplyLayout
<1>3. (tabs # {} /\ (c.placeholder = None \/ old # {})) = TRUE
  BY <1>1
<1>4. outcome = "answered"
  BY <1>2, <1>3, CalmOutcome
<1>5. herdr' = Applied(herdr, c.into, c.placeholder, c.label, root)
  BY <1>2, <1>4 DEF Make
<1> QED
  BY <1>2, <1>4, <1>5 DEF Then, ApplyLayout

LEMMA CalmSplit ==
  ASSUME Calm, Calm', SplitPane, NEW c, c = Head(calls), c.target \in PanesIn(herdr)
  PROVE  /\ herdr' = PaneSplit(herdr, c.target, c.direction, c.ratio, Pane(next, c.cwd))
         /\ calls' = ((IF c.swap THEN <<[call |-> "pane.swap", source |-> next,
            target |-> c.target]>>
                                 ELSE << >>)
                        \o <<[call |-> "restore_occupant", panes |-> {next},
                              pairs |-> {<<c.pane, next>>}, focus |-> next]>>) \o Tail(calls)
         /\ UNCHANGED <<entry, pc, live, occupied, created>>
<1> DEFINE after == PaneSplit(herdr, c.target, c.direction, c.ratio, Pane(next, c.cwd))
           more == (IF c.swap THEN <<[call |-> "pane.swap", source |-> next,
           target |-> c.target]>>
                                 ELSE << >>)
                        \o <<[call |-> "restore_occupant", panes |-> {next},
                              pairs |-> {<<c.pane, next>>}, focus |-> next]>>
<1>1. PICK outcome \in {"answered", "refused", "lost"} :
        /\ Outcome(c.target \in PanesIn(herdr), outcome)
        /\ Make(outcome, after, {next}, {}, "panes", next)
        /\ Then(IF outcome # "answered" THEN << >> ELSE more)
  BY Zenon DEF SplitPane
<1>2. (c.target \in PanesIn(herdr)) = TRUE
  OBVIOUS
<1>3. outcome = "answered"
  BY <1>1, <1>2, CalmOutcome
<1>4. herdr' = after
  BY <1>1, <1>3 DEF Make
<1> QED
  BY <1>1, <1>3, <1>4 DEF Then, SplitPane

LEMMA CalmCreate ==
  ASSUME Calm, Calm', CreateWorkspace, NEW ws, ws = Head(calls).ws
  PROVE  /\ herdr' = WithWorkspace(herdr, next, effective_ws_label(ws.label, ws.cwd), ws.cwd,
                                   Tab(next + 1, None, next + 2, Leaf(next + 2, ws.cwd)))
         /\ created' = << >>
         /\ calls' = Append([j \in DOMAIN ws.tabs |->
                               Apply(next, IF j = 1 THEN next + 1 ELSE None,
                                     IF j = 1 THEN None ELSE effective_tab_label(ws.tabs[j].label),
                                     ws.tabs[j])], [call |-> "arrange", ws |-> ws])
                                     \o Tail(calls)
         /\ UNCHANGED <<entry, pc, live, occupied>>
<1> DEFINE tabs == [j \in DOMAIN ws.tabs |->
                      Apply(next, IF j = 1 THEN next + 1 ELSE None,
                            IF j = 1 THEN None ELSE effective_tab_label(ws.tabs[j].label),
                            ws.tabs[j])]
           after == WithWorkspace(herdr, next, effective_ws_label(ws.label, ws.cwd), ws.cwd,
                                  Tab(next + 1, None, next + 2, Leaf(next + 2, ws.cwd)))
<1>1. PICK outcome \in {"answered", "refused", "lost"} :
        /\ Outcome(TRUE, outcome)
        /\ Make(outcome, after, next .. next + 2, {}, "workspaces", next)
        /\ Then(IF outcome = "answered"
                   THEN Append(tabs, [call |-> "arrange", ws |-> ws]) ELSE << >>)
  BY Zenon DEF CreateWorkspace
<1>2. outcome = "answered"
  BY <1>1, CalmOutcome
<1>3. herdr' = after
  BY <1>1, <1>2 DEF Make
<1> QED
  BY <1>1, <1>2, <1>3 DEF Then, CreateWorkspace

LEMMA CalmOccupy ==
  ASSUME Calm, Calm', RestoreOccupants, NEW c, c = Head(calls)
  PROVE  /\ occupied' = occupied \cup c.pairs
         /\ calls' = (IF FocusOnReopen /\ c.focus # None
                      THEN <<[call |-> "pane.focus", pane |-> c.focus]>> ELSE << >>)
                      \o Tail(calls)
         /\ UNCHANGED <<herdr, entry, pc, live, created>>
  BY DEF RestoreOccupants, Then

LEMMA CalmArrange ==
  ASSUME Arrange, NEW ws, ws = Head(calls).ws
  PROVE  /\ calls' = ([j \in DOMAIN created |->
                        [call |-> "tab.move", tab |-> created[j], index |-> j - 1]]
                       \o (IF FocusOnReopen
                           THEN SetToSeq({[call |-> "tab.focus", tab |-> created[j]] :
                                  j \in {k \in DOMAIN ws.tabs : ws.tabs[k].tab_id = ws.active_tab_id}
                                          \cap DOMAIN created})
                           ELSE << >>)) \o Tail(calls)
         /\ UNCHANGED <<herdr, entry, pc, live, created, occupied>>
  BY DEF Arrange, Then, reply

LEMMA CalmWorkspace ==
  ASSUME RestoreWorkspace
  PROVE  \E ws \in Head(calls).left :
           /\ \A v \in Head(calls).left : ws.index <= v.index
           /\ calls' = (restore_workspace(ws, live) \o RestoreEach(Head(calls).left \ {ws}))
              \o Tail(calls)
           /\ UNCHANGED <<herdr, entry, pc, live, created, occupied>>
  BY DEF RestoreWorkspace, Then, reply

LEMMA CalmNamed ==
  ASSUME Calm, Calm', [Next]_vars, ~UNCHANGED vars, pc = "calling", calls # << >>
  PROVE  /\ Head(calls).call = "restore_workspace" => RestoreWorkspace
         /\ Head(calls).call = "workspace.create" => CreateWorkspace
         /\ Head(calls).call = "layout.apply" => ApplyLayout
         /\ Head(calls).call = "pane.split" => SplitPane
         /\ Head(calls).call = "restore_occupant" => RestoreOccupants
         /\ Head(calls).call = "arrange" => Arrange
         /\ Head(calls).call = "tab.rename" => RenameTab
         /\ Head(calls).call = "tab.move" => MoveTab
         /\ Head(calls).call = "tab.focus" => FocusTab
         /\ Head(calls).call = "pane.focus" => FocusPane
         /\ Head(calls).call = "pane.swap" => SwapPanes
<1> DEFINE name == Head(calls).call
<1>1. /\ RestoreWorkspace => name = "restore_workspace"
      /\ CreateWorkspace => name = "workspace.create"
      /\ ApplyLayout => name = "layout.apply"
      /\ SplitPane => name = "pane.split"
      /\ RestoreOccupants => name = "restore_occupant"
      /\ Arrange => name = "arrange"
  BY DEF RestoreWorkspace, CreateWorkspace, ApplyLayout, SplitPane, RestoreOccupants, Arrange,
     Due
<1>2. /\ RenameTab => name = "tab.rename"
      /\ MoveTab => name = "tab.move"
      /\ FocusTab => name = "tab.focus"
      /\ FocusPane => name = "pane.focus"
      /\ SwapPanes => name = "pane.swap"
  BY DEF RenameTab, MoveTab, FocusTab, FocusPane, SwapPanes, Try, Due
<1>3. \/ RestoreWorkspace \/ CreateWorkspace \/ ApplyLayout \/ SplitPane \/ RestoreOccupants
      \/ Arrange \/ RenameTab \/ MoveTab \/ FocusTab \/ FocusPane \/ SwapPanes
  BY CalmCall
<1>4. CASE RestoreWorkspace
  <2>1. name = "restore_workspace"
    BY <1>1, <1>2, <1>4
  <2> QED
    BY <2>1, <1>4
<1>5. CASE CreateWorkspace
  <2>1. name = "workspace.create"
    BY <1>1, <1>2, <1>5
  <2> QED
    BY <2>1, <1>5
<1>6. CASE ApplyLayout
  <2>1. name = "layout.apply"
    BY <1>1, <1>2, <1>6
  <2> QED
    BY <2>1, <1>6
<1>7. CASE SplitPane
  <2>1. name = "pane.split"
    BY <1>1, <1>2, <1>7
  <2> QED
    BY <2>1, <1>7
<1>8. CASE RestoreOccupants
  <2>1. name = "restore_occupant"
    BY <1>1, <1>2, <1>8
  <2> QED
    BY <2>1, <1>8
<1>9. CASE Arrange
  <2>1. name = "arrange"
    BY <1>1, <1>2, <1>9
  <2> QED
    BY <2>1, <1>9
<1>10. CASE RenameTab
  <2>1. name = "tab.rename"
    BY <1>1, <1>2, <1>10
  <2> QED
    BY <2>1, <1>10
<1>11. CASE MoveTab
  <2>1. name = "tab.move"
    BY <1>1, <1>2, <1>11
  <2> QED
    BY <2>1, <1>11
<1>12. CASE FocusTab
  <2>1. name = "tab.focus"
    BY <1>1, <1>2, <1>12
  <2> QED
    BY <2>1, <1>12
<1>13. CASE FocusPane
  <2>1. name = "pane.focus"
    BY <1>1, <1>2, <1>13
  <2> QED
    BY <2>1, <1>13
<1>14. CASE SwapPanes
  <2>1. name = "pane.swap"
    BY <1>1, <1>2, <1>14
  <2> QED
    BY <2>1, <1>14
<1> QED
  BY <1>3, <1>4, <1>5, <1>6, <1>7, <1>8, <1>9, <1>10, <1>11, <1>12, <1>13, <1>14

LEMMA SnapIs ==
  ASSUME NEW i, NEW j, IsPlace(Session, i, j), NEW s, s = TabAt(Session, i, j)
  PROVE  /\ IsTab(s) /\ IsLayout(s.layout) /\ PanesApart(s.layout)
            /\ s.focused \in PaneIds(s.layout)
         /\ s.id \in Old /\ PaneIds(s.layout) \subseteq Old /\ Leaves(s.layout) # {}
         /\ SnapAt(i, j).tab_id = s.id /\ SnapAt(i, j).label = s.label
            /\ SnapAt(i, j).index = j - 1
         /\ SnapAt(i, j).layout = s.layout /\ SnapAt(i, j).focused_pane_id = s.focused
         /\ SnapAt(i, j).panes = PaneIds(s.layout)
<1>1. i \in DOMAIN Session /\ j \in DOMAIN Session[i].tabs /\ s = Session[i].tabs[j]
  BY DEF IsPlace, TabAt
<1>2. Sound(Session, FirstNew) /\ FirstNew \in Nat
  BY SessionSound, IdAssumption
<1>3. /\ IsTab(s) /\ s.id \in 0 .. FirstNew - 1 /\ Leaves(s.layout) # {}
      /\ PaneIds(s.layout) \subseteq 0 .. FirstNew - 1 /\ s.focused \in PaneIds(s.layout)
  BY <1>1, <1>2, SoundTabs
<1>4. SnapAt(i, j) = [tab_id |-> s.id, label |-> s.label, index |-> j - 1,
                      layout |-> s.layout, focused_pane_id |-> s.focused,
                      panes |-> PaneIds(s.layout)]
  BY <1>1 DEF SnapAt, TabSnap
<1> QED
  BY <1>3, <1>4 DEF IsTab, Old

LEMMA LaidIs ==
  ASSUME NEW s, IsTab(s), Leaves(s.layout) # {}, NEW t, t.id \in Nat, Laid(t, s)
  PROVE  /\ strip_pane_ids(t.layout) = strip_pane_ids(s.layout)
         /\ \A p \in PaneIds(t.layout) : p \in Nat /\ p > t.id
<1>1. IsLayout(s.layout)
  BY DEF IsTab
<1>2. strip_pane_ids(t.layout) = strip_pane_ids(s.layout)
  BY <1>1, StripFilled DEF Laid
<1> DEFINE root == strip_pane_ids(s.layout)
<1>3. IsLayout(root) /\ Leaves(root) = Leaves(s.layout)
  BY <1>1, StripIsLayout
<1>4. Cardinality(Leaves(root)) \in Nat
  BY <1>3, LeavesAreListed
<1> HIDE DEF root
<1>5. PaneIds(Filled(root, t.id + 1)) = t.id + 1 .. t.id + 1 + Cardinality(Leaves(root)) - 1
  BY <1>3, FilledIsLayout
<1>6. t.layout = Filled(root, t.id + 1)
  BY DEF Laid, root
<1> QED
  BY <1>2, <1>4, <1>5, <1>6

LEMMA OlderIds ==
  ASSUME NEW h, NEW i, NEW j, IsPlace(h, i, j), NEW n \in Nat, Sound(h, n),
         NEW t, t = TabAt(h, i, j), OthersOlder(h, i, j, t.id)
  PROVE  /\ IdAt(h, i, j, t.id) /\ t.id \in Nat /\ IsTab(t)
         /\ \A p \in PaneIds(t.layout) : p > t.id => PaneAt(h, i, j, p)
<1>1. i \in DOMAIN h /\ j \in DOMAIN h[i].tabs
  BY DEF IsPlace
<1>2. \A a \in DOMAIN h : \A b \in DOMAIN h[a].tabs :
        IsTab(h[a].tabs[b]) /\ h[a].tabs[b].id \in 0 .. n - 1
        /\ PaneIds(h[a].tabs[b].layout) \subseteq 0 .. n - 1
  BY SoundTabs
<1>3. \A a \in DOMAIN h : \A b \in DOMAIN h[a].tabs :
        IsTab(TabAt(h, a, b)) /\ TabAt(h, a, b).id \in Nat
        /\ \A p \in PaneIds(TabAt(h, a, b).layout) : p \in Nat
  BY <1>2 DEF TabAt
<1>4. t.id \in Nat /\ IsTab(t) /\ \A p \in PaneIds(t.layout) : p \in Nat
  BY <1>1, <1>3
<1>5. IdAt(h, i, j, t.id)
  BY <1>3, <1>4 DEF IdAt, OthersOlder
<1>6. ASSUME NEW p \in PaneIds(t.layout), p > t.id PROVE PaneAt(h, i, j, p)
  BY <1>3, <1>4, <1>6 DEF PaneAt, OthersOlder
<1> QED
  BY <1>4, <1>5, <1>6

(***************************************************************************)
(* The chores of a tab that is being rebuilt.                              *)
(***************************************************************************)

LEMMA OneFirst ==
  ASSUME NEW x, NEW rest, IsSeq(rest)
  PROVE  /\ IsSeq(<<x>>) /\ <<x>> \o rest # << >> /\ Head(<<x>> \o rest) = x
            /\ Tail(<<x>> \o rest) = rest
         /\ << >> \o rest = rest /\ IsSeq(<< >>) /\ IsSeq(<<x>> \o rest)
<1>1. IsSeq(<<x>>) /\ IsSeq(<< >>) /\ Len(<<x>>) = 1 /\ <<x>> # << >>
  BY OneIsSeq, EmptyIsSeq
<1>2. << >> \o rest = rest
  BY <1>1, FirstOfConcat
<1>3. Tail(<<x>>) = << >>
  BY <1>1, TailIsSeq
<1>4. <<x>> \o rest # << >> /\ Head(<<x>> \o rest) = <<x>>[1]
      /\ Tail(<<x>> \o rest) = Tail(<<x>>) \o rest /\ IsSeq(<<x>> \o rest)
  BY <1>1, FirstOfConcat
<1> QED
  BY <1>1, <1>2, <1>3, <1>4

LEMMA TwoFirst ==
  ASSUME NEW x, NEW y, NEW rest, IsSeq(rest)
  PROVE  /\ IsSeq(<<x, y>>) /\ <<x, y>> \o rest # << >> /\ Head(<<x, y>> \o rest) = x
         /\ Tail(<<x, y>> \o rest) = <<y>> \o rest /\ IsSeq(<<x, y>> \o rest)
<1>1. <<x, y>> \in Seq({x, y})
  OBVIOUS
<1>2. IsSeq(<<x, y>>)
  BY <1>1, SeqWithRange
<1>3. Tail(<<x, y>>) = <<y>> /\ <<x, y>> # << >> /\ <<x, y>>[1] = x
  OBVIOUS
<1>4. <<x, y>> \o rest # << >> /\ Head(<<x, y>> \o rest) = <<x, y>>[1]
      /\ Tail(<<x, y>> \o rest) = Tail(<<x, y>>) \o rest /\ IsSeq(<<x, y>> \o rest)
  BY <1>2, FirstOfConcat
<1> QED
  BY <1>2, <1>3, <1>4

\* A tab that is rebuilt goes on as it should: named, filled, focused.
NextChore(i, j, t, s, rest, d, u) ==
  /\ TabBecomes(herdr', herdr, i, j, u) /\ u.id = t.id /\ PaneIds(u.layout) = PaneIds(t.layout)
  /\ Chores(d, u, s[1], s[2], occupied') /\ IsSeq(d) /\ calls' = d \o rest
  /\ occupied \subseteq occupied' /\ UNCHANGED <<entry, pc, live, created>>

LEMMA TabOf ==
  ASSUME NEW id, NEW label, NEW focused, NEW layout, NEW u, u = Tab(id, label, focused, layout)
  PROVE  u.id = id /\ u.label = label /\ u.focused = focused /\ u.layout = layout
  BY DEF Tab

LEMMA SameTab ==
  ASSUME NEW h, NEW i, NEW j, NEW u, u = TabAt(h, i, j)
  PROVE  TabBecomes(h, h, i, j, u)
  BY DEF TabBecomes, OnlyTab, Alike

LEMMA NamingStep ==
  ASSUME ReopenInv, Calm, Calm', RenameTab,
         NEW i, NEW j, IsPlace(herdr, i, j), NEW t, t = TabAt(herdr, i, j),
         OthersOlder(herdr, i, j, t.id),
         NEW k, NEW l, IsPlace(Session, k, l), NEW d, NEW rest, IsSeq(rest), calls = d \o rest,
         Laid(t, TabAt(Session, k, l)), Naming(d, t, k, l)
  PROVE  \E e, u : NextChore(i, j, t, <<k, l>>, rest, e, u)
<1> DEFINE s == TabAt(Session, k, l)
           u == Tab(t.id, s.label, t.focused, t.layout)
           e == <<FillCall(u, k, l)>>
<1>1. Sound(herdr, next) /\ next \in Nat
  BY DEF ReopenInv, HerdrInv
<1>2. IdAt(herdr, i, j, t.id)
  BY <1>1, OlderIds
<1>3. d = <<RenameCall(t, s), FillCall(t, k, l)>>
  BY DEF Naming
<1>4. Head(calls) = RenameCall(t, s) /\ Tail(calls) = <<FillCall(t, k, l)>> \o rest
      /\ IsSeq(<<FillCall(t, k, l)>> \o rest)
  <2>1. IsSeq(rest) /\ calls = <<RenameCall(t, s), FillCall(t, k, l)>> \o rest
    BY <1>3
  <2> QED
    BY ONLY <2>1, TwoFirst, OneFirst
<1>5. Head(calls).tab = t.id /\ Head(calls).label = s.label
  BY <1>4 DEF RenameCall
<1>6. Try("tab.rename", Renamed(herdr, t.id, s.label))
  BY <1>5 DEF RenameTab
<1>7. /\ herdr' = Renamed(herdr, t.id, s.label) /\ calls' = << >> \o Tail(calls)
      /\ UNCHANGED <<entry, pc, live, occupied, created>>
  BY <1>6, CalmTry
<1>8. u.id = t.id /\ u.label = s.label /\ u.focused = t.focused /\ u.layout = t.layout
  BY TabOf
<1> HIDE DEF u
<1>9. TabBecomes(herdr', herdr, i, j, u)
  BY <1>1, <1>2, <1>7, RenamedIs DEF u
<1>10. FillCall(u, k, l) = FillCall(t, k, l)
  BY <1>8 DEF FillCall
<1>11. calls' = e \o rest /\ IsSeq(e)
  BY <1>4, <1>7, <1>10, OneFirst
<1>12. Chores(e, u, k, l, occupied')
  BY <1>8 DEF Chores, Filling, Laid, Named
<1> QED
  BY <1>7, <1>8, <1>9, <1>11, <1>12 DEF NextChore

LEMMA FillingStep ==
  ASSUME ReopenInv, Calm, Calm', RestoreOccupants,
         NEW i, NEW j, IsPlace(herdr, i, j), NEW t, t = TabAt(herdr, i, j),
         OthersOlder(herdr, i, j, t.id),
         NEW k, NEW l, IsPlace(Session, k, l), NEW d, NEW rest, IsSeq(rest), calls = d \o rest,
         Laid(t, TabAt(Session, k, l)), Filling(d, t, k, l)
  PROVE  \E e, u : NextChore(i, j, t, <<k, l>>, rest, e, u)
<1> DEFINE s == TabAt(Session, k, l)
           c == FillCall(t, k, l)
           mapping == map_pane_ids(s.layout, t.layout)
           x == NewId(mapping, s.focused)
<1>1. Sound(herdr, next) /\ next \in Nat
  BY DEF ReopenInv, HerdrInv
<1>2. t.id \in Nat /\ IsTab(t)
  BY <1>1, OlderIds
<1>3. d = <<c>> /\ Named(t, s)
  BY DEF Filling
<1>4. Head(calls) = c /\ Tail(calls) = rest
  BY <1>3, OneFirst
<1>5. /\ IsTab(s) /\ IsLayout(s.layout) /\ PanesApart(s.layout)
         /\ s.focused \in PaneIds(s.layout) /\ Leaves(s.layout) # {}
      /\ SnapAt(k, l).layout = s.layout /\ SnapAt(k, l).focused_pane_id = s.focused
      /\ SnapAt(k, l).panes = PaneIds(s.layout)
  BY SnapIs
<1>6. c = [call |-> "restore_occupant", panes |-> PaneIds(t.layout),
           pairs |-> {m \in mapping : m[1] \in PaneIds(s.layout)}, focus |-> x]
  BY <1>5 DEF FillCall, finish_tab
<1>7. t.layout = Filled(strip_pane_ids(s.layout), t.id + 1)
  BY DEF Laid
<1>8. <<s.focused, x>> \in mapping /\ x \in PaneIds(t.layout) /\ x # None
  BY <1>2, <1>5, <1>7, NewIdIs
<1> HIDE DEF c, mapping, x
<1>9. /\ occupied' = occupied \cup c.pairs
      /\ calls' = (IF FocusOnReopen /\ c.focus # None
                   THEN <<[call |-> "pane.focus", pane |-> c.focus]>> ELSE << >>) \o rest
      /\ UNCHANGED <<herdr, entry, pc, live, created>>
  BY <1>4, CalmOccupy
<1>10. c.focus = x /\ c.pairs = {m \in mapping : m[1] \in PaneIds(s.layout)}
  BY <1>6
<1>11. <<s.focused, x>> \in occupied'
  BY <1>5, <1>8, <1>9, <1>10
<1>12. strip_pane_ids(t.layout) = strip_pane_ids(s.layout)
  BY <1>2, <1>5, LaidIs
<1> DEFINE e == IF FocusOnReopen THEN <<FocusCall(x)>> ELSE << >>
<1>13. calls' = e \o rest /\ IsSeq(e)
  BY <1>8, <1>9, <1>10, OneIsSeq, EmptyIsSeq DEF FocusCall
<1>14. Chores(e, t, k, l, occupied')
  <2>1. CASE FocusOnReopen
    BY <2>1, <1>3, <1>8, <1>11 DEF Chores, Watching
  <2>2. CASE ~FocusOnReopen
    BY <2>2, <1>3, <1>12 DEF Chores, TabBack, Watched
  <2> QED
    BY <2>1, <2>2
<1>15. TabBecomes(herdr', herdr, i, j, t)
  BY <1>9, SameTab
<1> QED
  BY <1>9, <1>13, <1>14, <1>15 DEF NextChore

LEMMA WatchingStep ==
  ASSUME ReopenInv, Calm, Calm', FocusPane,
         NEW i, NEW j, IsPlace(herdr, i, j), NEW t, t = TabAt(herdr, i, j),
         OthersOlder(herdr, i, j, t.id),
         NEW k, NEW l, IsPlace(Session, k, l), NEW d, NEW rest, IsSeq(rest), calls = d \o rest,
         Laid(t, TabAt(Session, k, l)), Watching(d, t, k, l, occupied)
  PROVE  \E e, u : NextChore(i, j, t, <<k, l>>, rest, e, u)
<1> DEFINE s == TabAt(Session, k, l)
<1>1. Sound(herdr, next) /\ next \in Nat
  BY DEF ReopenInv, HerdrInv
<1>2. t.id \in Nat /\ IsTab(t) /\ \A p \in PaneIds(t.layout) : p > t.id
      => PaneAt(herdr, i, j, p)
  BY <1>1, OlderIds
<1>3. IsTab(s) /\ Leaves(s.layout) # {}
  BY SnapIs
<1>4. strip_pane_ids(t.layout) = strip_pane_ids(s.layout)
      /\ \A p \in PaneIds(t.layout) : p > t.id
  BY <1>2, <1>3, LaidIs
<1>5. PICK x \in PaneIds(t.layout) : d = <<FocusCall(x)>> /\ <<s.focused, x>> \in occupied
  BY DEF Watching
<1>6. Named(t, s)
  BY DEF Watching
<1> DEFINE u == Tab(t.id, t.label, x, t.layout)
<1>7. u.id = t.id /\ u.label = t.label /\ u.focused = x /\ u.layout = t.layout
  BY TabOf
<1>8. PaneAt(herdr, i, j, x)
  BY <1>2, <1>4
<1>9. Head(calls) = FocusCall(x) /\ Tail(calls) = rest
  BY <1>5, OneFirst
<1>10. Try("pane.focus", PaneFocused(herdr, x))
  <2>1. FocusCall(x).pane = x
    BY ONLY DEF FocusCall
  <2>2. Head(calls).pane = x
    BY ONLY <1>9, <2>1
  <2> QED
    BY <2>2 DEF FocusPane
<1>11. herdr' = PaneFocused(herdr, x) /\ calls' = << >> \o Tail(calls)
      /\ UNCHANGED <<entry, pc, live, occupied, created>>
  BY <1>10, CalmTry
<1>12. TabBecomes(herdr', herdr, i, j, u)
  BY <1>1, <1>8, <1>11, PaneFocusedIs
<1> HIDE DEF u
<1>13. calls' = << >> \o rest /\ IsSeq(<< >>)
  BY <1>9, <1>11, EmptyIsSeq
<1>14. Chores(<< >>, u, k, l, occupied')
  BY <1>4, <1>5, <1>6, <1>7, <1>11 DEF Chores, TabBack, Watched, Named, Laid
<1> QED
  BY <1>7, <1>11, <1>12, <1>13, <1>14 DEF NextChore

LEMMA ChoresStep ==
  ASSUME ReopenInv, Calm, Calm', [Next]_vars, ~UNCHANGED vars, pc = "calling",
         NEW i, NEW j, IsPlace(herdr, i, j), NEW t, t = TabAt(herdr, i, j),
         OthersOlder(herdr, i, j, t.id),
         NEW k, NEW l, IsPlace(Session, k, l), NEW d, d # << >>, NEW rest, IsSeq(rest),
         calls = d \o rest,
         Chores(d, t, k, l, occupied)
  PROVE  \E e, u : NextChore(i, j, t, <<k, l>>, rest, e, u)
<1> DEFINE s == TabAt(Session, k, l)
<1>1. Laid(t, s)
  BY DEF Chores
<1>2. CASE Naming(d, t, k, l)
  <2>1. d = <<RenameCall(t, s), FillCall(t, k, l)>>
    BY <1>2 DEF Naming
  <2>2. calls # << >> /\ Head(calls) = RenameCall(t, s)
    BY <2>1, TwoFirst
  <2>3. RenameTab
    BY <2>2, CalmNamed DEF RenameCall
  <2> QED
    BY <1>1, <1>2, <2>3, NamingStep
<1>3. CASE Filling(d, t, k, l)
  <2>1. d = <<FillCall(t, k, l)>>
    BY <1>3 DEF Filling
  <2>2. calls # << >> /\ Head(calls) = FillCall(t, k, l)
    BY <2>1, OneFirst
  <2>3. Head(calls).call = "restore_occupant"
    BY <2>2 DEF FillCall, finish_tab
  <2>4. RestoreOccupants
    BY <2>2, <2>3, CalmNamed
  <2> QED
    BY <1>1, <1>3, <2>4, FillingStep
<1>4. CASE Watching(d, t, k, l, occupied)
  <2>1. PICK x : d = <<FocusCall(x)>>
    BY <1>4 DEF Watching
  <2>2. calls # << >> /\ Head(calls) = FocusCall(x)
    BY <2>1, OneFirst
  <2>3. FocusPane
    BY <2>2, CalmNamed DEF FocusCall
  <2> QED
    BY <1>1, <1>4, <2>3, WatchingStep
<1> QED
  BY <1>2, <1>3, <1>4 DEF Chores

LEMMA PrefixIs ==
  ASSUME NEW d, IsSeq(d), NEW rest, IsSeq(rest)
  PROVE  d \in Prefixes(d \o rest)
<1> DEFINE S == Range(d) \cup Range(rest)
<1>1. d \in Seq(S) /\ rest \in Seq(S)
  <2>1. d \in Seq(Range(d)) /\ rest \in Seq(Range(rest))
    BY DEF IsSeq
  <2> QED
    BY <2>1
<1> HIDE DEF S
<1>2. d \o rest \in Seq(S) /\ Len(d \o rest) = Len(d) + Len(rest)
      /\ \A k \in 1 .. Len(d) : (d \o rest)[k] = d[k]
  BY <1>1, ConcatAt
<1>3. Len(d) \in Nat /\ Len(rest) \in Nat
  BY <1>1
<1>4. Len(d) \in 0 .. Len(d \o rest)
  BY <1>2, <1>3
<1> DEFINE p == SubSeq(d \o rest, 1, Len(d))
<1>5. p \in Seq(S) /\ Len(p) = Len(d) /\ \A k \in 1 .. Len(d) : p[k] = (d \o rest)[k]
  BY <1>2, <1>3, <1>4
<1>6. p = d
  BY <1>1, <1>2, <1>5, SameSeq
<1> QED
  BY <1>4, <1>6 DEF Prefixes

LEMMA OlderStays ==
  ASSUME NEW h, NEW r, NEW i, NEW j, NEW u, IsPlace(h, i, j), TabBecomes(r, h, i, j, u)
  PROVE  /\ IsPlace(r, i, j) /\ TabAt(r, i, j) = u /\ Others(r, h, i)
            /\ DOMAIN r[i].tabs = DOMAIN h[i].tabs
         /\ \A n : OthersOlder(h, i, j, n) => OthersOlder(r, i, j, n)
         /\ \A k \in DOMAIN h[i].tabs : k # j => TabAt(r, i, k) = TabAt(h, i, k)
<1>1. OnlyTab(r, h, i, j) /\ TabAt(r, i, j) = u
  BY DEF TabBecomes
<1>2. /\ DOMAIN r = DOMAIN h /\ DOMAIN r[i].tabs = DOMAIN h[i].tabs
      /\ \A a \in DOMAIN h : a # i => r[a] = h[a]
      /\ \A b \in DOMAIN h[i].tabs : b # j => r[i].tabs[b] = h[i].tabs[b]
  BY <1>1 DEF OnlyTab
<1>3. \A a \in DOMAIN h : DOMAIN r[a].tabs = DOMAIN h[a].tabs
  BY <1>2
<1>4. \A a \in DOMAIN h : \A b \in DOMAIN h[a].tabs : a # i \/ b # j
      => TabAt(r, a, b) = TabAt(h, a, b)
  BY <1>2 DEF TabAt
<1>5. IsPlace(r, i, j)
  BY <1>2 DEF IsPlace
<1>6. ASSUME NEW n, OthersOlder(h, i, j, n) PROVE OthersOlder(r, i, j, n)
  BY <1>2, <1>3, <1>4, <1>6 DEF OthersOlder
<1>7. Others(r, h, i)
  BY <1>1, OnlyTabOthers
<1>8. i \in DOMAIN h
  BY DEF IsPlace
<1> QED
  BY <1>1, <1>2, <1>4, <1>5, <1>6, <1>7, <1>8

LEMMA OthersTwice ==
  ASSUME NEW h, NEW r, NEW s, NEW i \in DOMAIN s, Others(r, h, i), Others(h, s, i)
  PROVE  Others(r, s, i)
  BY DEF Others, Alike

LEMMA NamedGiven ==
  ASSUME NEW label, NEW n \in Nat, n < Len(AutoLabels)
  PROVE  /\ effective_tab_label(LabelGiven(effective_tab_label(label),
            n)) = effective_tab_label(label)
         /\ label \in Range(AutoLabels)
            => effective_tab_label(LabelGiven(None, n)) = effective_tab_label(label)
<1>1. AutoLabels \in Seq(Range(AutoLabels))
  BY LabelAssumption
<1>2. n + 1 \in DOMAIN AutoLabels
  BY <1>1
<1>3. AutoLabels[n + 1] \in Range(AutoLabels)
  BY <1>2 DEF Range
<1> QED
  BY <1>3 DEF LabelGiven, effective_tab_label

LEMMA NewTabIs ==
  ASSUME HerdrInv, NEW layout, IsLayout(layout), Leaves(layout) # {}, NEW label,
         NEW t, t = Tab(next, label, next + 1, Filled(strip_pane_ids(layout), next + 1))
  PROVE  /\ t.id = next /\ t.label = label
            /\ t.layout = Filled(strip_pane_ids(layout), next + 1)
         /\ IsTab(t) /\ \A x \in TabsIn(herdr) : x.id # next
         /\ \E n \in Nat : Shown(t, n) /\ Sound(herdr, n)
<1> DEFINE root == strip_pane_ids(layout)
           n == next + Cardinality(Leaves(root)) + 1
<1>1. IsLayout(root) /\ Leaves(root) = Leaves(layout)
  BY StripIsLayout
<1>2. Cardinality(Leaves(root)) \in Nat /\ IsFiniteSet(Leaves(root))
  BY <1>1, LeavesAreListed
<1>3. Cardinality(Leaves(root)) # 0
  BY <1>1, <1>2, FS_EmptySet
<1>4. next \in Nat /\ Sound(herdr, next)
  BY DEF HerdrInv
<1>5. \A x \in TabsIn(herdr) : x.id # next
  BY <1>4, HerdrIs
<1> HIDE DEF root
<1>6. /\ IsLayout(Filled(root, next + 1)) /\ PanesApart(Filled(root, next + 1))
      /\ PaneIds(Filled(root, next + 1)) = next + 1 .. next + 1 + Cardinality(Leaves(root)) - 1
  BY <1>1, <1>4, FilledIsLayout
<1>7. t.id = next /\ t.label = label /\ t.layout = Filled(root, next + 1)
      /\ t.focused = next + 1
  BY TabOf DEF root
<1>8. IsTab(t)
  BY <1>4, <1>6, NewTab DEF root
<1>9. Shown(t, n)
  BY <1>2, <1>3, <1>4, <1>6, <1>7 DEF Shown
<1>10. n \in Nat /\ n >= next
  BY <1>2, <1>4
<1> HIDE DEF n
<1>11. Sound(herdr, n)
  BY <1>4, <1>10, SoundGrows
<1> QED
  BY <1>5, <1>7, <1>8, <1>9, <1>10, <1>11 DEF root

LEMMA AppliedBeside ==
  ASSUME HerdrInv, NEW i \in DOMAIN herdr, NEW layout, IsLayout(layout), Leaves(layout) # {},
         NEW label,
         NEW r, r = Applied(herdr, herdr[i].id, None, label, strip_pane_ids(layout))
  PROVE  TabJoins(r, herdr, i, Tab(next, LabelGiven(label, Len(herdr[i].tabs)), next + 1,
                                   Filled(strip_pane_ids(layout), next + 1)))
<1> SUFFICES ASSUME NEW t, t = Tab(next, label, next + 1,
                    Filled(strip_pane_ids(layout), next + 1))
             PROVE  TabJoins(r, herdr, i,
                    Tab(next, LabelGiven(label, Len(herdr[i].tabs)), next + 1,
                                   Filled(strip_pane_ids(layout), next + 1)))
  OBVIOUS
<1>1. /\ t.id = next /\ t.label = label /\ t.layout = Filled(strip_pane_ids(layout), next + 1)
      /\ IsTab(t) /\ \A x \in TabsIn(herdr) : x.id # next
  BY NewTabIs
<1>2. t.focused = next + 1
  BY TabOf
<1>3. PICK n \in Nat : Shown(t, n) /\ Sound(herdr, n)
  BY NewTabIs
<1>4. r = WithoutTab(WithTab(herdr, herdr[i].id, t), None)
  BY DEF Applied
<1>5. TabJoins(r, herdr, i,
      Tab(t.id, LabelGiven(t.label, Len(herdr[i].tabs)), t.focused, t.layout))
  BY <1>1, <1>3, <1>4, AddedIs
<1> QED
  BY <1>1, <1>2, <1>5

LEMMA AppliedInstead ==
  ASSUME HerdrInv, NEW i \in DOMAIN herdr, NEW layout, IsLayout(layout), Leaves(layout) # {},
         NEW label,
         Len(herdr[i].tabs) = 1, NEW old, IdAt(herdr, i, 1, old),
         NEW r, r = Applied(herdr, herdr[i].id, old, label, strip_pane_ids(layout))
  PROVE  OnlyHas(r, herdr, i, Tab(next, LabelGiven(label, 1), next + 1,
                                  Filled(strip_pane_ids(layout), next + 1)))
<1> SUFFICES ASSUME NEW t, t = Tab(next, label, next + 1,
                    Filled(strip_pane_ids(layout), next + 1))
             PROVE  OnlyHas(r, herdr, i, Tab(next, LabelGiven(label, 1), next + 1,
                                  Filled(strip_pane_ids(layout), next + 1)))
  OBVIOUS
<1>1. /\ t.id = next /\ t.label = label /\ t.layout = Filled(strip_pane_ids(layout), next + 1)
      /\ IsTab(t) /\ \A x \in TabsIn(herdr) : x.id # next
  BY NewTabIs
<1>2. t.focused = next + 1
  BY TabOf
<1>3. PICK n \in Nat : Shown(t, n) /\ Sound(herdr, n)
  BY NewTabIs
<1>4. r = WithoutTab(WithTab(herdr, herdr[i].id, t), old)
  BY DEF Applied
<1>5. OnlyHas(r, herdr, i, Tab(t.id, LabelGiven(t.label, 1), t.focused, t.layout))
  BY <1>1, <1>3, <1>4, ReplacedIs
<1> QED
  BY <1>1, <1>2, <1>5

(***************************************************************************)
(* A tab comes back beside others.                                         *)
(***************************************************************************)

LEMMA OpenIsOlder ==
  ASSUME HerdrInv, NEW a \in DOMAIN herdr, NEW b \in DOMAIN herdr[a].tabs
  PROVE  /\ TabAt(herdr, a, b).id \in Nat /\ TabAt(herdr, a, b).id < next
         /\ \A p \in PaneIds(TabAt(herdr, a, b).layout) : p < next
<1>1. Sound(herdr, next) /\ next \in Nat
  BY DEF HerdrInv
<1>2. herdr[a].tabs[b].id \in 0 .. next - 1
      /\ PaneIds(herdr[a].tabs[b].layout) \subseteq 0 .. next - 1
  BY <1>1, SoundTabs
<1> QED
  BY <1>1, <1>2 DEF TabAt

LEMMA JoinedIs ==
  ASSUME HerdrInv, NEW i \in DOMAIN herdr, NEW u, NEW r, TabJoins(r, herdr, i, u),
         NEW n, n = Len(herdr[i].tabs) + 1
  PROVE  /\ OthersOlder(r, i, n, next) /\ IsPlace(r, i, n) /\ TabAt(r, i, n) = u
         /\ Others(r, herdr, i) /\ r[i].active = herdr[i].active /\ n \in Nat
            /\ Len(herdr[i].tabs) = n - 1
         /\ DOMAIN herdr[i].tabs = 1 .. n - 1 /\ DOMAIN r[i].tabs = 1 .. n
         /\ \A b \in DOMAIN herdr[i].tabs : TabAt(r, i, b) = TabAt(herdr, i, b)
<1>1. /\ Others(r, herdr, i) /\ r[i].active = herdr[i].active
      /\ Len(herdr[i].tabs) \in Nat
      /\ DOMAIN herdr[i].tabs = 1 .. Len(herdr[i].tabs)
         /\ DOMAIN r[i].tabs = 1 .. Len(herdr[i].tabs) + 1
      /\ \A b \in DOMAIN herdr[i].tabs : TabAt(r, i, b) = TabAt(herdr, i, b)
      /\ TabAt(r, i, Len(herdr[i].tabs) + 1) = u
  BY DEF TabJoins
<1>2. DOMAIN r = DOMAIN herdr /\ \A a \in DOMAIN herdr : a # i => r[a] = herdr[a]
  BY <1>1 DEF Others
<1>3. ASSUME NEW a \in DOMAIN r, NEW b \in DOMAIN r[a].tabs, a # i \/ b # n
      PROVE  a \in DOMAIN herdr /\ b \in DOMAIN herdr[a].tabs
             /\ TabAt(r, a, b) = TabAt(herdr, a, b)
  <2>1. CASE a # i
    <3>1. r[a] = herdr[a]
      BY <1>2, <2>1
    <3> QED
      BY <1>2, <3>1 DEF TabAt
  <2>2. CASE a = i
    <3>1. b \in 1 .. Len(herdr[i].tabs) + 1 /\ b # Len(herdr[i].tabs) + 1
      BY <1>1, <1>3, <2>2
    <3>2. b \in DOMAIN herdr[i].tabs
      BY <1>1, <3>1
    <3> QED
      BY <1>1, <2>2, <3>2
  <2> QED
    BY <2>1, <2>2
<1>4. OthersOlder(r, i, n, next)
  BY <1>3, OpenIsOlder DEF OthersOlder
<1>5. IsPlace(r, i, n)
  BY <1>1, <1>2 DEF IsPlace
<1> QED
  BY <1>1, <1>4, <1>5

LEMMA TabsOfSession ==
  ASSUME NEW i \in DOMAIN Session
  PROVE  /\ IsSeq(Session[i].tabs) /\ Len(Session[i].tabs) \in Nat
            /\ DOMAIN Session[i].tabs = 1 .. Len(Session[i].tabs)
         /\ Len(Session[i].tabs) < Len(AutoLabels) /\ Len(Session[i].tabs) # 0
         /\ DistinctIds(Session[i].tabs) /\ IsWorkspace(Session[i]) /\ Session[i].id \in Old
         /\ Session[i].active \in IdsIn(Session[i].tabs)
<1>1. Sound(Session, FirstNew) /\ FirstNew \in Nat
  BY SessionSound, IdAssumption
<1>2. /\ IsWorkspace(Session[i]) /\ IsSeq(Session[i].tabs)
         /\ Session[i].id \in 0 .. FirstNew - 1
      /\ DistinctIds(Session[i].tabs) /\ Session[i].active \in IdsIn(Session[i].tabs)
  BY <1>1, SoundWorkspace
<1>3. Len(Session[i].tabs) \in Nat /\ DOMAIN Session[i].tabs = 1 .. Len(Session[i].tabs)
  BY <1>2 DEF IsSeq
<1>4. Session[i] \in Range(Session)
  BY DEF Range
<1>5. Len(Session[i].tabs) < Len(AutoLabels)
  BY <1>4, LabelAssumption
<1>6. Len(Session[i].tabs) # 0
  BY <1>2, <1>3 DEF IdsIn
<1> QED
  BY <1>2, <1>3, <1>5, <1>6 DEF Old

\* What is left of the workspace.
LEMMA TabGoneIs ==
  ASSUME NEW h, NEW i, NEW j, IsPlace(Session, i, j), TabGone(h, Session, i, j), NEW n,
         n = Len(Session[i].tabs)
  PROVE  /\ i \in DOMAIN h /\ Others(h, Session, i) /\ n \in Nat /\ Len(h[i].tabs) = n - 1
         /\ j \in 1 .. n /\ DOMAIN h[i].tabs = 1 .. n - 1
         /\ \A k \in 1 .. n - 1 : TabAt(h, i, k) = TabAt(Session, i, IF k < j THEN k ELSE k + 1)
<1>1. i \in DOMAIN Session /\ j \in DOMAIN Session[i].tabs
  BY DEF IsPlace
<1>2. Others(h, Session, i) /\ h[i].tabs = Keep(Session[i].tabs, DOMAIN Session[i].tabs \ {j})
  BY DEF TabGone
<1>3. IsSeq(Session[i].tabs)
  BY <1>1, TabsOfSession
<1>4. IsButOne(h[i].tabs, Session[i].tabs, j)
  BY <1>1, <1>2, <1>3, KeepBut
<1>5. /\ Len(h[i].tabs) = n - 1 /\ n \in Nat /\ j \in 1 .. n /\ DOMAIN h[i].tabs = 1 .. n - 1
      /\ \A k \in 1 .. j - 1 : h[i].tabs[k] = Session[i].tabs[k]
      /\ \A k \in j .. n - 1 : h[i].tabs[k] = Session[i].tabs[k + 1]
  BY <1>4 DEF IsButOne
<1>6. ASSUME NEW k \in 1 .. n - 1
      PROVE  TabAt(h, i, k) = TabAt(Session, i, IF k < j THEN k ELSE k + 1)
  <2>1. CASE k < j
    BY <1>5, <2>1 DEF TabAt
  <2>2. CASE ~(k < j)
    BY <1>5, <2>2 DEF TabAt
  <2> QED
    BY <2>1, <2>2
<1>7. i \in DOMAIN h
  BY <1>1, <1>2 DEF Others
<1> QED
  BY <1>2, <1>5, <1>6, <1>7

LEMMA ShowTabIsSeq == ASSUME NEW t PROVE IsSeq(ShowTab(t))
  BY OneIsSeq, EmptyIsSeq DEF ShowTab

AddCall(i, j) ==
  [Apply(Session[i].id, None, effective_tab_label(TabAt(Session, i, j).label), SnapAt(i, j))
     EXCEPT !.live_count = Len(Session[i].tabs)]

LEMMA AddCallIs ==
  ASSUME NEW i, NEW j, NEW c, c = AddCall(i, j)
  PROVE  /\ c.call = "layout.apply" /\ c.into = Session[i].id /\ c.placeholder = None
         /\ c.label = effective_tab_label(TabAt(Session, i, j).label) /\ c.tab = SnapAt(i, j)
         /\ c.live_count = Len(Session[i].tabs)
  BY DEF AddCall, Apply

LEMMA AddingStep ==
  ASSUME ReopenInv, Calm, Calm', [Next]_vars, ~UNCHANGED vars, pc = "calling",
         NEW i, NEW j, ClosesTab(i, j, entry), AddingTab(i, j, herdr, calls)
  PROVE  TabAdded(i, j, herdr', calls') /\ UNCHANGED <<entry, pc, live>>
<1> SUFFICES ASSUME NEW n, n = Len(Session[i].tabs)
             PROVE  TabAdded(i, j, herdr', calls') /\ UNCHANGED <<entry, pc, live>>
  OBVIOUS
<1> DEFINE s == TabAt(Session, i, j)
           c == AddCall(i, j)
<1>1. HerdrInv
  BY DEF ReopenInv
<1>2. IsPlace(Session, i, j) /\ n > 1 /\ i \in DOMAIN Session
  BY DEF ClosesTab, IsPlace
<1>3. TabGone(herdr, Session, i, j)
  BY DEF AddingTab
<1>4. /\ i \in DOMAIN herdr /\ Others(herdr, Session, i) /\ n \in Nat
         /\ Len(herdr[i].tabs) = n - 1
      /\ j \in 1 .. n /\ DOMAIN herdr[i].tabs = 1 .. n - 1
      /\ \A k \in 1 .. n - 1 : TabAt(herdr, i, k) = TabAt(Session, i,
         IF k < j THEN k ELSE k + 1)
  BY <1>2, <1>3, TabGoneIs
<1>5. calls = <<c>>
  BY DEF AddingTab, AddCall
<1>6. calls # << >> /\ Head(calls) = c /\ Tail(calls) = << >>
  <2>1. <<c>> \o << >> = <<c>>
    BY OneIsSeq, EmptyIsSeq, FirstOfConcat
  <2>2. IsSeq(<< >>)
    BY EmptyIsSeq
  <2> QED
    BY <1>5, <2>1, <2>2, OneFirst
<1>7. /\ c.call = "layout.apply" /\ c.into = Session[i].id /\ c.placeholder = None
      /\ c.label = effective_tab_label(s.label) /\ c.tab = SnapAt(i, j) /\ c.live_count = n
  BY AddCallIs
<1> HIDE DEF c
<1>8. ApplyLayout
  BY <1>6, <1>7, CalmNamed
<1>9. herdr[i].id = c.into
  BY <1>4, <1>7 DEF Others, Alike
<1>10. herdr[i].tabs[1] \in Range(herdr[i].tabs)
  BY <1>2, <1>4 DEF Range
<1>11. n # None
  BY <1>4, IdAssumption
<1> DEFINE root == Filled(strip_pane_ids(c.tab.layout), next + 1)
<1>12. /\ herdr' = Applied(herdr, c.into, None, c.label, strip_pane_ids(c.tab.layout))
       /\ calls' = Follow(c, root) \o << >>
       /\ UNCHANGED <<entry, pc, live>>
  BY <1>4, <1>6, <1>7, <1>8, <1>9, <1>10, CalmApply
<1>13. /\ IsTab(s) /\ IsLayout(s.layout) /\ Leaves(s.layout) # {} /\ c.tab.layout = s.layout
          /\ c.tab.index = j - 1
  BY <1>2, <1>7, SnapIs
<1> HIDE DEF root
<1> DEFINE u == Tab(next, LabelGiven(effective_tab_label(s.label), n - 1), next + 1, root)
<1>14. TabJoins(herdr', herdr, i, u)
  <2>1. herdr' = Applied(herdr, herdr[i].id, None, c.label, strip_pane_ids(s.layout))
    BY <1>9, <1>12, <1>13
  <2>2. TabJoins(herdr', herdr, i, Tab(next, LabelGiven(c.label, Len(herdr[i].tabs)), next + 1,
                                   Filled(strip_pane_ids(s.layout), next + 1)))
    BY <1>1, <1>4, <1>13, <2>1, AppliedBeside
  <2>3. root = Filled(strip_pane_ids(s.layout), next + 1)
    BY <1>13 DEF root
  <2> QED
    BY <1>4, <1>7, <2>2, <2>3
<1>15. u.id = next /\ u.label = LabelGiven(effective_tab_label(s.label), n - 1)
       /\ u.layout = root
  BY TabOf
<1> HIDE DEF u
<1>16. n - 1 \in Nat /\ n = Len(herdr[i].tabs) + 1
  BY <1>2, <1>4
<1>17. /\ OthersOlder(herdr', i, n, next) /\ TabAt(herdr', i, n) = u
       /\ Others(herdr', herdr, i) /\ DOMAIN herdr'[i].tabs = 1 .. n
       /\ \A b \in DOMAIN herdr[i].tabs : TabAt(herdr', i, b) = TabAt(herdr, i, b)
  BY <1>1, <1>4, <1>14, <1>16, JoinedIs
<1>18. DOMAIN Session[i].tabs = 1 .. n /\ n < Len(AutoLabels)
  BY <1>2, TabsOfSession
<1>19. TabLast(i, j, herdr')
  <2>1. Others(herdr', Session, i)
    BY <1>2, <1>4, <1>17, OthersTwice
  <2>2. \A k \in 1 .. n - 1 : TabAt(herdr', i, k) = TabAt(Session, i,
        IF k < j THEN k ELSE k + 1)
    BY <1>4, <1>17
  <2> QED
    BY <1>17, <1>18, <2>1, <2>2 DEF TabLast
<1>20. Laid(u, s)
  BY <1>13, <1>15 DEF Laid, root
<1>21. Named(u, s)
  <2>0. n - 1 < Len(AutoLabels)
    <3>1. Len(AutoLabels) \in Nat
      BY LabelAssumption
    <3> QED
      BY <1>4, <1>18, <3>1
  <2>1. effective_tab_label(LabelGiven(effective_tab_label(s.label),
        n - 1)) = effective_tab_label(s.label)
    BY <1>16, <2>0, NamedGiven
  <2> QED
    BY <1>15, <2>1 DEF Named
<1>22. calls' = <<[call |-> "tab.move", tab |-> u.id, index |-> j - 1], FillCall(u, i, j)>>
       \o ShowTab(u)
  <2>1. insert_index(c.tab.index, c.live_count) = j - 1
    BY <1>4, <1>7, <1>13 DEF insert_index
  <2>2. finish_tab(c.tab, root) = FillCall(u, i, j)
    BY <1>7, <1>15 DEF FillCall
  <2>3. Follow(c, root) = <<[call |-> "tab.move", tab |-> u.id, index |-> j - 1],
        FillCall(u, i, j)>> \o ShowTab(u)
    BY <1>7, <1>11, <1>15, <2>1, <2>2 DEF Follow, ShowTab
  <2>4. IsSeq(Follow(c, root))
    BY <2>3, ShowTabIsSeq, TwoFirst
  <2>5. Follow(c, root) \o << >> = Follow(c, root)
    BY <2>4, EmptyIsSeq, FirstOfConcat
  <2> QED
    BY <1>12, <2>3, <2>5
<1> QED
  BY <1>12, <1>15, <1>17, <1>19, <1>20, <1>21, <1>22 DEF TabAdded

MoveCall(tab, index) == [call |-> "tab.move", tab |-> tab, index |-> index]
TabCall(tab) == [call |-> "tab.focus", tab |-> tab]

\* The next call is to move a tab.
LEMMA CalmMove ==
  ASSUME Calm, Calm', [Next]_vars, ~UNCHANGED vars, pc = "calling", calls # << >>,
         NEW tab, NEW index, Head(calls) = MoveCall(tab, index)
  PROVE  /\ herdr' = Moved(herdr, tab, index) /\ calls' = << >> \o Tail(calls)
         /\ UNCHANGED <<entry, pc, live, occupied, created>>
<1>1. Head(calls).call = "tab.move" /\ Head(calls).tab = tab /\ Head(calls).index = index
  BY DEF MoveCall
<1>2. MoveTab
  BY <1>1, CalmNamed
<1>3. Try("tab.move", Moved(herdr, tab, index))
  BY <1>1, <1>2 DEF MoveTab
<1> QED
  BY <1>3, CalmTry

LEMMA CalmFocus ==
  ASSUME Calm, Calm', [Next]_vars, ~UNCHANGED vars, pc = "calling", calls # << >>,
         NEW tab, Head(calls) = TabCall(tab)
  PROVE  /\ herdr' = TabFocused(herdr, tab) /\ calls' = << >> \o Tail(calls)
         /\ UNCHANGED <<entry, pc, live, occupied, created>>
<1>1. Head(calls).call = "tab.focus" /\ Head(calls).tab = tab
  BY DEF TabCall
<1>2. FocusTab
  BY <1>1, CalmNamed
<1>3. Try("tab.focus", TabFocused(herdr, tab))
  BY <1>1, <1>2 DEF FocusTab
<1> QED
  BY <1>3, CalmTry

\* Moving a tab within its workspace leaves the other workspaces alone.
LEMMA OlderMoves ==
  ASSUME NEW h, NEW r, NEW i \in DOMAIN h, NEW j, NEW index \in Nat,
         TabMoves(r, h, i, j, index),
         j = Len(h[i].tabs), index < Len(h[i].tabs), NEW n, OthersOlder(h, i, j, n)
  PROVE  OthersOlder(r, i, index + 1, n) /\ IsPlace(r, i, index + 1)
<1> SUFFICES ASSUME NEW len, len = Len(h[i].tabs)
             PROVE  OthersOlder(r, i, index + 1, n) /\ IsPlace(r, i, index + 1)
  OBVIOUS
<1>1. /\ Others(r, h, i) /\ len \in Nat
      /\ DOMAIN r[i].tabs = 1 .. len /\ DOMAIN h[i].tabs = 1 .. len
      /\ \A k \in 1 .. index : TabAt(r, i, k) = TabAt(h, i, k)
      /\ \A k \in index + 2 .. len : TabAt(r, i, k) = TabAt(h, i, k - 1)
  BY DEF TabMoves
<1>2. DOMAIN r = DOMAIN h /\ \A a \in DOMAIN h : a # i => r[a] = h[a]
  BY <1>1 DEF Others
<1> DEFINE Older(t) == t.id < n /\ \A p \in PaneIds(t.layout) : p < n
<1>3. \A a \in DOMAIN h : \A b \in DOMAIN h[a].tabs : a # i \/ b # j => Older(TabAt(h, a, b))
  BY DEF OthersOlder
<1>4. ASSUME NEW a \in DOMAIN r, NEW b \in DOMAIN r[a].tabs, a # i \/ b # index + 1
      PROVE  Older(TabAt(r, a, b))
  <2>1. CASE a # i
    <3>1. r[a] = h[a] /\ a \in DOMAIN h
      BY <1>2, <2>1
    <3>2. TabAt(r, a, b) = TabAt(h, a, b) /\ b \in DOMAIN h[a].tabs
      BY <3>1 DEF TabAt
    <3> QED
      BY <1>3, <2>1, <3>1, <3>2
  <2>2. CASE a = i
    <3>1. b \in 1 .. len /\ b # index + 1
      BY <1>1, <1>4, <2>2
    <3>2. CASE b <= index
      <4>1. TabAt(r, i, b) = TabAt(h, i, b) /\ b \in DOMAIN h[i].tabs /\ b # j
        BY <1>1, <3>1, <3>2
      <4> QED
        BY <1>3, <2>2, <4>1
    <3>3. CASE b > index
      <4>1. b \in index + 2 .. len
        BY <1>1, <3>1, <3>3
      <4>2. TabAt(r, i, b) = TabAt(h, i, b - 1) /\ b - 1 \in DOMAIN h[i].tabs /\ b - 1 # j
        BY <1>1, <4>1
      <4> QED
        BY <1>3, <2>2, <4>2
    <3> QED
      BY <1>1, <3>1, <3>2, <3>3
  <2> QED
    BY <2>1, <2>2
<1>5. OthersOlder(r, i, index + 1, n)
  BY <1>4 DEF OthersOlder
<1>6. IsPlace(r, i, index + 1)
  BY <1>1, <1>2 DEF IsPlace
<1> QED
  BY <1>5, <1>6

LEMMA AddedStep ==
  ASSUME ReopenInv, Calm, Calm', [Next]_vars, ~UNCHANGED vars, pc = "calling",
         NEW i, NEW j, ClosesTab(i, j, entry), TabAdded(i, j, herdr, calls)
  PROVE  FillingTab(i, j, herdr', calls', occupied') /\ UNCHANGED <<entry, pc, live>>
<1> SUFFICES ASSUME NEW n, n = Len(Session[i].tabs), NEW t, t = TabAt(herdr, i, n)
             PROVE  FillingTab(i, j, herdr', calls', occupied') /\ UNCHANGED <<entry, pc, live>>
  OBVIOUS
<1> DEFINE s == TabAt(Session, i, j)
           rest == <<FillCall(t, i, j)>> \o ShowTab(t)
<1>1. Sound(herdr, next) /\ next \in Nat
  BY DEF ReopenInv, HerdrInv
<1>2. IsPlace(Session, i, j) /\ i \in DOMAIN Session /\ j \in DOMAIN Session[i].tabs
  BY DEF ClosesTab, IsPlace
<1>3. n \in Nat /\ DOMAIN Session[i].tabs = 1 .. n /\ j \in 1 .. n /\ n # 0
  BY <1>2, TabsOfSession
<1>4. /\ TabLast(i, j, herdr) /\ OthersOlder(herdr, i, n, t.id) /\ Laid(t, s) /\ Named(t, s)
      /\ calls = <<MoveCall(t.id, j - 1), FillCall(t, i, j)>> \o ShowTab(t)
  BY DEF TabAdded, MoveCall
<1>5. /\ Others(herdr, Session, i) /\ DOMAIN herdr[i].tabs = 1 .. n
      /\ \A k \in 1 .. n - 1 : TabAt(herdr, i, k) = TabAt(Session, i,
         IF k < j THEN k ELSE k + 1)
  BY <1>3, <1>4 DEF TabLast
<1>6. i \in DOMAIN herdr /\ IsPlace(herdr, i, n)
  BY <1>2, <1>3, <1>5 DEF Others, IsPlace
<1>7. Len(herdr[i].tabs) = n
  <2>1. IsSeq(herdr[i].tabs)
    BY <1>1, <1>6, SoundTabs
  <2>2. Len(herdr[i].tabs) \in Nat /\ DOMAIN herdr[i].tabs = 1 .. Len(herdr[i].tabs)
    BY <2>1 DEF IsSeq
  <2>3. ASSUME NEW x \in Nat, 1 .. x = 1 .. n PROVE x = n
    BY <1>3, <2>3
  <2> QED
    BY <1>5, <2>2, <2>3
<1>8. IdAt(herdr, i, n, t.id)
  BY <1>1, <1>4, <1>6, OlderIds
<1>9. calls # << >> /\ Head(calls) = MoveCall(t.id, j - 1) /\ Tail(calls) = rest /\ IsSeq(rest)
  <2>1. IsSeq(ShowTab(t))
    BY ShowTabIsSeq
  <2>2. IsSeq(rest)
    BY ONLY <2>1, OneFirst
  <2>3. calls # << >> /\ Head(calls) = MoveCall(t.id, j - 1) /\ Tail(calls) = rest
    BY ONLY <1>4, <2>1, TwoFirst
  <2> QED
    BY ONLY <2>2, <2>3
<1>10. /\ herdr' = Moved(herdr, t.id, j - 1) /\ calls' = << >> \o Tail(calls)
       /\ UNCHANGED <<entry, pc, live, occupied, created>>
  BY <1>9, CalmMove
<1>11. calls' = rest
  BY <1>9, <1>10, OneFirst
<1>12. j - 1 \in 0 .. Len(herdr[i].tabs) - 1 /\ j - 1 \in Nat /\ j - 1 < n
  BY <1>3, <1>7
<1>13. TabMoves(herdr', herdr, i, n, j - 1)
  BY <1>1, <1>7, <1>8, <1>10, <1>12, MovedIs
<1>14. /\ Others(herdr', herdr, i) /\ DOMAIN herdr'[i].tabs = 1 .. n
          /\ TabAt(herdr', i, j - 1 + 1) = t
       /\ \A k \in 1 .. j - 1 : TabAt(herdr', i, k) = TabAt(herdr, i, k)
       /\ \A k \in j - 1 + 2 .. n : TabAt(herdr', i, k) = TabAt(herdr, i, k - 1)
  BY <1>7, <1>13 DEF TabMoves
<1>15. j - 1 + 1 = j /\ j - 1 + 2 = j + 1
  BY <1>3
<1>16. OthersOlder(herdr', i, j, t.id)
  <2>1. OthersOlder(herdr', i, j - 1 + 1, t.id)
    BY <1>4, <1>6, <1>7, <1>12, <1>13, OlderMoves
  <2> QED
    BY <1>15, <2>1
<1>17. TabInPlace(i, j, herdr')
  <2>1. Others(herdr', Session, i)
    BY <1>2, <1>5, <1>14, OthersTwice
  <2>2. ASSUME NEW k \in 1 .. n, k # j PROVE TabAt(herdr', i, k) = TabAt(Session, i, k)
    <3>1. CASE k < j
      <4>1. TabAt(herdr', i, k) = TabAt(herdr, i, k)
        BY <1>3, <1>14, <3>1
      <4>2. k \in 1 .. n - 1
        BY <1>3, <3>1
      <4> QED
        BY <1>5, <3>1, <4>1, <4>2
    <3>2. CASE k > j
      <4>1. TabAt(herdr', i, k) = TabAt(herdr, i, k - 1)
        BY <1>3, <1>14, <1>15, <3>2
      <4>2. k - 1 \in 1 .. n - 1 /\ ~(k - 1 < j) /\ k - 1 + 1 = k
        BY <1>3, <3>2
      <4>3. TabAt(herdr, i, k - 1) = TabAt(Session, i, IF k - 1 < j THEN k - 1 ELSE k - 1 + 1)
        BY <1>5, <4>2
      <4> QED
        BY <4>1, <4>2, <4>3
    <3> QED
      BY <1>3, <2>2, <3>1, <3>2
  <2> QED
    BY <1>3, <1>14, <2>1, <2>2 DEF TabInPlace
<1>18. Chores(<<FillCall(t, i, j)>>, t, i, j, occupied')
  BY <1>4 DEF Chores, Filling
<1>19. <<FillCall(t, i, j)>> \in Prefixes(rest)
  BY OneIsSeq, ShowTabIsSeq, PrefixIs
<1>20. TabAt(herdr', i, j) = t
  BY <1>14, <1>15
<1> QED
  BY <1>10, <1>11, <1>16, <1>17, <1>18, <1>19, <1>20 DEF FillingTab

LEMMA InPlaceStays ==
  ASSUME NEW h, NEW r, NEW i, NEW j, IsPlace(Session, i, j), TabInPlace(i, j, h), NEW u,
         TabBecomes(r, h, i, j, u)
  PROVE  TabInPlace(i, j, r) /\ IsPlace(h, i, j)
<1>1. /\ Others(h, Session, i) /\ DOMAIN h[i].tabs = DOMAIN Session[i].tabs
      /\ \A k \in DOMAIN Session[i].tabs : k # j => TabAt(h, i, k) = TabAt(Session, i, k)
  BY DEF TabInPlace
<1>2. i \in DOMAIN Session /\ j \in DOMAIN Session[i].tabs
  BY DEF IsPlace
<1>3. IsPlace(h, i, j)
  BY <1>1, <1>2 DEF IsPlace, Others
<1>4. /\ Others(r, h, i) /\ DOMAIN r[i].tabs = DOMAIN h[i].tabs
      /\ \A k \in DOMAIN h[i].tabs : k # j => TabAt(r, i, k) = TabAt(h, i, k)
  BY <1>3, OlderStays
<1>5. Others(r, Session, i)
  BY <1>1, <1>2, <1>4, OthersTwice
<1> QED
  BY <1>1, <1>3, <1>4, <1>5 DEF TabInPlace

LEMMA FillTabStep ==
  ASSUME ReopenInv, Calm, Calm', [Next]_vars, ~UNCHANGED vars, pc = "calling", calls # << >>,
         NEW i, NEW j, ClosesTab(i, j, entry), FillingTab(i, j, herdr, calls, occupied)
  PROVE  /\ FillingTab(i, j, herdr', calls', occupied')
            \/ TabThere(i, j, herdr', calls', occupied')
         /\ UNCHANGED <<entry, pc, live>>
<1> SUFFICES ASSUME NEW t, t = TabAt(herdr, i, j)
             PROVE  /\ FillingTab(i, j, herdr', calls', occupied')
                       \/ TabThere(i, j, herdr', calls', occupied')
                    /\ UNCHANGED <<entry, pc, live>>
  OBVIOUS
<1>1. Sound(herdr, next) /\ next \in Nat
  BY DEF ReopenInv, HerdrInv
<1>2. IsPlace(Session, i, j) /\ i \in DOMAIN Session
  BY DEF ClosesTab, IsPlace
<1>3. TabInPlace(i, j, herdr) /\ OthersOlder(herdr, i, j, t.id)
  BY DEF FillingTab
<1>4. PICK d \in Prefixes(calls) : Chores(d, t, i, j, occupied) /\ calls = d \o ShowTab(t)
  BY DEF FillingTab
<1>5. IsSeq(ShowTab(t))
  BY ShowTabIsSeq
<1>6. IsPlace(herdr, i, j)
  BY <1>2, <1>3, SameTab, InPlaceStays
<1>7. CASE d # << >>
  <2>1. PICK e, u : NextChore(i, j, t, <<i, j>>, ShowTab(t), e, u)
    BY <1>2, <1>3, <1>4, <1>5, <1>6, <1>7, ChoresStep
  <2>2. /\ TabBecomes(herdr', herdr, i, j, u) /\ u.id = t.id
        /\ Chores(e, u, i, j, occupied') /\ IsSeq(e) /\ calls' = e \o ShowTab(t)
        /\ UNCHANGED <<entry, pc, live>>
    BY <2>1 DEF NextChore
  <2>3. TabInPlace(i, j, herdr')
    BY <1>2, <1>3, <2>2, InPlaceStays
  <2>4. OthersOlder(herdr', i, j, u.id) /\ TabAt(herdr', i, j) = u
    BY <1>3, <1>6, <2>2, OlderStays
  <2>5. ShowTab(u) = ShowTab(t)
    BY <2>2 DEF ShowTab
  <2>6. e \in Prefixes(calls')
    BY <1>5, <2>2, PrefixIs
  <2> QED
    BY <2>2, <2>3, <2>4, <2>5, <2>6 DEF FillingTab
<1>8. CASE d = << >>
  <2>1. calls = ShowTab(t)
    BY <1>4, <1>5, <1>8, OneFirst
  <2>2. FocusOnReopen /\ calls = <<TabCall(t.id)>>
    BY <2>1 DEF ShowTab, TabCall
  <2>3. Head(calls) = TabCall(t.id) /\ Tail(calls) = << >>
    <3>1. <<TabCall(t.id)>> \o << >> = <<TabCall(t.id)>> /\ IsSeq(<< >>)
      BY OneIsSeq, EmptyIsSeq, FirstOfConcat
    <3> QED
      BY <2>2, <3>1, OneFirst
  <2>4. /\ herdr' = TabFocused(herdr, t.id) /\ calls' = << >> \o << >>
        /\ UNCHANGED <<entry, pc, live, occupied>>
    BY <2>3, CalmFocus
  <2>5. calls' = << >>
    BY <2>4, EmptyIsSeq, FirstOfConcat
  <2>6. IdAt(herdr, i, j, t.id)
    BY <1>1, <1>3, <1>6, OlderIds
  <2>7. Others(herdr', herdr, i) /\ herdr'[i].tabs = herdr[i].tabs /\ herdr'[i].active = t.id
    BY <1>1, <2>4, <2>6, TabFocusedIs
  <2>8. \A k : TabAt(herdr', i, k) = TabAt(herdr, i, k)
    BY <2>7 DEF TabAt
  <2>9. Others(herdr', Session, i)
    BY <1>2, <1>3, <2>7, OthersTwice DEF TabInPlace
  <2>10. TabInPlace(i, j, herdr')
    BY <1>3, <2>7, <2>8, <2>9 DEF TabInPlace
  <2>11. TabBack(t, TabAt(Session, i, j), occupied')
    <3>1. Chores(<< >>, t, i, j, occupied)
      BY <1>4, <1>8
    <3>2. TabBack(t, TabAt(Session, i, j), occupied)
      BY <3>1 DEF Chores, Naming, Filling, Watching
    <3> QED
      BY <2>4, <3>2
  <2> QED
    BY <2>4, <2>5, <2>7, <2>8, <2>10, <2>11 DEF TabThere
<1> QED
  BY <1>7, <1>8

\* Nothing is left to do when no call is.
LEMMA TabDone ==
  ASSUME NEW i, NEW j, NEW h, NEW o, TabStory(i, j, h, << >>, o)
  PROVE  TabThere(i, j, h, << >>, o)
<1>1. ~AddingTab(i, j, h, << >>)
  BY DEF AddingTab
<1>2. ~TabAdded(i, j, h, << >>)
  BY ShowTabIsSeq, TwoFirst DEF TabAdded
<1>3. ASSUME FillingTab(i, j, h, << >>, o) PROVE TabThere(i, j, h, << >>, o)
  <2> SUFFICES ASSUME NEW t, t = TabAt(h, i, j)
               PROVE  TabThere(i, j, h, << >>, o)
    OBVIOUS
  <2>1. PICK d \in Prefixes(<< >>) : Chores(d, t, i, j, o) /\ << >> = d \o ShowTab(t)
    BY <1>3 DEF FillingTab
  <2>2. IsSeq(ShowTab(t))
    BY ShowTabIsSeq
  <2>3. d = << >>
    <3>1. ASSUME NEW x, d = <<x>> PROVE FALSE
      <4>1. <<x>> \o ShowTab(t) # << >>
        BY <2>2, OneFirst
      <4> QED
        BY <2>1, <3>1, <4>1
    <3>2. ASSUME NEW x, NEW y, d = <<x, y>> PROVE FALSE
      <4>1. <<x, y>> \o ShowTab(t) # << >>
        BY <2>2, TwoFirst
      <4> QED
        BY <2>1, <3>2, <4>1
    <3> QED
      BY <2>1, <3>1, <3>2 DEF Chores, Naming, Filling, Watching
  <2>4. TabBack(t, TabAt(Session, i, j), o)
    BY <2>1, <2>3 DEF Chores, Naming, Filling, Watching
  <2>5. ShowTab(t) = << >>
    BY <2>1, <2>2, <2>3, OneFirst
  <2>6. ~FocusOnReopen
    BY <2>5 DEF ShowTab
  <2> QED
    BY <1>3, <2>4, <2>6 DEF FillingTab, TabThere
<1> QED
  BY <1>1, <1>2, <1>3 DEF TabStory

LEMMA TabStep ==
  ASSUME ReopenInv, Calm, Calm', [Next]_vars, ~UNCHANGED vars, pc = "calling", calls # << >>,
         NEW i, NEW j, ClosesTab(i, j, entry), TabStory(i, j, herdr, calls, occupied)
  PROVE  TabStory(i, j, herdr', calls', occupied') /\ UNCHANGED <<entry, pc, live>>
<1>1. CASE AddingTab(i, j, herdr, calls)
  BY <1>1, AddingStep DEF TabStory
<1>2. CASE TabAdded(i, j, herdr, calls)
  BY <1>2, AddedStep DEF TabStory
<1>3. CASE FillingTab(i, j, herdr, calls, occupied)
  BY <1>3, FillTabStep DEF TabStory
<1>4. CASE TabThere(i, j, herdr, calls, occupied)
  BY <1>4 DEF TabThere
<1> QED
  BY <1>1, <1>2, <1>3, <1>4 DEF TabStory

(***************************************************************************)
(* A pane comes back.                                                      *)
(***************************************************************************)

\* A pane of the session is in one tab.
LEMMA PaneOfSession ==
  ASSUME NEW i, NEW j, IsPlace(Session, i, j), NEW pane \in PaneIds(TabAt(Session, i, j).layout)
  PROVE  PaneAt(Session, i, j, pane) /\ pane \in Old
<1>1. /\ i \in DOMAIN Session /\ j \in DOMAIN Session[i].tabs /\ pane \in Old
      /\ TabAt(Session, i, j) = Session[i].tabs[j]
  BY SnapIs DEF IsPlace, TabAt
<1>2. ASSUME NEW a \in DOMAIN Session, NEW b \in DOMAIN Session[a].tabs, a # i \/ b # j,
             pane \in PaneIds(TabAt(Session, a, b).layout)
      PROVE  FALSE
  <2> DEFINE s == Session[i].tabs[j]
             t == Session[a].tabs[b]
  <2>1. /\ Session[i] \in Range(Session) /\ Session[a] \in Range(Session)
        /\ s \in Range(Session[i].tabs) /\ t \in Range(Session[a].tabs)
    BY <1>1, <1>2 DEF Range
  <2>2. PaneIds(s.layout) \cap PaneIds(t.layout) # {}
    BY <1>1, <1>2 DEF TabAt
  <2>3. Session[i] = Session[a] /\ s = t
    <3> HIDE DEF s, t
    <3>1. \A v, w \in Range(Session) : \A x \in Range(v.tabs), y \in Range(w.tabs) :
            PaneIds(x.layout) \cap PaneIds(y.layout) # {} => v = w /\ x = y
      BY ONLY ApartAssumption
    <3> QED
      BY ONLY <2>1, <2>2, <3>1
  <2>4. i = a
    BY <1>1, <1>2, <2>3, SessionAssumption DEF DistinctIds
  <2>5. DistinctIds(Session[i].tabs)
    BY <1>1, TabsOfSession
  <2>6. j = b
    BY <1>1, <1>2, <2>3, <2>4, <2>5 DEF DistinctIds
  <2> QED
    BY <1>2, <2>4, <2>6
<1> QED
  BY <1>1, <1>2 DEF PaneAt

LEMMA InTabIs ==
  ASSUME NEW i, NEW j, IsPlace(Session, i, j), NEW h, InTab(i, j, h)
  PROVE  /\ IsPlace(h, i, j) /\ OnlyTab(h, Session, i, j)
         /\ \A x \in PaneIds(TabAt(h, i, j).layout) :
              x \in PaneIds(TabAt(Session, i, j).layout) \/ x = FirstNew => PaneAt(h, i, j, x)
<1>1. OnlyTab(h, Session, i, j)
  BY DEF InTab
<1>2. /\ DOMAIN h = DOMAIN Session /\ \A a \in DOMAIN Session : a # i => h[a] = Session[a]
      /\ DOMAIN h[i].tabs = DOMAIN Session[i].tabs
      /\ \A b \in DOMAIN Session[i].tabs : b # j => TabAt(h, i, b) = TabAt(Session, i, b)
  BY <1>1 DEF OnlyTab, TabAt
<1>3. IsPlace(h, i, j)
  BY <1>2 DEF IsPlace
<1>4. ASSUME NEW a \in DOMAIN h, NEW b \in DOMAIN h[a].tabs, a # i \/ b # j
      PROVE  a \in DOMAIN Session /\ b \in DOMAIN Session[a].tabs
             /\ TabAt(h, a, b) = TabAt(Session, a, b)
  <2>1. CASE a = i
    BY <1>2, <1>4, <2>1
  <2>2. CASE a # i
    BY <1>2, <1>4, <2>2 DEF TabAt
  <2> QED
    BY <2>1, <2>2
<1>5. ASSUME NEW x \in PaneIds(TabAt(h, i, j).layout),
             x \in PaneIds(TabAt(Session, i, j).layout) \/ x = FirstNew,
             NEW a \in DOMAIN h, NEW b \in DOMAIN h[a].tabs, a # i \/ b # j
      PROVE  x \notin PaneIds(TabAt(h, a, b).layout)
  <2>1. a \in DOMAIN Session /\ b \in DOMAIN Session[a].tabs
        /\ TabAt(h, a, b) = TabAt(Session, a, b)
    BY <1>4, <1>5
  <2>2. CASE x \in PaneIds(TabAt(Session, i, j).layout)
    <3>1. PaneAt(Session, i, j, x)
      BY <2>2, PaneOfSession
    <3> QED
      BY <1>5, <2>1, <3>1 DEF PaneAt
  <2>3. CASE x = FirstNew
    <3>1. IsPlace(Session, a, b)
      BY <2>1 DEF IsPlace
    <3>2. PaneIds(TabAt(Session, a, b).layout) \subseteq Old
      BY <3>1, SnapIs
    <3> QED
      BY <2>1, <2>3, <3>2, IdAssumption DEF Old
  <2> QED
    BY <1>5, <2>2, <2>3
<1>6. ASSUME NEW x \in PaneIds(TabAt(h, i, j).layout),
             x \in PaneIds(TabAt(Session, i, j).layout) \/ x = FirstNew
      PROVE  PaneAt(h, i, j, x)
  BY <1>3, <1>5, <1>6 DEF PaneAt
<1> QED
  BY <1>1, <1>3, <1>6

LEMMA InTabStays ==
  ASSUME NEW i, NEW j, IsPlace(Session, i, j), NEW h, InTab(i, j, h),
         NEW u, u.label = TabAt(h, i, j).label, NEW r, TabBecomes(r, h, i, j, u)
  PROVE  InTab(i, j, r) /\ TabAt(r, i, j) = u
<1>1. OnlyTab(h, Session, i, j) /\ TabAt(h, i, j).label = TabAt(Session, i, j).label
  BY DEF InTab
<1>2. OnlyTab(r, h, i, j) /\ TabAt(r, i, j) = u
  BY DEF TabBecomes
<1>3. OnlyTab(r, Session, i, j)
  BY <1>1, <1>2 DEF OnlyTab, Alike, IsPlace
<1> QED
  BY <1>1, <1>2, <1>3 DEF InTab

LEMMA OneAndOne ==
  ASSUME NEW x, NEW y PROVE <<x>> \o <<y>> = <<x, y>> /\ <<x>> \o << >> = <<x>> /\ << >>
         \o << >> = << >>
<1>1. <<x>> \o <<y>> = <<x, y>>
  <2> DEFINE a == <<x>>
             b == <<y>>
  <2>1. a \in Seq({x, y}) /\ b \in Seq({x, y}) /\ Len(a) = 1 /\ Len(b) = 1 /\ a[1] = x
        /\ b[1] = y
    OBVIOUS
  <2> HIDE DEF a, b
  <2>2. a \o b \in Seq({x, y}) /\ Len(a \o b) = 2 /\ (a \o b)[1] = x /\ (a \o b)[2] = y
    <3>1. /\ a \o b \in Seq({x, y}) /\ Len(a \o b) = Len(a) + Len(b)
          /\ \A k \in 1 .. Len(a) + Len(b) : (a
             \o b)[k] = IF k <= Len(a) THEN a[k] ELSE b[k - Len(a)]
      BY <2>1, ConcatProperties
    <3>2. Len(a) + Len(b) = 2 /\ 1 \in 1 .. 2 /\ 2 \in 1 .. 2 /\ 1 <= Len(a)
          /\ ~(2 <= Len(a)) /\ 2 - Len(a) = 1
      BY <2>1
    <3>3. Len(a \o b) = 2 /\ (a \o b)[1] = a[1] /\ (a \o b)[2] = b[1]
      BY ONLY <3>1, <3>2
    <3> QED
      BY <2>1, <3>1, <3>3
  <2>3. <<x, y>> \in Seq({x, y}) /\ Len(<<x, y>>) = 2 /\ <<x, y>>[1] = x /\ <<x, y>>[2] = y
    OBVIOUS
  <2> DEFINE r == a \o b
             s == <<x, y>>
  <2> HIDE DEF r, s
  <2>4. r \in Seq({x, y}) /\ s \in Seq({x, y}) /\ Len(r) = 2 /\ Len(s) = 2
        /\ \A k \in 1 .. 2 : r[k] = s[k]
    BY <2>2, <2>3 DEF r, s
  <2>5. r = s
    BY ONLY <2>4, SameSeq
  <2> QED
    BY <2>5 DEF r, s, a, b
<1>2. <<x>> \o << >> = <<x>>
  BY OneIsSeq, EmptyIsSeq, FirstOfConcat
<1>3. << >> \o << >> = << >>
  BY EmptyIsSeq, FirstOfConcat
<1> QED
  BY <1>1, <1>2, <1>3

SwapCall(one, two) == [call |-> "pane.swap", source |-> one, target |-> two]

\* What herdr makes of the request to split.
LEMMA SplitAgain ==
  ASSUME NEW i, NEW j, NEW pane, ClosesPane(i, j, pane, entry), NEW left,
         left = Closed(TabAt(Session, i, j).layout, pane),
         NEW c, NEW first \in PaneIds(left),
         c = split_beside(SnapAt(i, j), pane, first, PaneIds(left)),
         NEW new, new = SplitAt(left, c.target, c.direction, c.ratio, Pane(FirstNew, c.cwd))
  PROVE  /\ c.call = "pane.split" /\ c.pane = pane
         /\ c.target \in PaneIds(left)
            /\ PaneIds(left) \subseteq PaneIds(TabAt(Session, i, j).layout)
         /\ PaneIds(new) = PaneIds(left) \cup {FirstNew}
         /\ c.swap => Looks(i, j, pane, Swapped(new, FirstNew, c.target))
         /\ ~c.swap => Looks(i, j, pane, new)
<1> SUFFICES ASSUME NEW layout, layout = TabAt(Session, i, j).layout
             PROVE  /\ c.call = "pane.split" /\ c.pane = pane
                    /\ c.target \in PaneIds(left) /\ PaneIds(left) \subseteq PaneIds(layout)
                    /\ PaneIds(new) = PaneIds(left) \cup {FirstNew}
                    /\ c.swap => Looks(i, j, pane, Swapped(new, FirstNew, c.target))
                    /\ ~c.swap => Looks(i, j, pane, new)
  OBVIOUS
<1>1. IsPlace(Session, i, j) /\ pane \in PaneIds(layout) /\ PaneIds(layout) # {pane}
  BY DEF ClosesPane
<1>2. IsLayout(layout) /\ PanesApart(layout) /\ PaneIds(layout) \subseteq Old
      /\ SnapAt(i, j).layout = layout
  BY <1>1, SnapIs
<1>3. IsBinary(layout)
  <2>1. Session[i] \in Range(Session) /\ TabAt(Session, i, j) \in Range(Session[i].tabs)
    BY <1>1 DEF IsPlace, TabAt, Range
  <2> QED
    BY <2>1, TreeAssumption
<1>4. left = Closed(layout, pane) /\ IsLayout(left) /\ PanesApart(left)
      /\ PaneIds(left) = PaneIds(layout) \ {pane}
  BY <1>1, <1>2, ClosedIsLayout
<1>5. FirstNew \notin PaneIds(left)
  BY <1>2, <1>4, IdAssumption DEF Old
<1> SUFFICES ASSUME NEW path, NEW top, NEW side, NEW rest,
                    PlaceOf(layout, pane, path, top, side, rest)
             PROVE  /\ c.call = "pane.split" /\ c.pane = pane
                    /\ c.target \in PaneIds(left) /\ PaneIds(left) \subseteq PaneIds(layout)
                    /\ PaneIds(new) = PaneIds(left) \cup {FirstNew}
                    /\ c.swap => Looks(i, j, pane, Swapped(new, FirstNew, c.target))
                    /\ ~c.swap => Looks(i, j, pane, new)
  BY DEF PlaceOf
<1>6. /\ c.call = "pane.split" /\ c.pane = pane /\ c.cwd = layout[path].cwd
         /\ c.target \in PaneIds(left)
      /\ IsBesideOne(layout, pane) /\ layout[rest].pane_id \in PaneIds(left) =>
           /\ c.target = layout[rest].pane_id /\ c.direction = layout[top].direction
           /\ c.ratio = layout[top].ratio /\ (c.swap <=> side = First)
  BY <1>1, <1>2, <1>3, SplitCall
<1>7. PaneIds(new) = PaneIds(left) \cup {FirstNew}
  BY <1>4, <1>5, <1>6, SplitIsLayout
<1>8. ASSUME IsBesideOne(layout, pane)
      PROVE  /\ c.swap => strip_pane_ids(Swapped(new, FirstNew,
                c.target)) = strip_pane_ids(layout)
             /\ ~c.swap => strip_pane_ids(new) = strip_pane_ids(layout)
  <2>1. side \in {First, Second}
    BY <1>1, <1>2, <1>3, PlaceIs
  <2>2. layout[rest].pane_id \in PaneIds(left)
    BY <1>1, <1>2, <1>3, <1>4, <1>8, SplitBeside
  <2>3. new = SplitAt(left, layout[rest].pane_id, layout[top].direction, layout[top].ratio,
        Pane(FirstNew, layout[path].cwd))
    BY <1>6, <1>8, <2>2
  <2>4. /\ side = Second => strip_pane_ids(new) = strip_pane_ids(layout)
        /\ side = First => strip_pane_ids(Swapped(new, FirstNew,
           layout[rest].pane_id)) = strip_pane_ids(layout)
    BY <1>1, <1>2, <1>3, <1>4, <1>5, <1>8, <2>3, PutBack
  <2> QED
    BY <1>6, <1>8, <2>1, <2>2, <2>4
<1> QED
  BY <1>4, <1>6, <1>7, <1>8 DEF Looks

LEMMA SplitStep ==
  ASSUME ReopenInv, Calm, Calm', [Next]_vars, ~UNCHANGED vars, pc = "calling",
         NEW i, NEW j, NEW pane, ClosesPane(i, j, pane, entry),
         Splitting(i, j, pane, herdr, calls),
         next = FirstNew
  PROVE  /\ Swapping(i, j, pane, herdr', calls') \/ OccupyingPane(i, j, pane, herdr', calls')
         /\ UNCHANGED <<entry, pc, live>>
<1> SUFFICES ASSUME NEW t, t = TabAt(herdr, i, j)
             PROVE  /\ Swapping(i, j, pane, herdr', calls')
                       \/ OccupyingPane(i, j, pane, herdr', calls')
                    /\ UNCHANGED <<entry, pc, live>>
  OBVIOUS
<1>1. Sound(herdr, next) /\ next \in Nat
  BY DEF ReopenInv, HerdrInv
<1>2. InTab(i, j, herdr) /\ t.layout = Closed(TabAt(Session, i, j).layout, pane)
  BY DEF Splitting, PaneGone
<1>3. IsPlace(Session, i, j)
  BY DEF ClosesPane
<1>4. PICK first \in PaneIds(t.layout) : calls = <<split_beside(SnapAt(i, j), pane, first,
      PaneIds(t.layout))>>
  BY DEF Splitting
<1> SUFFICES ASSUME NEW c, c = split_beside(SnapAt(i, j), pane, first, PaneIds(t.layout)),
                    NEW new, new = SplitAt(t.layout, c.target, c.direction, c.ratio,
                    Pane(FirstNew, c.cwd))
             PROVE  /\ Swapping(i, j, pane, herdr', calls')
                       \/ OccupyingPane(i, j, pane, herdr', calls')
                    /\ UNCHANGED <<entry, pc, live>>
  OBVIOUS
<1>5. calls = <<c>> /\ calls # << >> /\ Head(calls) = c /\ Tail(calls) = << >>
  <2>1. calls = <<c>>
    BY <1>4
  <2>2. <<c>> \o << >> = <<c>> /\ IsSeq(<< >>)
    BY OneAndOne, EmptyIsSeq
  <2> QED
    BY <2>1, <2>2, OneFirst
<1>6. /\ c.call = "pane.split" /\ c.pane = pane
      /\ c.target \in PaneIds(t.layout)
         /\ PaneIds(t.layout) \subseteq PaneIds(TabAt(Session, i, j).layout)
      /\ PaneIds(new) = PaneIds(t.layout) \cup {FirstNew}
      /\ c.swap => Looks(i, j, pane, Swapped(new, FirstNew, c.target))
      /\ ~c.swap => Looks(i, j, pane, new)
  BY <1>2, SplitAgain
<1>7. SplitPane
  BY <1>5, <1>6, CalmNamed
<1>8. PaneAt(herdr, i, j, c.target)
  BY <1>2, <1>3, <1>6, InTabIs
<1>9. c.target \in PanesIn(herdr)
  BY <1>8 DEF PaneAt, IsPlace, TabAt, PanesIn, TabsIn, Range
<1> DEFINE swap == [call |-> "pane.swap", source |-> FirstNew, target |-> c.target]
           fill == OccupyCall(pane, FirstNew)
<1>10. /\ herdr' = PaneSplit(herdr, c.target, c.direction, c.ratio, Pane(FirstNew, c.cwd))
       /\ calls' = ((IF c.swap THEN <<swap>> ELSE << >>) \o <<fill>>) \o << >>
       /\ UNCHANGED <<entry, pc, live>>
  BY <1>5, <1>6, <1>7, <1>9, CalmSplit DEF OccupyCall
<1> HIDE DEF swap, fill
<1> SUFFICES ASSUME NEW u, u = Tab(t.id, t.label, t.focused, new)
             PROVE  /\ Swapping(i, j, pane, herdr', calls')
                       \/ OccupyingPane(i, j, pane, herdr', calls')
                    /\ UNCHANGED <<entry, pc, live>>
  OBVIOUS
<1>11. u.label = t.label /\ u.layout = new
  BY TabOf
<1>12. TabBecomes(herdr', herdr, i, j, u)
  BY <1>1, <1>8, <1>10, PaneSplitIs
<1>13. InTab(i, j, herdr') /\ TabAt(herdr', i, j) = u
  BY <1>2, <1>3, <1>11, <1>12, InTabStays
<1>14. PaneIn(i, j, pane, herdr')
  <2>1. FirstNew \in PaneIds(TabAt(herdr', i, j).layout)
    BY <1>6, <1>11, <1>13
  <2> QED
    BY <1>3, <1>13, <2>1, InTabIs DEF PaneIn
<1>15. CASE c.swap
  <2>1. calls' = <<swap, fill>>
    <3>1. calls' = (<<swap>> \o <<fill>>) \o << >>
      BY <1>10, <1>15
    <3>2. <<swap>> \o <<fill>> = <<swap, fill>>
      BY OneAndOne
    <3>3. <<swap, fill>> \o << >> = <<swap, fill>>
      BY EmptyIsSeq, TwoFirst, FirstOfConcat
    <3> QED
      BY <3>1, <3>2, <3>3
  <2>2. c.target \in PaneIds(TabAt(herdr', i, j).layout)
        /\ Looks(i, j, pane, Swapped(TabAt(herdr', i, j).layout, FirstNew, c.target))
    BY <1>6, <1>11, <1>13, <1>15
  <2>3. Swapping(i, j, pane, herdr', calls')
    BY <1>14, <2>1, <2>2 DEF Swapping, swap, fill
  <2> QED
    BY <1>10, <2>3
<1>16. CASE ~c.swap
  <2>1. calls' = <<fill>>
    <3>1. calls' = (<< >> \o <<fill>>) \o << >>
      BY <1>10, <1>16
    <3>2. << >> \o <<fill>> = <<fill>>
      BY OneFirst, OneIsSeq
    <3> QED
      BY <3>1, <3>2, OneAndOne
  <2>2. PaneBeside(i, j, pane, herdr')
    BY <1>6, <1>11, <1>13, <1>14, <1>16 DEF PaneBeside
  <2>3. OccupyingPane(i, j, pane, herdr', calls')
    BY <2>1, <2>2 DEF OccupyingPane, fill
  <2> QED
    BY <1>10, <2>3
<1> QED
  BY <1>15, <1>16

LEMMA OneCall ==
  ASSUME NEW x, NEW c, c = <<x>>
  PROVE  c # << >> /\ Head(c) = x /\ Tail(c) = << >>
<1>1. <<x>> \o << >> = <<x>> /\ IsSeq(<< >>)
  BY OneAndOne, EmptyIsSeq
<1> QED
  BY <1>1, OneFirst

LEMMA TwoCalls ==
  ASSUME NEW x, NEW y, NEW c, c = <<x, y>>
  PROVE  c # << >> /\ Head(c) = x /\ Tail(c) = <<y>>
<1>1. <<x, y>> \o << >> = <<x, y>> /\ IsSeq(<< >>) /\ <<y>> \o << >> = <<y>>
  BY OneAndOne, EmptyIsSeq, TwoFirst, FirstOfConcat
<1> QED
  BY <1>1, TwoFirst

LEMMA CalmFocusPane ==
  ASSUME Calm, Calm', [Next]_vars, ~UNCHANGED vars, pc = "calling", calls # << >>,
         NEW pane, Head(calls) = FocusCall(pane)
  PROVE  /\ herdr' = PaneFocused(herdr, pane) /\ calls' = << >> \o Tail(calls)
         /\ UNCHANGED <<entry, pc, live, occupied, created>>
<1>1. FocusCall(pane).pane = pane /\ FocusCall(pane).call = "pane.focus"
  BY ONLY DEF FocusCall
<1>2. Head(calls).pane = pane /\ Head(calls).call = "pane.focus"
  BY ONLY <1>1, Head(calls) = FocusCall(pane)
<1>3. FocusPane
  BY <1>2, CalmNamed
<1>4. Try("pane.focus", PaneFocused(herdr, pane))
  BY <1>2, <1>3 DEF FocusPane
<1> QED
  BY <1>4, CalmTry

LEMMA CalmSwap ==
  ASSUME Calm, Calm', [Next]_vars, ~UNCHANGED vars, pc = "calling", calls # << >>,
         NEW one, NEW two, Head(calls) = SwapCall(one, two)
  PROVE  /\ herdr' = PanesSwapped(herdr, one, two) /\ calls' = << >> \o Tail(calls)
         /\ UNCHANGED <<entry, pc, live, occupied, created>>
<1>1. SwapCall(one, two).source = one /\ SwapCall(one, two).target = two
      /\ SwapCall(one, two).call = "pane.swap"
  BY ONLY DEF SwapCall
<1>2. Head(calls).source = one /\ Head(calls).target = two /\ Head(calls).call = "pane.swap"
  BY ONLY <1>1, Head(calls) = SwapCall(one, two)
<1>3. SwapPanes
  BY <1>2, CalmNamed
<1>4. Try("pane.swap", PanesSwapped(herdr, one, two))
  BY <1>2, <1>3 DEF SwapPanes
<1> QED
  BY <1>4, CalmTry

LEMMA SwapStep ==
  ASSUME ReopenInv, Calm, Calm', [Next]_vars, ~UNCHANGED vars, pc = "calling",
         NEW i, NEW j, NEW pane, ClosesPane(i, j, pane, entry),
         Swapping(i, j, pane, herdr, calls)
  PROVE  OccupyingPane(i, j, pane, herdr', calls') /\ UNCHANGED <<entry, pc, live>>
<1> SUFFICES ASSUME NEW t, t = TabAt(herdr, i, j)
             PROVE  OccupyingPane(i, j, pane, herdr', calls') /\ UNCHANGED <<entry, pc, live>>
  OBVIOUS
<1> DEFINE fill == OccupyCall(pane, FirstNew)
<1> HIDE DEF fill
<1>1. Sound(herdr, next) /\ next \in Nat
  BY DEF ReopenInv, HerdrInv
<1>2. IsPlace(Session, i, j)
  BY DEF ClosesPane
<1>3. InTab(i, j, herdr) /\ PaneAt(herdr, i, j, FirstNew)
  BY DEF Swapping, PaneIn
<1>4. PICK target \in PaneIds(t.layout) :
        /\ Looks(i, j, pane, Swapped(t.layout, FirstNew, target))
        /\ calls = <<SwapCall(FirstNew, target), fill>>
  BY DEF Swapping, SwapCall, fill
<1>5. calls # << >> /\ Head(calls) = SwapCall(FirstNew, target) /\ Tail(calls) = <<fill>>
  BY <1>4, TwoCalls
<1>6. /\ herdr' = PanesSwapped(herdr, FirstNew, target) /\ calls' = << >> \o <<fill>>
      /\ UNCHANGED <<entry, pc, live>>
  BY <1>5, CalmSwap
<1>7. calls' = <<fill>>
  BY <1>6, OneFirst, OneIsSeq
<1> SUFFICES ASSUME NEW new, new = Swapped(t.layout, FirstNew, target),
                    NEW u, u = Tab(t.id, t.label, t.focused, new)
             PROVE  OccupyingPane(i, j, pane, herdr', calls') /\ UNCHANGED <<entry, pc, live>>
  OBVIOUS
<1>8. u.label = t.label /\ u.layout = new
  BY TabOf
<1>9. TabBecomes(herdr', herdr, i, j, u)
  BY <1>1, <1>3, <1>4, <1>6, PanesSwappedIs
<1>10. InTab(i, j, herdr') /\ TabAt(herdr', i, j) = u
  BY <1>2, <1>3, <1>8, <1>9, InTabStays
<1>11. FirstNew \in PaneIds(t.layout)
  BY <1>3 DEF PaneAt
<1>12. IsTab(t)
  BY <1>1, <1>3, SoundTabs DEF PaneAt, IsPlace, TabAt
<1>13. PaneIds(new) = PaneIds(t.layout)
  BY <1>4, <1>11, <1>12, SwappedIsLayout DEF IsTab
<1>14. PaneIn(i, j, pane, herdr')
  BY <1>2, <1>8, <1>10, <1>11, <1>13, InTabIs DEF PaneIn
<1>15. PaneBeside(i, j, pane, herdr')
  BY <1>4, <1>8, <1>10, <1>14 DEF PaneBeside
<1> QED
  BY <1>6, <1>7, <1>15 DEF OccupyingPane, fill

LEMMA BesideStays ==
  ASSUME NEW i, NEW j, IsPlace(Session, i, j), NEW pane, NEW h, PaneBeside(i, j, pane, h),
         NEW u, u.label = TabAt(h, i, j).label, u.layout = TabAt(h, i, j).layout,
         NEW r, TabBecomes(r, h, i, j, u)
  PROVE  PaneBeside(i, j, pane, r) /\ TabAt(r, i, j) = u
<1>1. InTab(i, j, h) /\ PaneAt(h, i, j, FirstNew) /\ Looks(i, j, pane, TabAt(h, i, j).layout)
  BY DEF PaneBeside, PaneIn
<1>2. InTab(i, j, r) /\ TabAt(r, i, j) = u
  BY <1>1, InTabStays
<1>3. FirstNew \in PaneIds(u.layout)
  BY <1>1 DEF PaneAt
<1>4. PaneAt(r, i, j, FirstNew)
  BY <1>2, <1>3, InTabIs
<1> QED
  BY <1>1, <1>2, <1>4 DEF PaneBeside, PaneIn

LEMMA OccupyStep ==
  ASSUME ReopenInv, Calm, Calm', [Next]_vars, ~UNCHANGED vars, pc = "calling",
         NEW i, NEW j, NEW pane, ClosesPane(i, j, pane, entry),
         OccupyingPane(i, j, pane, herdr, calls)
  PROVE  /\ FocusingPane(i, j, pane, herdr', calls', occupied')
            \/ PaneThere(i, j, pane, herdr', calls', occupied')
         /\ UNCHANGED <<entry, pc, live>>
<1> DEFINE fill == OccupyCall(pane, FirstNew)
<1>1. fill.call = "restore_occupant" /\ fill.pairs = {<<pane, FirstNew>>}
      /\ fill.focus = FirstNew
  BY DEF OccupyCall
<1> HIDE DEF fill
<1>2. PaneBeside(i, j, pane, herdr) /\ calls = <<fill>>
  BY DEF OccupyingPane, fill
<1>3. calls # << >> /\ Head(calls) = fill /\ Tail(calls) = << >>
  BY <1>2, OneCall
<1>4. RestoreOccupants
  BY <1>1, <1>3, CalmNamed
<1>5. /\ occupied' = occupied \cup fill.pairs
      /\ calls' = (IF FocusOnReopen /\ fill.focus # None
                   THEN <<[call |-> "pane.focus", pane |-> fill.focus]>> ELSE << >>) \o << >>
      /\ UNCHANGED <<herdr, entry, pc, live>>
  BY <1>3, <1>4, CalmOccupy
<1>6. FirstNew # None
  BY IdAssumption
<1>7. <<pane, FirstNew>> \in occupied' /\ PaneBeside(i, j, pane, herdr')
  BY <1>1, <1>2, <1>5
<1>8. CASE FocusOnReopen
  <2>1. calls' = <<FocusCall(FirstNew)>> \o << >>
    BY <1>1, <1>5, <1>6, <1>8 DEF FocusCall
  <2>2. calls' = <<FocusCall(FirstNew)>>
    BY <2>1, OneAndOne
  <2> QED
    BY <1>5, <1>7, <2>2 DEF FocusingPane
<1>9. CASE ~FocusOnReopen
  <2>1. calls' = << >>
    BY <1>5, <1>9, OneAndOne
  <2> QED
    BY <1>5, <1>7, <1>9, <2>1 DEF PaneThere
<1> QED
  BY <1>8, <1>9

LEMMA FocusStep ==
  ASSUME ReopenInv, Calm, Calm', [Next]_vars, ~UNCHANGED vars, pc = "calling",
         NEW i, NEW j, NEW pane, ClosesPane(i, j, pane, entry),
         FocusingPane(i, j, pane, herdr, calls, occupied)
  PROVE  PaneThere(i, j, pane, herdr', calls', occupied') /\ UNCHANGED <<entry, pc, live>>
<1> SUFFICES ASSUME NEW t, t = TabAt(herdr, i, j), NEW u,
                    u = Tab(t.id, t.label, FirstNew, t.layout)
             PROVE  PaneThere(i, j, pane, herdr', calls', occupied')
                    /\ UNCHANGED <<entry, pc, live>>
  OBVIOUS
<1>1. Sound(herdr, next) /\ next \in Nat
  BY DEF ReopenInv, HerdrInv
<1>2. IsPlace(Session, i, j)
  BY DEF ClosesPane
<1>3. PaneBeside(i, j, pane, herdr) /\ <<pane, FirstNew>> \in occupied
      /\ calls = <<FocusCall(FirstNew)>>
  BY DEF FocusingPane
<1>4. PaneAt(herdr, i, j, FirstNew)
  BY <1>3 DEF PaneBeside, PaneIn
<1>5. calls # << >> /\ Head(calls) = FocusCall(FirstNew) /\ Tail(calls) = << >>
  BY <1>3, OneCall
<1>6. /\ herdr' = PaneFocused(herdr, FirstNew) /\ calls' = << >> \o << >>
      /\ UNCHANGED <<entry, pc, live, occupied>>
  BY <1>5, CalmFocusPane
<1>7. u.label = t.label /\ u.layout = t.layout /\ u.focused = FirstNew
  BY TabOf
<1>8. TabBecomes(herdr', herdr, i, j, u)
  BY <1>1, <1>4, <1>6, PaneFocusedIs
<1>9. PaneBeside(i, j, pane, herdr') /\ TabAt(herdr', i, j) = u
  BY <1>2, <1>3, <1>7, <1>8, BesideStays
<1>10. calls' = << >>
  BY <1>6, OneAndOne
<1> QED
  BY <1>3, <1>6, <1>7, <1>9, <1>10 DEF PaneThere

LEMMA PaneDone ==
  ASSUME NEW i, NEW j, NEW pane, NEW h, NEW o, PaneStory(i, j, pane, h, << >>, o)
  PROVE  PaneThere(i, j, pane, h, << >>, o)
<1>1. ~Splitting(i, j, pane, h, << >>)
  BY DEF Splitting
<1>2. ~Swapping(i, j, pane, h, << >>)
  BY DEF Swapping
<1>3. ~OccupyingPane(i, j, pane, h, << >>) /\ ~FocusingPane(i, j, pane, h, << >>, o)
  BY DEF OccupyingPane, FocusingPane
<1> QED
  BY <1>1, <1>2, <1>3 DEF PaneStory

\* A pane is split by the first call only.
LEMMA SplitFirst ==
  ASSUME NEW i, NEW j, NEW pane, NEW h, NEW c, NEW o,
         \/ Swapping(i, j, pane, h, c) \/ OccupyingPane(i, j, pane, h, c)
         \/ FocusingPane(i, j, pane, h, c, o) \/ PaneThere(i, j, pane, h, c, o)
  PROVE  c = << >> \/ Head(c).call # "pane.split"
<1>1. CASE Swapping(i, j, pane, h, c)
  <2>1. PICK target : c = <<SwapCall(FirstNew, target), OccupyCall(pane, FirstNew)>>
    BY <1>1 DEF Swapping, SwapCall
  <2>2. Head(c) = SwapCall(FirstNew, target)
    BY <2>1, TwoCalls
  <2> QED
    BY <2>2 DEF SwapCall
<1>2. CASE OccupyingPane(i, j, pane, h, c)
  <2>1. Head(c) = OccupyCall(pane, FirstNew)
    BY <1>2, OneCall DEF OccupyingPane
  <2> QED
    BY <2>1 DEF OccupyCall
<1>3. CASE FocusingPane(i, j, pane, h, c, o)
  <2>1. Head(c) = FocusCall(FirstNew)
    BY <1>3, OneCall DEF FocusingPane
  <2> QED
    BY <2>1 DEF FocusCall
<1>4. CASE PaneThere(i, j, pane, h, c, o)
  BY <1>4 DEF PaneThere
<1> QED
  BY <1>1, <1>2, <1>3, <1>4

\* split_beside asks for a split, whatever it finds.
LEMMA SplitCalled ==
  ASSUME NEW tab, NEW pane, NEW first, NEW panes
  PROVE  split_beside(tab, pane, first, panes).call = "pane.split"
  BY ONLY DEF split_beside

LEMMA PaneStep ==
  ASSUME ReopenInv, Calm, Calm', [Next]_vars, ~UNCHANGED vars, pc = "calling", calls # << >>,
         NEW i, NEW j, NEW pane, ClosesPane(i, j, pane, entry),
         PaneStory(i, j, pane, herdr, calls, occupied),
         Head(calls).call # "pane.split" \/ next = FirstNew
  PROVE  /\ PaneStory(i, j, pane, herdr', calls', occupied') /\ UNCHANGED <<entry, pc, live>>
         /\ calls' = << >> \/ Head(calls').call # "pane.split"
<1> SUFFICES ASSUME NEW h, h = herdr', NEW c, c = calls', NEW o, o = occupied'
             PROVE  /\ PaneStory(i, j, pane, h, c, o) /\ UNCHANGED <<entry, pc, live>>
                    /\ c = << >> \/ Head(c).call # "pane.split"
  OBVIOUS
<1>1. \/ Splitting(i, j, pane, herdr, calls) \/ Swapping(i, j, pane, herdr, calls)
      \/ OccupyingPane(i, j, pane, herdr, calls)
         \/ FocusingPane(i, j, pane, herdr, calls, occupied)
  <2>1. ~PaneThere(i, j, pane, herdr, calls, occupied)
    BY DEF PaneThere
  <2> QED
    BY <2>1 DEF PaneStory
<1>2. ASSUME Splitting(i, j, pane, herdr, calls)
      PROVE  (Swapping(i, j, pane, h, c) \/ OccupyingPane(i, j, pane, h, c))
             /\ UNCHANGED <<entry, pc, live>>
  <2>1. PICK first \in PaneIds(TabAt(herdr, i, j).layout) :
          calls = <<split_beside(SnapAt(i, j), pane, first,
          PaneIds(TabAt(herdr, i, j).layout))>>
    BY <1>2 DEF Splitting
  <2>2. Head(calls) = split_beside(SnapAt(i, j), pane, first,
        PaneIds(TabAt(herdr, i, j).layout))
    BY <2>1, OneCall
  <2>3. Head(calls).call = "pane.split"
    BY ONLY <2>2, SplitCalled
  <2> QED
    BY <1>2, <2>3, SplitStep
<1>3. /\ \/ Swapping(i, j, pane, h, c) \/ OccupyingPane(i, j, pane, h, c)
         \/ FocusingPane(i, j, pane, h, c, o) \/ PaneThere(i, j, pane, h, c, o)
      /\ UNCHANGED <<entry, pc, live>>
  <2>1. ASSUME Swapping(i, j, pane, herdr, calls)
        PROVE  OccupyingPane(i, j, pane, h, c) /\ UNCHANGED <<entry, pc, live>>
    BY <2>1, SwapStep
  <2>2. ASSUME OccupyingPane(i, j, pane, herdr, calls)
        PROVE  (FocusingPane(i, j, pane, h, c, o) \/ PaneThere(i, j, pane, h, c, o))
               /\ UNCHANGED <<entry, pc, live>>
    BY <2>2, OccupyStep
  <2>3. ASSUME FocusingPane(i, j, pane, herdr, calls, occupied)
        PROVE  PaneThere(i, j, pane, h, c, o) /\ UNCHANGED <<entry, pc, live>>
    BY <2>3, FocusStep
  <2> QED
    BY <1>1, <1>2, <2>1, <2>2, <2>3
<1>4. c = << >> \/ Head(c).call # "pane.split"
  BY <1>3, SplitFirst
<1> QED
  BY <1>3, <1>4 DEF PaneStory

(***************************************************************************)
(* Workspaces come back.                                                   *)
(***************************************************************************)

LEMMA ClosedIs ==
  ASSUME NEW S \in SUBSET DOMAIN Session
  PROVE  /\ IsSeq(Session) /\ DOMAIN Session = 1 .. Len(Session)
         /\ Cardinality(S) \in Nat /\ Cardinality(Left(S)) \in Nat
         /\ Left(S) \in SUBSET DOMAIN Session
         /\ \A k \in 1 .. Cardinality(S) : Pos(S, k) \in S /\ Pos(S, k) \in DOMAIN Session
            /\ Pos(S, k) \in Nat
         /\ \A j, k \in 1 .. Cardinality(S) : j < k => Pos(S, j) < Pos(S, k)
         /\ \A i \in S : \E k \in 1 .. Cardinality(S) : Pos(S, k) = i
<1>1. IsSeq(Session)
  BY SessionAssumption DEF IsSeq
<1>2. DOMAIN Session = 1 .. Len(Session) /\ Len(Session) \in Nat
  BY <1>1 DEF IsSeq
<1>3. S \in SUBSET (1 .. Len(Session)) /\ Left(S) \in SUBSET (1 .. Len(Session))
  BY <1>2 DEF Left
<1>4. Cardinality(S) \in Nat /\ Cardinality(Left(S)) \in Nat
  BY <1>2, <1>3, PosIs
<1>5. \A k \in 1 .. Cardinality(S) : Pos(S, k) \in S
  BY <1>2, <1>3, PosIs
<1>6. /\ \A j, k \in 1 .. Cardinality(S) : j < k => Pos(S, j) < Pos(S, k)
      /\ \A i \in S : \E k \in 1 .. Cardinality(S) : Pos(S, k) = i
  BY <1>2, <1>3, PosIs
<1>7. \A k \in 1 .. Cardinality(S) : Pos(S, k) \in DOMAIN Session /\ Pos(S, k) \in Nat
  BY <1>2, <1>3, <1>5
<1> QED
  BY <1>1, <1>2, <1>3, <1>4, <1>5, <1>6, <1>7

LEMMA WorkspaceSnapIs ==
  ASSUME NEW i, NEW ws, ws = WorkspaceSnap(i)
  PROVE  /\ ws.workspace_id = Session[i].id /\ ws.index = i - 1 /\ ws.label = Session[i].label
         /\ ws.cwd = Session[i].cwd /\ ws.active_tab_id = Session[i].active
         /\ ws.tabs = [j \in DOMAIN Session[i].tabs |-> SnapAt(i, j)]
  BY DEF WorkspaceSnap, SnapAt

\* The workspaces that are still to be rebuilt.
Waiting(S, m) == {WorkspaceSnap(Pos(S, k)) : k \in m + 1 .. Cardinality(S)}
EachCall(S, m) == [call |-> "restore_workspace", left |-> Waiting(S, m)]

LEMMA EachIs ==
  ASSUME NEW S \in SUBSET DOMAIN Session, NEW m \in 0 .. Cardinality(S)
  PROVE  /\ IsSeq(Each(S, m)) /\ (m = Cardinality(S) => Each(S, m) = << >>)
         /\ (m < Cardinality(S) => Each(S, m) = <<EachCall(S, m)>>)
<1>1. Cardinality(S) \in Nat
  BY ClosedIs
<1>2. Each(S, m) = RestoreEach(Waiting(S, m))
  BY DEF Each, Waiting
<1>3. CASE m = Cardinality(S)
  <2>1. Waiting(S, m) = {}
    BY <1>1, <1>3 DEF Waiting
  <2> QED
    BY <1>1, <1>2, <1>3, <2>1, EmptyIsSeq DEF RestoreEach
<1>4. CASE m < Cardinality(S)
  <2>1. Waiting(S, m) # {}
    <3>1. m + 1 \in m + 1 .. Cardinality(S)
      BY <1>1, <1>4
    <3> QED
      BY <3>1 DEF Waiting
  <2>2. Each(S, m) = <<EachCall(S, m)>>
    BY <1>2, <2>1 DEF RestoreEach, EachCall
  <2> QED
    BY <1>1, <1>4, <2>2, OneIsSeq
<1> QED
  BY <1>1, <1>3, <1>4

\* The one with the least index is the next.
LEMMA FirstWaiting ==
  ASSUME NEW S \in SUBSET DOMAIN Session, NEW m \in Nat, m < Cardinality(S),
         NEW ws \in Waiting(S, m), \A v \in Waiting(S, m) : ws.index <= v.index
  PROVE  ws = WorkspaceSnap(Pos(S, m + 1)) /\ Waiting(S, m) \ {ws} = Waiting(S, m + 1)
<1> SUFFICES ASSUME NEW n, n = Cardinality(S)
             PROVE  ws = WorkspaceSnap(Pos(S, m + 1))
                    /\ Waiting(S, m) \ {ws} = Waiting(S, m + 1)
  OBVIOUS
<1>1. n \in Nat
  BY ClosedIs
<1>a. /\ \A k \in 1 .. n : Pos(S, k) \in Nat
      /\ \A j, k \in 1 .. n : j < k => Pos(S, j) < Pos(S, k)
  BY ClosedIs
<1>b. \A k \in m + 1 .. n : k \in 1 .. n
  BY <1>1
<1>2. \A k \in m + 1 .. n : Pos(S, k) \in Nat
  BY <1>a, <1>b
<1>3. \A j, k \in m + 1 .. n : j < k => Pos(S, j) < Pos(S, k)
  BY <1>a, <1>b
<1>4. \A k : WorkspaceSnap(Pos(S, k)).index = Pos(S, k) - 1
  BY WorkspaceSnapIs
<1>5. \A v : v \in Waiting(S, m) <=> \E k \in m + 1 .. n : v = WorkspaceSnap(Pos(S, k))
  BY DEF Waiting
<1>6. PICK k \in m + 1 .. n : ws = WorkspaceSnap(Pos(S, k))
  BY <1>5
<1>7. m + 1 \in m + 1 .. n
  BY <1>1
<1>8. WorkspaceSnap(Pos(S, m + 1)) \in Waiting(S, m)
  BY <1>5, <1>7
<1>9. k = m + 1
  <2>1. Pos(S, k) - 1 <= Pos(S, m + 1) - 1
    BY <1>4, <1>6, <1>8
  <2>2. ~(m + 1 < k)
    BY <1>2, <1>3, <1>7, <2>1
  <2> QED
    BY <1>1, <2>2
<1>10. \A v : v \in Waiting(S, m + 1) <=> \E l \in m + 2 .. n : v = WorkspaceSnap(Pos(S, l))
  BY DEF Waiting
<1>11. ASSUME NEW v PROVE v \in Waiting(S, m) \ {ws} <=> v \in Waiting(S, m + 1)
  <2>1. ASSUME v \in Waiting(S, m) \ {ws} PROVE v \in Waiting(S, m + 1)
    <3>1. PICK l \in m + 1 .. n : v = WorkspaceSnap(Pos(S, l))
      BY <1>5, <2>1
    <3>2. l # m + 1
      BY <1>6, <1>9, <2>1, <3>1
    <3>3. l \in m + 2 .. n
      BY <1>1, <3>2
    <3> QED
      BY <1>10, <3>1, <3>3
  <2>2. ASSUME v \in Waiting(S, m + 1) PROVE v \in Waiting(S, m) \ {ws}
    <3>1. PICK l \in m + 2 .. n : v = WorkspaceSnap(Pos(S, l))
      BY <1>10, <2>2
    <3>2. l \in m + 1 .. n /\ m + 1 < l
      BY <1>1
    <3>3. Pos(S, m + 1) < Pos(S, l) /\ Pos(S, m + 1) \in Nat /\ Pos(S, l) \in Nat
      BY <1>2, <1>3, <1>7, <3>2
    <3>4. v.index # ws.index
      BY <1>4, <1>6, <1>9, <3>1, <3>3
    <3> QED
      BY <1>5, <3>1, <3>2, <3>4
  <2> QED
    BY <2>1, <2>2
<1> QED
  BY <1>6, <1>9, <1>11

LEMMA NotListed ==
  ASSUME NEW S \in SUBSET DOMAIN Session, NEW l, Unlisted(S, l), NEW i \in S, NEW cwds
  PROVE  ~WorkspaceAlive(WorkspaceSnap(i), cwds, l)
<1> DEFINE left == Keep(Session, Left(S))
<1>1. IsSeq(Session) /\ Left(S) \in SUBSET DOMAIN Session
  BY ClosedIs
<1>2. \A j \in DOMAIN left : \E k \in Left(S) : left[j] = Session[k]
  BY <1>1, KeepIds
<1> HIDE DEF left
<1>3. l.workspaces = WorkspaceRows(left)
  BY DEF Unlisted, left
<1>4. WorkspaceSnap(i).workspace_id = Session[i].id
  BY WorkspaceSnapIs
<1>5. ASSUME NEW w \in l.workspaces, w.id = Session[i].id PROVE FALSE
  <2>1. PICK v \in Range(left) : w = [id |-> v.id, label |-> v.label]
    BY <1>3, <1>5 DEF WorkspaceRows
  <2>2. PICK j \in DOMAIN left : v = left[j]
    BY <2>1 DEF Range
  <2>3. PICK k \in Left(S) : left[j] = Session[k]
    BY <1>2
  <2>4. Session[k].id = Session[i].id /\ k \in DOMAIN Session
    BY <1>1, <1>5, <2>1, <2>2, <2>3
  <2>5. k = i
    BY <2>4, SessionAssumption DEF DistinctIds
  <2> QED
    BY <2>5 DEF Left
<1> QED
  BY <1>4, <1>5 DEF WorkspaceAlive

LEMMA AtIs ==
  ASSUME NEW S \in SUBSET DOMAIN Session, NEW m \in Nat
  PROVE  /\ At(S, 0) \in Nat /\ At(S, m) \in Nat /\ At(S, m) = At(S, 0) + m
            /\ At(S, m + 1) = At(S, m) + 1
         /\ At(S, m + 1) \in Nat
<1>1. Cardinality(Left(S)) \in Nat
  BY ClosedIs
<1> QED
  BY <1>1 DEF At

LEMMA NextClosed ==
  ASSUME NEW S \in SUBSET DOMAIN Session, NEW m \in 0 .. Cardinality(S)
  PROVE  /\ m \in Nat /\ Cardinality(S) \in Nat
         /\ m < Cardinality(S) => /\ Pos(S, m + 1) \in S /\ Pos(S, m + 1) \in DOMAIN Session
                                 /\ m + 1 \in 0 .. Cardinality(S)
<1> SUFFICES ASSUME NEW n, n = Cardinality(S)
             PROVE  /\ m \in Nat /\ n \in Nat
                    /\ m < n => Pos(S, m + 1) \in S /\ Pos(S, m + 1) \in DOMAIN Session
                       /\ m + 1 \in 0 .. n
  OBVIOUS
<1>1. n \in Nat /\ \A k \in 1 .. n : Pos(S, k) \in S /\ Pos(S, k) \in DOMAIN Session
  BY ClosedIs
<1>2. m \in Nat /\ (m < n => m + 1 \in 1 .. n /\ m + 1 \in 0 .. n)
  BY <1>1
<1> QED
  BY <1>1, <1>2

LEMMA BetweenStep ==
  ASSUME Calm, Calm', [Next]_vars, ~UNCHANGED vars, pc = "calling", calls # << >>,
         NEW S \in SUBSET DOMAIN Session, Unlisted(S, live), NEW m \in 0 .. Cardinality(S),
         BetweenWorkspaces(S, m, herdr, calls, occupied)
  PROVE  Creating(S, m, herdr', calls', occupied') /\ UNCHANGED <<entry, pc, live>>
<1>1. SomeBack(S, m, herdr, occupied) /\ Len(herdr) = At(S, m) /\ calls = Each(S, m)
  BY DEF BetweenWorkspaces
<1>2. Cardinality(S) \in Nat /\ m \in Nat
  BY NextClosed
<1>3. m < Cardinality(S)
  BY <1>1, <1>2, EachIs
<1>4. calls = <<EachCall(S, m)>>
  BY <1>1, <1>3, EachIs
<1>5. Head(calls) = EachCall(S, m) /\ Tail(calls) = << >>
  BY <1>4, OneCall
<1>6. Head(calls).call = "restore_workspace" /\ Head(calls).left = Waiting(S, m)
  BY <1>5 DEF EachCall
<1>7. RestoreWorkspace
  BY <1>6, CalmNamed
<1>8. PICK ws \in Waiting(S, m) :
        /\ \A v \in Waiting(S, m) : ws.index <= v.index
        /\ calls' = (restore_workspace(ws, live) \o RestoreEach(Waiting(S, m) \ {ws})) \o << >>
        /\ UNCHANGED <<herdr, entry, pc, live, occupied>>
  BY <1>5, <1>6, <1>7, CalmWorkspace
<1>9. ws = WorkspaceSnap(Pos(S, m + 1)) /\ Waiting(S, m) \ {ws} = Waiting(S, m + 1)
  BY <1>2, <1>3, <1>8, FirstWaiting
<1>10. Pos(S, m + 1) \in S /\ m + 1 \in 0 .. Cardinality(S)
  BY <1>3, NextClosed
<1>11. \A cwds : ~WorkspaceAlive(ws, cwds, live)
  BY <1>9, <1>10, NotListed
<1>12. restore_workspace(ws, live) = <<CreateCall(Pos(S, m + 1))>>
  BY <1>9, <1>11 DEF restore_workspace, CreateCall
<1>13. RestoreEach(Waiting(S, m) \ {ws}) = Each(S, m + 1) /\ IsSeq(Each(S, m + 1))
  BY <1>9, <1>10, EachIs DEF Each, Waiting
<1>14. calls' = <<CreateCall(Pos(S, m + 1))>> \o Each(S, m + 1)
  <2> DEFINE c == <<CreateCall(Pos(S, m + 1))>> \o Each(S, m + 1)
  <2>1. IsSeq(c)
    BY <1>13, OneFirst
  <2>2. calls' = c \o << >>
    BY <1>8, <1>12, <1>13
  <2> HIDE DEF c
  <2>3. c \o << >> = c
    BY <2>1, EmptyIsSeq, FirstOfConcat
  <2> QED
    BY <2>2, <2>3 DEF c
<1> QED
  BY <1>1, <1>3, <1>8, <1>14 DEF Creating

LEMMA NamedAgain ==
  ASSUME NEW label, NEW cwd, NEW shown, shown = effective_ws_label(label, cwd)
  PROVE  effective_ws_label(IF shown = None THEN cwd ELSE shown,
         cwd) = effective_ws_label(label, cwd)
BY DEF effective_ws_label

\* The workspaces that stayed and those that are back are as they were.
LEMMA StillBack ==
  ASSUME NEW S \in SUBSET DOMAIN Session, NEW m, NEW h, NEW o, SomeBack(S, m, h, o),
         NEW r, NEW q, o \subseteq q, DOMAIN r = 1 .. Len(r), Len(r) \in Nat,
         Len(r) >= At(S, m),
         \A k \in 1 .. At(S, m) : r[k] = h[k]
  PROVE  SomeBack(S, m, r, q)
<1>1. Cardinality(S) \in Nat
  BY ClosedIs
<1>2. /\ m \in 0 .. Cardinality(S) /\ DOMAIN h = 1 .. Len(h) /\ Len(h) >= At(S, m)
      /\ \A k \in 1 .. At(S, 0) : h[k] = Keep(Session, Left(S))[k]
      /\ \A k \in 1 .. m : WorkspaceBack(h, At(S, k), Pos(S, k), o)
  BY DEF SomeBack
<1>3. m \in Nat
  BY <1>1, <1>2
<1>4. \A k \in 1 .. At(S, 0) : r[k] = Keep(Session, Left(S))[k]
  <2>1. At(S, 0) \in Nat /\ At(S, m) \in Nat /\ At(S, 0) <= At(S, m)
    BY <1>3, AtIs
  <2> QED
    BY <1>2, <2>1
<1>5. ASSUME NEW k \in 1 .. m PROVE WorkspaceBack(r, At(S, k), Pos(S, k), q)
  <2> SUFFICES ASSUME NEW a, a = At(S, k), NEW i, i = Pos(S, k)
               PROVE  WorkspaceBack(r, a, i, q)
    OBVIOUS
  <2>1. r[a] = h[a]
    <3>1. At(S, k) \in Nat /\ At(S, m) \in Nat /\ At(S, k) = At(S, 0) + k
          /\ At(S, m) = At(S, 0) + m /\ At(S, 0) \in Nat
      BY <1>3, AtIs
    <3>2. a \in 1 .. At(S, m)
      BY <1>3, <3>1
    <3> QED
      BY <3>2
  <2>2. WorkspaceBack(h, a, i, o)
    BY <1>2
  <2>3. /\ WorkspaceLike(h[a], i) /\ DOMAIN h[a].tabs = DOMAIN Session[i].tabs
        /\ TabsBack(h, a, i, Len(Session[i].tabs), o) /\ ActiveBack(h, a, i)
    BY <2>2 DEF WorkspaceBack
  <2>4. \A b : TabAt(r, a, b) = TabAt(h, a, b)
    BY <2>1 DEF TabAt
  <2>5. TabsBack(r, a, i, Len(Session[i].tabs), q)
    BY <2>3, <2>4 DEF TabsBack, TabBack, Watched
  <2>6. ActiveBack(r, a, i)
    BY <2>1, <2>3, <2>4 DEF ActiveBack
  <2> QED
    BY <2>1, <2>3, <2>5, <2>6 DEF WorkspaceBack
<1> QED
  BY <1>2, <1>4, <1>5 DEF SomeBack

\* What herdr makes of the request for a workspace.
LEMMA CreatedIs ==
  ASSUME HerdrInv, NEW S \in SUBSET DOMAIN Session, NEW m \in 0 .. Cardinality(S),
         m < Cardinality(S), NEW o,
         SomeBack(S, m, herdr, o), Len(herdr) = At(S, m), NEW i, i = Pos(S, m + 1),
         NEW r, r = WithWorkspace(herdr, next,
         effective_ws_label(Session[i].label, Session[i].cwd), Session[i].cwd,
                                  Tab(next + 1, None, next + 2, Leaf(next + 2, Session[i].cwd)))
  PROVE  OneMore(S, m, r, << >>, o) /\ RebuiltBut(S, m, 0, r, << >>, o)
         /\ r[At(S, m + 1)].id = next
<1> SUFFICES ASSUME NEW a, a = At(S, m + 1), NEW n, n = At(S, m),
                    NEW t, t = Tab(next + 1, None, next + 2, Leaf(next + 2, Session[i].cwd)),
                    NEW shown, shown = effective_ws_label(Session[i].label, Session[i].cwd)
             PROVE  OneMore(S, m, r, << >>, o) /\ RebuiltBut(S, m, 0, r, << >>, o)
                    /\ r[a].id = next
  OBVIOUS
<1>1. /\ next \in Nat /\ next >= FirstNew /\ Sound(herdr, next) /\ FirstNew \in Nat
      /\ IsSession(herdr) /\ \A t1 \in TabsIn(herdr) : t1.id < next /\ t1.id \in Nat
  BY HerdrIs, IdAssumption DEF HerdrInv
<1>2. m \in Nat /\ Pos(S, m + 1) \in DOMAIN Session
  BY NextClosed
<1>3. n \in Nat /\ a = n + 1 /\ a \in Nat
  BY <1>2, AtIs
<1>4. DistinctIds(herdr) /\ \A b \in DOMAIN herdr : herdr[b].id \in 0 .. next - 1
  BY <1>1 DEF Sound, Numbered
<1>5. next \notin IdsIn(herdr)
  BY <1>1, <1>4 DEF IdsIn
<1>6. IsTab(t) /\ t.id = next + 1 /\ t.label = None
  <2>1. t.id = next + 1 /\ t.label = None /\ t.layout = Leaf(next + 2, Session[i].cwd)
        /\ t.focused = next + 2
    BY TabOf
  <2>2. IsLayout(t.layout) /\ PanesApart(t.layout)
    BY <2>1, LeafIsLayout
  <2> QED
    BY <1>1, <2>1, <2>2 DEF IsTab
<1>7. /\ Len(herdr) = n /\ DOMAIN herdr = 1 .. n /\ DOMAIN r = 1 .. n + 1 /\ Len(r) = n + 1
      /\ \A b \in DOMAIN herdr : r[b] = herdr[b]
      /\ r[n + 1].id = next /\ r[n + 1].cwd = Session[i].cwd
      /\ r[n + 1].label = (IF shown = None THEN Session[i].cwd ELSE shown)
      /\ DOMAIN r[n + 1].tabs = {1}
      /\ r[n + 1].tabs[1] = Tab(t.id, LabelGiven(t.label, 0), t.focused, t.layout)
  <2>1. r = WithWorkspace(herdr, next, shown, Session[i].cwd, t) /\ Len(herdr) = n
    OBVIOUS
  <2>2. /\ Len(herdr) \in Nat /\ DOMAIN herdr = 1 .. Len(herdr)
        /\ DOMAIN r = 1 .. Len(herdr) + 1 /\ Len(r) = Len(herdr) + 1
        /\ \A b \in DOMAIN herdr : r[b] = herdr[b]
        /\ r[Len(herdr) + 1].id = next /\ r[Len(herdr) + 1].cwd = Session[i].cwd
        /\ r[Len(herdr) + 1].label = (IF shown = None THEN Session[i].cwd ELSE shown)
        /\ DOMAIN r[Len(herdr) + 1].tabs = {1}
        /\ r[Len(herdr) + 1].tabs[1] = Tab(t.id, LabelGiven(t.label, 0), t.focused, t.layout)
    BY ONLY <1>1, <1>4, <1>5, <1>6, <2>1, WithWorkspaceIs
  <2> QED
    BY ONLY <2>1, <2>2
<1>8. DOMAIN r = 1 .. Len(r) /\ Len(r) = a /\ \A k \in 1 .. n : r[k] = herdr[k]
  BY ONLY <1>3, <1>7
<1>9. SomeBack(S, m, r, o)
  BY <1>3, <1>8, StillBack
<1>10. r[a].id = next /\ DOMAIN r[a].tabs = {1} /\ TabAt(r, a, 1).id = next + 1
  <2>1. r[a].tabs[1].id = t.id
    <3>1. r[a].tabs[1] = Tab(t.id, LabelGiven(t.label, 0), t.focused, t.layout)
      BY ONLY <1>3, <1>7
    <3> QED
      BY ONLY <3>1, TabOf
  <2>2. r[a].id = next /\ DOMAIN r[a].tabs = {1}
    BY ONLY <1>3, <1>7
  <2> QED
    BY <1>6, <2>1, <2>2 DEF TabAt
<1>11. WorkspaceLike(r[a], i)
  <2>1. r[a].label = (IF shown = None THEN Session[i].cwd ELSE shown)
        /\ r[a].cwd = Session[i].cwd
    BY ONLY <1>3, <1>7
  <2>2. effective_ws_label(r[a].label, r[a].cwd) = effective_ws_label(Session[i].label,
        Session[i].cwd)
    BY <2>1, NamedAgain
  <2>3. next \in Nat \ Old
    BY <1>1 DEF Old
  <2> QED
    BY ONLY <1>10, <2>2, <2>3 DEF WorkspaceLike
<1>12. Latest(r, a)
  <2>1. ASSUME NEW b \in DOMAIN r, b # a,
               NEW k \in DOMAIN r[b].tabs PROVE TabAt(r, b, k).id < next
    <3>1. b \in DOMAIN herdr /\ r[b] = herdr[b]
      BY ONLY <1>3, <1>7, <2>1
    <3>2. TabAt(r, b, k) \in TabsIn(herdr)
      BY ONLY <2>1, <3>1 DEF TabAt, TabsIn, Range
    <3> QED
      BY ONLY <1>1, <3>2
  <2>2. \A k \in DOMAIN r[a].tabs : TabAt(r, a, k).id > next
    BY ONLY <1>1, <1>10
  <2> QED
    BY ONLY <1>10, <2>1, <2>2 DEF Latest
<1>13. << >> = [k \in DOMAIN << >> |-> TabAt(r, a, k).id]
  OBVIOUS
<1>14. OneMore(S, m, r, << >>, o)
  BY <1>8, <1>9, <1>11, <1>12, <1>13 DEF OneMore
<1>15. RebuiltBut(S, m, 0, r, << >>, o)
  BY <1>10 DEF RebuiltBut
<1> QED
  BY <1>10, <1>14, <1>15

LEMMA AppendConcat ==
  ASSUME NEW s, IsSeq(s), NEW x, NEW rest, IsSeq(rest)
  PROVE  Append(s, x) \o rest = s \o (<<x>> \o rest)
<1>1. Append(s, x) = s \o <<x>>
  <2>1. s \in Seq(Range(s) \cup {x}) /\ <<x>> \in Seq(Range(s) \cup {x})
    BY SeqWithRange DEF IsSeq
  <2> QED
    BY <2>1, AppendIsConcat
<1> QED
  BY <1>1, OneIsSeq, ConcatTwice

LEMMA AppliesIsSeq ==
  ASSUME NEW i \in DOMAIN Session, NEW ws, NEW j \in 0 .. Len(Session[i].tabs)
  PROVE  IsSeq(Applies(i, ws, j)) /\ Len(Applies(i, ws, j)) = Len(Session[i].tabs) - j
<1> SUFFICES ASSUME NEW n, n = Len(Session[i].tabs) - j, NEW f, f = Applies(i, ws, j)
             PROVE  IsSeq(f) /\ Len(f) = n
  OBVIOUS
<1>1. n \in Nat
  BY TabsOfSession
<1>2. f = [k \in 1 .. n |-> ApplyCall(i, ws, j + k)]
  BY DEF Applies
<1>3. f = [k \in 1 .. n |-> f[k]]
  BY <1>2
<1> QED
  BY <1>1, <1>3, ListIsSeq

LEMMA CreateStep ==
  ASSUME ReopenInv, Calm, Calm', [Next]_vars, ~UNCHANGED vars, pc = "calling", calls # << >>,
         NEW S \in SUBSET DOMAIN Session, NEW m \in 0 .. Cardinality(S),
         Creating(S, m, herdr, calls, occupied)
  PROVE  Building(S, m, 0, herdr', calls', created', occupied') /\ m < Cardinality(S)
         /\ UNCHANGED <<entry, pc, live>>
<1> SUFFICES ASSUME NEW i, i = Pos(S, m + 1), NEW a, a = At(S, m + 1), NEW e, e = Each(S, m + 1)
             PROVE  Building(S, m, 0, herdr', calls', created', occupied')
                    /\ m < Cardinality(S) /\ UNCHANGED <<entry, pc, live>>
  OBVIOUS
<1>1. /\ SomeBack(S, m, herdr, occupied) /\ m < Cardinality(S) /\ Len(herdr) = At(S, m)
      /\ calls = <<CreateCall(i)>> \o e
  BY DEF Creating
<1>2. i \in DOMAIN Session /\ m + 1 \in 0 .. Cardinality(S)
  BY <1>1, NextClosed
<1>3. IsSeq(e)
  BY <1>2, EachIs
<1>4. Head(calls) = CreateCall(i) /\ Tail(calls) = e
  BY <1>1, <1>3, OneFirst
<1>5. Head(calls).call = "workspace.create" /\ Head(calls).ws = WorkspaceSnap(i)
  BY <1>4 DEF CreateCall
<1>6. CreateWorkspace
  BY <1>5, CalmNamed
<1> SUFFICES ASSUME NEW ws, ws = WorkspaceSnap(i)
             PROVE  Building(S, m, 0, herdr', calls', created', occupied')
                    /\ m < Cardinality(S) /\ UNCHANGED <<entry, pc, live>>
  OBVIOUS
<1>7. /\ ws.label = Session[i].label /\ ws.cwd = Session[i].cwd
      /\ ws.tabs = [j \in DOMAIN Session[i].tabs |-> SnapAt(i, j)]
  BY WorkspaceSnapIs
<1>8. /\ herdr' = WithWorkspace(herdr, next, effective_ws_label(ws.label, ws.cwd), ws.cwd,
                                Tab(next + 1, None, next + 2, Leaf(next + 2, ws.cwd)))
      /\ created' = << >>
      /\ calls' = Append([j \in DOMAIN ws.tabs |->
                            Apply(next, IF j = 1 THEN next + 1 ELSE None,
                                  IF j = 1 THEN None ELSE effective_tab_label(ws.tabs[j].label),
                                  ws.tabs[j])], [call |-> "arrange", ws |-> ws]) \o Tail(calls)
      /\ UNCHANGED <<entry, pc, live, occupied>>
  <2>1. Calm /\ Calm' /\ ws = Head(calls).ws
    BY <1>5
  <2> QED
    BY ONLY <1>6, <2>1, CalmCreate
<1>9. HerdrInv
  BY DEF ReopenInv
<1>10. OneMore(S, m, herdr', << >>, occupied)
       /\ RebuiltBut(S, m, 0, herdr', << >>, occupied) /\ herdr'[a].id = next
  <2>1. herdr' = WithWorkspace(herdr, next,
                               effective_ws_label(Session[i].label, Session[i].cwd),
                               Session[i].cwd,
                               Tab(next + 1, None, next + 2, Leaf(next + 2, Session[i].cwd)))
    BY ONLY <1>7, <1>8
  <2>2. /\ S \in SUBSET DOMAIN Session /\ m \in 0 .. Cardinality(S)
        /\ i = Pos(S, m + 1) /\ a = At(S, m + 1)
    OBVIOUS
  <2> QED
    BY ONLY <1>1, <1>9, <2>1, <2>2, CreatedIs
<1>11. DOMAIN Session[i].tabs = 1 .. Len(Session[i].tabs) /\ Len(Session[i].tabs) \in Nat
  BY <1>2, TabsOfSession
<1>12. [j \in DOMAIN ws.tabs |->
          Apply(next, IF j = 1 THEN next + 1 ELSE None,
                IF j = 1 THEN None ELSE effective_tab_label(ws.tabs[j].label), ws.tabs[j])]
         = Applies(i, next, 0)
  <2>1. \A j \in DOMAIN Session[i].tabs :
          /\ ws.tabs[j] = SnapAt(i, j) /\ ws.tabs[j].label = TabAt(Session, i, j).label
    BY <1>2, <1>7, SnapIs DEF IsPlace
  <2>2. DOMAIN ws.tabs = 1 .. Len(Session[i].tabs)
    BY <1>7, <1>11
  <2> DEFINE f(j) == Apply(next, IF j = 1 THEN next + 1 ELSE None,
                           IF j = 1 THEN None ELSE effective_tab_label(ws.tabs[j].label),
                           ws.tabs[j])
  <2>3. \A j \in 1 .. Len(Session[i].tabs) : f(j) = ApplyCall(i, next, j)
    BY <1>11, <2>1 DEF ApplyCall
  <2>4. Applies(i, next, 0) = [k \in 1 .. Len(Session[i].tabs) |-> ApplyCall(i, next, k)]
    <3>1. /\ Len(Session[i].tabs) - 0 = Len(Session[i].tabs)
          /\ \A k \in 1 .. Len(Session[i].tabs) : ApplyCall(i, next, 0 + k) = ApplyCall(i,
             next, k)
      BY <1>11
    <3> QED
      BY <3>1 DEF Applies
  <2> HIDE DEF f
  <2>5. [j \in DOMAIN ws.tabs |-> f(j)] = Applies(i, next, 0)
    BY ONLY <2>2, <2>3, <2>4
  <2> QED
    BY <2>5 DEF f
<1>13. 0 \in 0 .. Len(Session[i].tabs)
  BY <1>11
<1>14. IsSeq(Applies(i, next, 0))
  BY <1>2, <1>13, AppliesIsSeq
<1>15. calls' = Applies(i, next, 0) \o (<<ArrangeCall(i)>> \o e)
  <2>1. calls' = Append(Applies(i, next, 0), ArrangeCall(i)) \o e
    BY <1>4, <1>8, <1>12 DEF ArrangeCall
  <2> QED
    BY ONLY <1>3, <1>14, <2>1, AppendConcat
<1>16. calls' = << >> \o (Applies(i, herdr'[a].id, 0) \o (<<ArrangeCall(i)>> \o e))
       /\ << >> \in Prefixes(calls')
  <2>1. IsSeq(calls')
    BY <1>3, <1>14, <1>15, OneFirst, FirstOfConcat
  <2>2. << >> \o calls' = calls'
    BY <2>1, EmptyIsSeq, FirstOfConcat
  <2> QED
    BY <1>10, <1>15, <2>1, <2>2, EmptyIsSeq, PrefixIs
<1>17. DOMAIN << >> = 1 .. 0
  OBVIOUS
<1>18. Building(S, m, 0, herdr', calls', << >>, occupied)
  BY <1>10, <1>13, <1>16, <1>17 DEF Building
<1> QED
  BY <1>1, <1>8, <1>18

LEMMA LatestStays ==
  ASSUME NEW h, NEW a \in DOMAIN h, Latest(h, a), NEW r, Others(r, h, a),
         \A k \in DOMAIN r[a].tabs : TabAt(r, a, k).id > h[a].id
  PROVE  Latest(r, a)
<1>1. r[a].id = h[a].id /\ DOMAIN r = DOMAIN h
  BY DEF Others, Alike
<1>2. ASSUME NEW b \in DOMAIN r, b # a,
             NEW k \in DOMAIN r[b].tabs PROVE TabAt(r, b, k).id < r[a].id
  <2>1. r[b] = h[b] /\ b \in DOMAIN h
    BY <1>1, <1>2 DEF Others
  <2> QED
    BY <1>1, <1>2, <2>1 DEF Latest, TabAt
<1> QED
  BY <1>1, <1>2 DEF Latest

\* g lists the ids of the tabs.
AreIdsOf(g, h, a) == g = [k \in DOMAIN g |-> TabAt(h, a, k).id]

\* The workspaces behind which it stands do not change with it.
LEMMA OneMoreStays ==
  ASSUME NEW S \in SUBSET DOMAIN Session, NEW m \in 0 .. Cardinality(S), NEW h, NEW g, NEW o,
         OneMore(S, m, h, g, o),
         NEW a, a = At(S, m + 1), NEW r, Others(r, h, a), IsSeq(r), IsSeq(h), Latest(r, a),
         NEW q, o \subseteq q,
         NEW f, AreIdsOf(f, r, a)
  PROVE  OneMore(S, m, r, f, q)
<1>1. /\ SomeBack(S, m, h, o) /\ m < Cardinality(S) /\ Len(h) = a
      /\ WorkspaceLike(h[a], Pos(S, m + 1))
  BY DEF OneMore
<1>2. m \in Nat
  BY NextClosed
<1> SUFFICES ASSUME NEW n, n = At(S, m)
             PROVE  OneMore(S, m, r, f, q)
  OBVIOUS
<1>3. n \in Nat /\ a = n + 1
  BY <1>2, AtIs
<1>4. DOMAIN r = 1 .. Len(r) /\ Len(r) \in Nat /\ DOMAIN h = 1 .. Len(h)
  BY DEF IsSeq
<1>5. DOMAIN r = DOMAIN h /\ Alike(r[a], h[a]) /\ \A b \in DOMAIN h : b # a => r[b] = h[b]
  BY DEF Others
<1>6. Len(r) = a
  BY <1>1, <1>3, <1>4, <1>5
<1>7. \A k \in 1 .. n : r[k] = h[k]
  BY <1>1, <1>3, <1>4, <1>5
<1>8. SomeBack(S, m, r, q)
  BY <1>1, <1>3, <1>4, <1>6, <1>7, StillBack
<1>9. WorkspaceLike(r[a], Pos(S, m + 1))
  BY <1>1, <1>5 DEF WorkspaceLike, Alike
<1> QED
  BY <1>1, <1>6, <1>8, <1>9 DEF OneMore, AreIdsOf

LEMMA OneMoreIs ==
  ASSUME NEW S \in SUBSET DOMAIN Session, NEW m \in 0 .. Cardinality(S), NEW h, NEW g, NEW o,
         OneMore(S, m, h, g, o),
         NEW a, a = At(S, m + 1), NEW i, i = Pos(S, m + 1), IsSeq(h)
  PROVE  /\ a \in DOMAIN h /\ Len(h) = a /\ m < Cardinality(S) /\ WorkspaceLike(h[a], i)
            /\ Latest(h, a)
         /\ m \in Nat /\ i \in DOMAIN Session /\ i \in S /\ m + 1 \in 0 .. Cardinality(S)
         /\ AreIdsOf(g, h, a)
<1>1. m < Cardinality(S) /\ Len(h) = a /\ WorkspaceLike(h[a], i) /\ Latest(h, a)
      /\ AreIdsOf(g, h, a)
  BY DEF OneMore, AreIdsOf
<1>2. m \in Nat /\ i \in S /\ i \in DOMAIN Session /\ m + 1 \in 0 .. Cardinality(S)
  BY <1>1, NextClosed
<1>3. a = At(S, m) + 1 /\ At(S, m) \in Nat
  BY <1>2, AtIs
<1>4. DOMAIN h = 1 .. Len(h)
  BY DEF IsSeq
<1>5. a \in DOMAIN h
  BY ONLY <1>1, <1>3, <1>4
<1> QED
  BY <1>1, <1>2, <1>5

LEMMA IsSeqThen ==
  ASSUME ReopenInv, [Next]_vars PROVE IsSeq(herdr) /\ IsSeq(herdr') /\ ReopenInv'
<1>1. ReopenInv'
  BY ReopenStays
<1>2. ReopenInv => IsSeq(herdr)
  BY HerdrIs DEF ReopenInv, IsSession
<1>3. IsSeq(herdr')
  <2>1. HerdrInv'
    BY <1>1 DEF ReopenInv
  <2>2. (HerdrInv => IsSession(herdr))'
    <3>1. HerdrInv => IsSession(herdr)
      BY HerdrIs
    <3> QED
      BY <2>1 DEF HerdrInv, Sound, Numbered
  <2> QED
    BY <2>1, <2>2 DEF IsSession
<1> QED
  BY <1>1, <1>2, <1>3

LEMMA ChoreStep ==
  ASSUME ReopenInv, Calm, Calm', [Next]_vars, ~UNCHANGED vars, pc = "calling",
         NEW S \in SUBSET DOMAIN Session, NEW m \in 0 .. Cardinality(S),
         OneMore(S, m, herdr, created, occupied),
         NEW j \in 0 .. Len(Session[Pos(S, m + 1)].tabs), NEW d, d # << >>,
         RebuiltBut(S, m, j, herdr, d, occupied), DOMAIN created = 1 .. j, NEW rest,
         IsSeq(rest), calls = d \o rest
  PROVE  /\ OneMore(S, m, herdr', created', occupied')
            /\ herdr'[At(S, m + 1)].id = herdr[At(S, m + 1)].id
         /\ \E e : RebuiltBut(S, m, j, herdr', e, occupied') /\ IsSeq(e) /\ calls' = e \o rest
         /\ UNCHANGED <<entry, pc, live, created>>
<1> SUFFICES ASSUME NEW i, i = Pos(S, m + 1), NEW a, a = At(S, m + 1), NEW t,
                    t = TabAt(herdr, a, j)
             PROVE  /\ OneMore(S, m, herdr', created', occupied') /\ herdr'[a].id = herdr[a].id
                    /\ \E e : RebuiltBut(S, m, j, herdr', e, occupied') /\ IsSeq(e)
                       /\ calls' = e \o rest
                    /\ UNCHANGED <<entry, pc, live, created>>
  OBVIOUS
<1>1. /\ j # 0 /\ DOMAIN herdr[a].tabs = 1 .. j /\ TabsBack(herdr, a, i, j - 1, occupied)
      /\ OthersOlder(herdr, a, j, t.id) /\ Chores(d, t, i, j, occupied)
  BY DEF RebuiltBut
<1>a. IsSeq(herdr)
  BY IsSeqThen
<1>2. /\ m < Cardinality(S) /\ Len(herdr) = a /\ Latest(herdr, a) /\ a \in DOMAIN herdr
      /\ AreIdsOf(created, herdr, a)
      /\ i \in DOMAIN Session
  BY <1>a, OneMoreIs
<1>3. i \in DOMAIN Session
  BY <1>2
<1>4. Len(Session[i].tabs) \in Nat /\ DOMAIN Session[i].tabs = 1 .. Len(Session[i].tabs)
  BY <1>3, TabsOfSession
<1>5. j \in Nat /\ j \in 1 .. j /\ IsPlace(Session, i, j)
  BY <1>1, <1>3, <1>4 DEF IsPlace
<1>6. IsSeq(herdr) /\ IsSeq(herdr') /\ Sound(herdr, next) /\ next \in Nat
  BY IsSeqThen DEF ReopenInv, HerdrInv
<1>7. a \in DOMAIN herdr
  BY <1>2
<1>8. IsPlace(herdr, a, j)
  BY <1>1, <1>5, <1>7 DEF IsPlace
<1>9. PICK e, u : NextChore(a, j, t, <<i, j>>, rest, e, u)
  BY <1>1, <1>5, <1>8, ChoresStep
<1>10. /\ TabBecomes(herdr', herdr, a, j, u) /\ u.id = t.id
       /\ Chores(e, u, i, j, occupied') /\ IsSeq(e) /\ calls' = e \o rest
       /\ occupied \subseteq occupied' /\ UNCHANGED <<entry, pc, live, created>>
  BY <1>9 DEF NextChore
<1>11. /\ TabAt(herdr', a, j) = u /\ Others(herdr', herdr, a)
          /\ DOMAIN herdr'[a].tabs = DOMAIN herdr[a].tabs
       /\ OthersOlder(herdr', a, j, u.id)
       /\ \A k \in DOMAIN herdr[a].tabs : k # j => TabAt(herdr', a, k) = TabAt(herdr, a, k)
  BY <1>1, <1>8, <1>10, OlderStays
<1>12. \A k \in DOMAIN herdr[a].tabs : TabAt(herdr', a, k).id = TabAt(herdr, a, k).id
  BY <1>10, <1>11
<1>13. Latest(herdr', a)
  <2>1. \A k \in DOMAIN herdr'[a].tabs : TabAt(herdr', a, k).id > herdr[a].id
    BY <1>2, <1>11, <1>12 DEF Latest
  <2> QED
    BY <1>2, <1>7, <1>11, <2>1, LatestStays
<1>14. TabsBack(herdr', a, i, j - 1, occupied')
  <2>1. \A k \in 1 .. j - 1 : k \in 1 .. j /\ k # j
    BY <1>5
  <2> QED
    BY <1>1, <1>10, <1>11, <2>1 DEF TabsBack, TabBack, Watched
<1>15. RebuiltBut(S, m, j, herdr', e, occupied')
  BY <1>1, <1>10, <1>11, <1>14 DEF RebuiltBut
<1>16. herdr'[a].id = herdr[a].id
  BY <1>11 DEF Others, Alike
<1>17. OneMore(S, m, herdr', created', occupied')
  <2>1. AreIdsOf(created, herdr', a)
    BY <1>1, <1>2, <1>12 DEF AreIdsOf
  <2> SUFFICES ASSUME NEW r, r = herdr', NEW q, q = occupied', NEW f, f = created'
               PROVE  OneMore(S, m, r, f, q)
    OBVIOUS
  <2>2. occupied \subseteq q
    BY <1>9 DEF NextChore
  <2>3. Others(r, herdr, a) /\ IsSeq(r) /\ Latest(r, a) /\ AreIdsOf(f, r, a)
    BY <1>6, <1>10, <1>11, <1>13, <2>1
  <2> QED
    BY <1>6, <2>2, <2>3, OneMoreStays
<1> QED
  BY <1>10, <1>15, <1>16, <1>17

\* The j-th tab of the i-th workspace is new, in place of what was there or behind it.
NewAt(r, h, i, j, u) ==
  /\ Others(r, h, i) /\ DOMAIN r[i].tabs = 1 .. j /\ TabAt(r, i, j) = u
  /\ \A k \in 1 .. j - 1 : TabAt(r, i, k) = TabAt(h, i, k)
  /\ OthersOlder(r, i, j, next)

LEMMA InsteadIs ==
  ASSUME HerdrInv, NEW i \in DOMAIN herdr, NEW u, NEW r, OnlyHas(r, herdr, i, u)
  PROVE  NewAt(r, herdr, i, 1, u)
<1>1. Others(r, herdr, i) /\ DOMAIN r[i].tabs = {1} /\ TabAt(r, i, 1) = u
  BY DEF OnlyHas
<1>2. ASSUME NEW a \in DOMAIN r, NEW b \in DOMAIN r[a].tabs, a # i \/ b # 1
      PROVE  TabAt(r, a, b).id < next /\ \A p \in PaneIds(TabAt(r, a, b).layout) : p < next
  <2>1. a # i
    BY <1>1, <1>2
  <2>2. a \in DOMAIN herdr /\ r[a] = herdr[a]
    BY <1>1, <2>1 DEF Others
  <2>3. b \in DOMAIN herdr[a].tabs /\ TabAt(r, a, b) = TabAt(herdr, a, b)
    BY <1>2, <2>2 DEF TabAt
  <2> QED
    BY <2>2, <2>3, OpenIsOlder
<1>3. OthersOlder(r, i, 1, next)
  BY <1>2 DEF OthersOlder
<1>4. 1 .. 1 = {1} /\ 1 .. 1 - 1 = {}
  OBVIOUS
<1> QED
  BY <1>1, <1>3, <1>4 DEF NewAt

LEMMA BesideIs ==
  ASSUME HerdrInv, NEW i \in DOMAIN herdr, NEW u, NEW r, TabJoins(r, herdr, i, u), NEW n,
         n = Len(herdr[i].tabs) + 1
  PROVE  NewAt(r, herdr, i, n, u)
<1>1. /\ OthersOlder(r, i, n, next) /\ TabAt(r, i, n) = u
      /\ Others(r, herdr, i)
      /\ DOMAIN herdr[i].tabs = 1 .. n - 1 /\ DOMAIN r[i].tabs = 1 .. n
      /\ \A b \in DOMAIN herdr[i].tabs : TabAt(r, i, b) = TabAt(herdr, i, b)
  BY JoinedIs
<1> QED
  BY <1>1 DEF NewAt

\* The calls that follow the answer.
LEMMA FollowIs ==
  ASSUME NEW i, NEW j, IsPlace(Session, i, j), NEW c, c.live_count = None, c.tab = SnapAt(i, j),
         NEW u, u.id = next, NEW root, u.layout = root, Laid(u, TabAt(Session, i, j)),
         c.placeholder = None \/ effective_tab_label(TabAt(Session, i, j).label) = None
         => Named(u, TabAt(Session, i, j)),
         NEW o
  PROVE  IsSeq(Follow(c, root)) /\ Chores(Follow(c, root), u, i, j, o)
<1> DEFINE s == TabAt(Session, i, j)
           fill == FillCall(u, i, j)
           name == RenameCall(u, s)
<1>1. c.tab.label = s.label
  BY SnapIs
<1>2. finish_tab(c.tab, root) = fill
  BY DEF FillCall
<1>3. [call |-> "tab.rename", tab |-> next, label |-> c.tab.label] = name
  BY <1>1 DEF RenameCall
<1>4. Follow(c, root) = (IF c.placeholder # None /\ effective_tab_label(c.tab.label) # None
                         THEN <<[call |-> "tab.rename", tab |-> next,
                         label |-> c.tab.label]>> ELSE << >>)
                        \o <<finish_tab(c.tab, root)>>
  BY DEF Follow
<1> HIDE DEF fill, name, s
<1>5. CASE c.placeholder # None /\ effective_tab_label(s.label) # None
  <2>1. Follow(c, root) = <<name>> \o <<fill>>
    BY <1>1, <1>2, <1>3, <1>4, <1>5
  <2>2. Follow(c, root) = <<name, fill>>
    BY <2>1, OneAndOne
  <2>3. IsSeq(<<name, fill>>)
    BY EmptyIsSeq, TwoFirst
  <2>4. Naming(<<name, fill>>, u, i, j)
    BY DEF Naming, name, fill, s
  <2> QED
    BY <2>2, <2>3, <2>4 DEF Chores
<1>6. CASE ~(c.placeholder # None /\ effective_tab_label(s.label) # None)
  <2>1. Follow(c, root) = << >> \o <<fill>>
    BY <1>1, <1>2, <1>4, <1>6
  <2>2. Follow(c, root) = <<fill>> /\ IsSeq(<<fill>>)
    BY <2>1, OneFirst, OneIsSeq
  <2>3. Named(u, TabAt(Session, i, j))
    BY <1>6 DEF s
  <2>4. Filling(<<fill>>, u, i, j)
    BY <2>3 DEF Filling, fill
  <2> QED
    BY <2>2, <2>4 DEF Chores
<1> QED
  BY <1>5, <1>6

LEMMA ApplyCallIs ==
  ASSUME NEW i, NEW ws, NEW k, NEW c, c = ApplyCall(i, ws, k)
  PROVE  /\ c.call = "layout.apply" /\ c.into = ws
            /\ c.placeholder = (IF k = 1 THEN ws + 1 ELSE None)
         /\ c.label = (IF k = 1 THEN None ELSE effective_tab_label(TabAt(Session, i, k).label))
         /\ c.tab = SnapAt(i, k) /\ c.live_count = None
<1> DEFINE p == IF k = 1 THEN ws + 1 ELSE None
           l == IF k = 1 THEN None ELSE effective_tab_label(TabAt(Session, i, k).label)
<1>1. c = Apply(ws, p, l, SnapAt(i, k))
  BY DEF ApplyCall
<1> HIDE DEF p, l
<1>2. c.call = "layout.apply" /\ c.into = ws /\ c.placeholder = p /\ c.label = l
      /\ c.tab = SnapAt(i, k) /\ c.live_count = None
  BY <1>1 DEF Apply
<1> QED
  BY <1>2 DEF p, l

\* The next tab is rebuilt, in place of the placeholder if it is the first.
LEMMA TabRebuilt ==
  ASSUME ReopenInv, Calm, Calm', ApplyLayout,
         NEW i \in DOMAIN Session, NEW k \in DOMAIN Session[i].tabs, NEW a \in DOMAIN herdr,
         herdr[a].id \in Nat, DOMAIN herdr[a].tabs = 1 .. (IF k = 1 THEN 1 ELSE k - 1),
         k = 1 => IdAt(herdr, a, 1, herdr[a].id + 1),
         NEW rest, Head(calls) = ApplyCall(i, herdr[a].id, k), Tail(calls) = rest
  PROVE  /\ \E u, e : /\ u.id = next /\ NewAt(herdr', herdr, a, k, u) /\ IsSeq(e)
                      /\ Chores(e, u, i, k, occupied') /\ calls' = e \o rest
         /\ created' = Append(created, next) /\ UNCHANGED <<entry, pc, live, occupied>>
<1> SUFFICES ASSUME NEW c, c = ApplyCall(i, herdr[a].id, k), NEW s, s = TabAt(Session, i, k),
                    NEW root, root = Filled(strip_pane_ids(s.layout), next + 1),
                    NEW n, n = IF k = 1 THEN 1 ELSE k - 1
             PROVE  /\ \E u, e : /\ u.id = next /\ NewAt(herdr', herdr, a, k, u) /\ IsSeq(e)
                                 /\ Chores(e, u, i, k, occupied') /\ calls' = e \o rest
                    /\ created' = Append(created, next)
                       /\ UNCHANGED <<entry, pc, live, occupied>>
  OBVIOUS
<1>1. HerdrInv /\ Sound(herdr, next) /\ next \in Nat
  BY DEF ReopenInv, HerdrInv
<1>2. IsPlace(Session, i, k)
  BY DEF IsPlace
<1>3. k \in Nat /\ k # 0 /\ k < Len(AutoLabels) /\ Len(AutoLabels) \in Nat
  <2>1. DOMAIN Session[i].tabs = 1 .. Len(Session[i].tabs) /\ Len(Session[i].tabs) \in Nat
        /\ Len(Session[i].tabs) < Len(AutoLabels)
    BY TabsOfSession
  <2>2. Len(AutoLabels) \in Nat
    BY LabelAssumption
  <2> QED
    BY <2>1, <2>2
<1>4. /\ c.call = "layout.apply" /\ c.into = herdr[a].id
         /\ c.placeholder = (IF k = 1 THEN herdr[a].id + 1 ELSE None)
      /\ c.label = (IF k = 1 THEN None ELSE effective_tab_label(s.label))
         /\ c.tab = SnapAt(i, k) /\ c.live_count = None
  BY ApplyCallIs
<1>5. IsSeq(herdr[a].tabs)
  BY <1>1, SoundTabs
<1>6. n \in Nat /\ n # 0 /\ n < Len(AutoLabels) /\ DOMAIN herdr[a].tabs = 1 .. n
  BY <1>3
<1>7. Len(herdr[a].tabs) = n
  BY <1>5, <1>6 DEF IsSeq
<1>8. PICK v \in Range(herdr[a].tabs) : c.placeholder = None \/ v.id = c.placeholder
  <2>0. 1 \in 1 .. n
    BY ONLY <1>6
  <2>1. 1 \in DOMAIN herdr[a].tabs
    BY ONLY <1>6, <2>0
  <2>2. TabAt(herdr, a, 1) \in Range(herdr[a].tabs)
    BY <2>1 DEF TabAt, Range
  <2>3. CASE k = 1
    <3>1. TabAt(herdr, a, 1).id = c.placeholder
      BY <1>4, <2>3 DEF IdAt
    <3> QED
      BY <2>2, <3>1
  <2>4. CASE k # 1
    BY <1>4, <2>2, <2>4
  <2> QED
    BY <2>3, <2>4
<1>9. c.tab.layout = s.layout /\ IsTab(s) /\ IsLayout(s.layout) /\ Leaves(s.layout) # {}
  <2>1. SnapAt(i, k).layout = s.layout /\ IsTab(s) /\ IsLayout(s.layout)
        /\ Leaves(s.layout) # {}
    BY <1>2, SnapIs
  <2>2. c.tab = SnapAt(i, k)
    BY <1>4
  <2> QED
    BY ONLY <2>1, <2>2
<1>10. /\ herdr' = Applied(herdr, herdr[a].id, c.placeholder, c.label, strip_pane_ids(s.layout))
       /\ created' = Append(created, next) /\ calls' = Follow(c, root) \o rest
       /\ UNCHANGED <<entry, pc, live, occupied>>
  BY <1>4, <1>8, <1>9, CalmApply
<1> SUFFICES ASSUME NEW u, u = Tab(next, LabelGiven(c.label, n), next + 1, root)
             PROVE  /\ \E x, e : /\ x.id = next /\ NewAt(herdr', herdr, a, k, x) /\ IsSeq(e)
                                 /\ Chores(e, x, i, k, occupied') /\ calls' = e \o rest
                    /\ created' = Append(created, next)
                       /\ UNCHANGED <<entry, pc, live, occupied>>
  OBVIOUS
<1>11. u.id = next /\ u.label = LabelGiven(c.label, n) /\ u.layout = root
  BY TabOf
<1>12. NewAt(herdr', herdr, a, k, u)
  <2>1. CASE k = 1
    <3>1. c.placeholder = herdr[a].id + 1 /\ Len(herdr[a].tabs) = 1 /\ n = 1
      BY <1>4, <1>7, <2>1
    <3>2. IdAt(herdr, a, 1, c.placeholder)
      BY <2>1, <3>1
    <3>3. OnlyHas(herdr', herdr, a,
          Tab(next, LabelGiven(c.label, 1), next + 1,
          Filled(strip_pane_ids(s.layout), next + 1)))
      BY <1>1, <1>9, <1>10, <3>1, <3>2, AppliedInstead
    <3>4. OnlyHas(herdr', herdr, a, u)
      BY <3>1, <3>3
    <3> QED
      BY <1>1, <2>1, <3>4, InsteadIs
  <2>2. CASE k # 1
    <3>1. herdr' = Applied(herdr, herdr[a].id, None, c.label, strip_pane_ids(s.layout))
      BY <1>4, <1>10, <2>2
    <3>2. TabJoins(herdr', herdr, a,
          Tab(next, LabelGiven(c.label, Len(herdr[a].tabs)), next + 1,
                                         Filled(strip_pane_ids(s.layout), next + 1)))
      BY <1>1, <1>9, <3>1, AppliedBeside
    <3>3. TabJoins(herdr', herdr, a, u)
      BY <1>7, <3>2
    <3>4. k = Len(herdr[a].tabs) + 1
      BY <1>3, <1>7, <2>2
    <3> QED
      BY <1>1, <3>3, <3>4, BesideIs
  <2> QED
    BY <2>1, <2>2
<1>13. Laid(u, s)
  BY <1>11 DEF Laid
<1>14. c.placeholder = None \/ effective_tab_label(s.label) = None => Named(u, s)
  <2>1. ASSUME c.placeholder = None
               \/ effective_tab_label(s.label) = None PROVE c.label = effective_tab_label(s.label)
    <3>1. herdr[a].id + 1 # None
      BY IdAssumption
    <3> QED
      BY <1>4, <2>1, <3>1
  <2>2. effective_tab_label(LabelGiven(effective_tab_label(s.label),
        n)) = effective_tab_label(s.label)
    BY <1>6, NamedGiven
  <2> QED
    BY <1>11, <2>1, <2>2 DEF Named
<1>15. IsSeq(Follow(c, root)) /\ Chores(Follow(c, root), u, i, k, occupied')
  BY <1>2, <1>4, <1>11, <1>13, <1>14, FollowIs
<1> QED
  BY <1>10, <1>11, <1>12, <1>15

LEMMA NothingToDo ==
  ASSUME NEW t, NEW i, NEW j, NEW o, Chores(<< >>, t, i, j, o)
  PROVE  TabBack(t, TabAt(Session, i, j), o)
BY DEF Chores, Naming, Filling, Watching

\* The workspace has one more of its tabs.
LEMMA NewAtIs ==
  ASSUME HerdrInv, NEW S \in SUBSET DOMAIN Session, NEW m \in 0 .. Cardinality(S), NEW o,
         NEW g, IsSeq(g),
         OneMore(S, m, herdr, g, o), NEW a, a = At(S, m + 1), NEW i, i = Pos(S, m + 1),
         NEW j \in Nat, RebuiltBut(S, m, j, herdr, << >>, o), DOMAIN g = 1 .. j,
         NEW u, u.id = next, NEW r, IsSeq(r), IsSeq(herdr), NewAt(r, herdr, a, j + 1, u),
         NEW e, Chores(e, u, i, j + 1, o), NEW f, f = Append(g, next)
  PROVE  OneMore(S, m, r, f, o) /\ DOMAIN f = 1 .. j + 1 /\ RebuiltBut(S, m, j + 1, r, e, o)
         /\ r[a].id = herdr[a].id
<1>1. /\ a \in DOMAIN herdr /\ Latest(herdr, a)
      /\ AreIdsOf(g, herdr, a)
  BY OneMoreIs
<1>2. /\ Others(r, herdr, a) /\ DOMAIN r[a].tabs = 1 .. j + 1 /\ TabAt(r, a, j + 1) = u
      /\ \A k \in 1 .. j : TabAt(r, a, k) = TabAt(herdr, a, k)
      /\ OthersOlder(r, a, j + 1, next)
  <2>1. (j + 1) - 1 = j
    OBVIOUS
  <2> QED
    BY <2>1 DEF NewAt
<1>3. /\ j # 0 => /\ DOMAIN herdr[a].tabs = 1 .. j /\ TabsBack(herdr, a, i, j - 1, o)
                  /\ Chores(<< >>, TabAt(herdr, a, j), i, j, o)
  BY DEF RebuiltBut
<1>4. /\ Len(g) = j /\ DOMAIN f = 1 .. j + 1 /\ f[j + 1] = next /\ \A k \in 1 .. j : f[k] = g[k]
      /\ IsSeq(f)
  <2>1. Len(g) = j
    BY DEF IsSeq
  <2>2. /\ IsSeq(f) /\ DOMAIN f = 1 .. Len(g) + 1 /\ DOMAIN g = 1 .. Len(g)
        /\ f[Len(g) + 1] = next /\ \A k \in DOMAIN g : f[k] = g[k]
    <3>1. IsSeq(f) /\ DOMAIN f = 1 .. Len(g) + 1 /\ DOMAIN g = 1 .. Len(g)
      BY AppendIs
    <3>2. f[Len(g) + 1] = next
      BY AppendIs
    <3>3. \A k \in DOMAIN g : f[k] = g[k]
      BY AppendIs
    <3> QED
      BY <3>1, <3>2, <3>3
  <2> QED
    BY ONLY <2>1, <2>2
<1>5. herdr[a].id < next /\ herdr[a].id \in Nat /\ next \in Nat
  BY <1>1 DEF HerdrInv, Sound, Numbered
<1>6. \A k \in DOMAIN r[a].tabs : k \in 1 .. j \/ k = j + 1
  BY <1>2
<1>7. \A k \in 1 .. j : k \in DOMAIN herdr[a].tabs
  <2>1. CASE j = 0
    BY <2>1
  <2>2. CASE j # 0
    BY <1>3, <2>2
  <2> QED
    BY <2>1, <2>2
<1>8. Latest(r, a)
  <2>1. \A k \in DOMAIN r[a].tabs : TabAt(r, a, k).id > herdr[a].id
    BY <1>1, <1>2, <1>5, <1>6, <1>7 DEF Latest
  <2> QED
    BY <1>1, <1>2, <2>1, LatestStays
<1>9. AreIdsOf(f, r, a)
  <2>1. \A k \in 1 .. j : g[k] = TabAt(herdr, a, k).id
    BY <1>1 DEF AreIdsOf
  <2>2. \A k \in DOMAIN f : f[k] = TabAt(r, a, k).id
    BY <1>2, <1>4, <2>1
  <2>3. f = [k \in DOMAIN f |-> f[k]]
    <3>1. f \in Seq(Range(f))
      BY <1>4 DEF IsSeq
    <3>2. f \in [1 .. Len(f) -> Range(f)]
      BY ONLY <3>1
    <3> QED
      BY ONLY <3>2
  <2> QED
    BY <2>2, <2>3 DEF AreIdsOf
<1>10. OneMore(S, m, r, f, o)
  <2>1. o \subseteq o
    OBVIOUS
  <2> QED
    BY <1>2, <1>8, <1>9, <2>1, OneMoreStays
<1>11. TabsBack(r, a, i, j, o)
  <2>1. ASSUME NEW k \in 1 .. j PROVE TabBack(TabAt(r, a, k), TabAt(Session, i, k), o)
    <3>1. TabAt(r, a, k) = TabAt(herdr, a, k) /\ j # 0
      BY <1>2
    <3>2. CASE k = j
      BY <1>3, <3>1, <3>2, NothingToDo
    <3>3. CASE k # j
      <4>1. k \in 1 .. j - 1
        BY <3>3
      <4> QED
        BY <1>3, <3>1, <4>1 DEF TabsBack
    <3> QED
      BY <3>2, <3>3
  <2> QED
    BY <2>1 DEF TabsBack
<1>12. RebuiltBut(S, m, j + 1, r, e, o)
  <2>1. j + 1 # 0 /\ (j + 1) - 1 = j
    OBVIOUS
  <2>2. OthersOlder(r, a, j + 1, TabAt(r, a, j + 1).id)
        /\ Chores(e, TabAt(r, a, j + 1), i, j + 1, o)
    BY <1>2
  <2> QED
    BY <1>2, <1>11, <2>1, <2>2 DEF RebuiltBut
<1> QED
  BY <1>2, <1>4, <1>10, <1>12 DEF Others, Alike

LEMMA ApplyStep ==
  ASSUME ReopenInv, Calm, Calm', [Next]_vars, ~UNCHANGED vars, pc = "calling",
         NEW S \in SUBSET DOMAIN Session, NEW m \in 0 .. Cardinality(S),
         OneMore(S, m, herdr, created, occupied),
         NEW a, a = At(S, m + 1), NEW i, i = Pos(S, m + 1),
         NEW j \in 0 .. Len(Session[i].tabs), j < Len(Session[i].tabs),
         RebuiltBut(S, m, j, herdr, << >>, occupied), DOMAIN created = 1 .. j, NEW rest,
         IsSeq(rest),
         calls = <<ApplyCall(i, herdr[a].id, j + 1)>> \o rest
  PROVE  /\ OneMore(S, m, herdr', created', occupied') /\ DOMAIN created' = 1 .. j + 1
            /\ herdr'[a].id = herdr[a].id
         /\ \E e : RebuiltBut(S, m, j + 1, herdr', e, occupied') /\ IsSeq(e) /\ calls' = e
            \o rest
         /\ UNCHANGED <<entry, pc, live>>
<1>1. HerdrInv /\ IsSeq(herdr) /\ IsSeq(herdr') /\ IsSeq(created)
  BY IsSeqThen DEF ReopenInv, CallsInv
<1>2. /\ a \in DOMAIN herdr /\ WorkspaceLike(herdr[a], i) /\ Latest(herdr, a)
         /\ i \in DOMAIN Session
  BY <1>1, OneMoreIs
<1>3. j \in Nat /\ j + 1 \in DOMAIN Session[i].tabs
  BY <1>2, TabsOfSession
<1>4. herdr[a].id \in Nat
  BY <1>2 DEF WorkspaceLike
<1>5. /\ j = 0 => DOMAIN herdr[a].tabs = {1} /\ TabAt(herdr, a, 1).id = herdr[a].id + 1
      /\ j # 0 => DOMAIN herdr[a].tabs = 1 .. j
  BY DEF RebuiltBut
<1>6. DOMAIN herdr[a].tabs = 1 .. (IF j + 1 = 1 THEN 1 ELSE (j + 1) - 1)
  <2>1. CASE j = 0
    BY <1>5, <2>1
  <2>2. CASE j # 0
    <3>1. j + 1 # 1 /\ (j + 1) - 1 = j
      BY <1>3, <2>2
    <3> QED
      BY <1>5, <2>2, <3>1
  <2> QED
    BY <2>1, <2>2
<1>7. j + 1 = 1 => IdAt(herdr, a, 1, herdr[a].id + 1)
  <2> SUFFICES ASSUME j + 1 = 1 PROVE IdAt(herdr, a, 1, herdr[a].id + 1)
    OBVIOUS
  <2>1. DOMAIN herdr[a].tabs = {1} /\ TabAt(herdr, a, 1).id = herdr[a].id + 1
    BY <1>3, <1>5
  <2>2. ASSUME NEW b \in DOMAIN herdr, NEW k \in DOMAIN herdr[b].tabs, b # a \/ k # 1
        PROVE  TabAt(herdr, b, k).id # herdr[a].id + 1
    <3>1. b # a
      BY <2>1, <2>2
    <3>2. TabAt(herdr, b, k).id < herdr[a].id /\ TabAt(herdr, b, k).id \in Nat
      BY <1>1, <1>2, <2>2, <3>1, OpenIsOlder DEF Latest
    <3> QED
      BY <1>4, <3>2
  <2> QED
    BY <1>2, <2>1, <2>2 DEF IdAt, IsPlace
<1>8. Head(calls) = ApplyCall(i, herdr[a].id, j + 1) /\ Tail(calls) = rest /\ calls # << >>
  BY OneFirst
<1>9. ApplyLayout
  BY <1>8, CalmNamed, ApplyCallIs
<1>10. /\ \E u, e : /\ u.id = next /\ NewAt(herdr', herdr, a, j + 1, u) /\ IsSeq(e)
                    /\ Chores(e, u, i, j + 1, occupied') /\ calls' = e \o rest
       /\ created' = Append(created, next) /\ UNCHANGED <<entry, pc, live, occupied>>
  BY <1>2, <1>3, <1>4, <1>6, <1>7, <1>8, <1>9, TabRebuilt
<1>11. PICK u, e : /\ u.id = next /\ NewAt(herdr', herdr, a, j + 1, u) /\ IsSeq(e)
                   /\ Chores(e, u, i, j + 1, occupied') /\ calls' = e \o rest
  BY <1>10
<1>12. occupied' = occupied
  BY <1>10
<1>13. Chores(e, u, i, j + 1, occupied)
  BY <1>11, <1>12
<1>14. /\ OneMore(S, m, herdr', created', occupied) /\ DOMAIN created' = 1 .. j + 1
       /\ RebuiltBut(S, m, j + 1, herdr', e, occupied) /\ herdr'[a].id = herdr[a].id
  <2> SUFFICES ASSUME NEW r, r = herdr', NEW f, f = created', NEW o, o = occupied
               PROVE  /\ OneMore(S, m, r, f, o) /\ DOMAIN f = 1 .. j + 1
                      /\ RebuiltBut(S, m, j + 1, r, e, o) /\ r[a].id = herdr[a].id
    OBVIOUS
  <2>1. IsSeq(r) /\ NewAt(r, herdr, a, j + 1, u) /\ f = Append(created, next) /\ u.id = next
        /\ Chores(e, u, i, j + 1, o)
    BY <1>1, <1>10, <1>11, <1>13
  <2>2. OneMore(S, m, herdr, created, o) /\ RebuiltBut(S, m, j, herdr, << >>, o)
    OBVIOUS
  <2>3. HerdrInv /\ IsSeq(herdr) /\ IsSeq(created) /\ S \in SUBSET DOMAIN Session
        /\ m \in 0 .. Cardinality(S)
        /\ a = At(S, m + 1) /\ i = Pos(S, m + 1) /\ j \in Nat /\ DOMAIN created = 1 .. j
    BY <1>1, <1>3
  <2>4. OneMore(S, m, r, f, o)
    BY ONLY <2>1, <2>2, <2>3, NewAtIs
  <2>5. DOMAIN f = 1 .. j + 1
    BY ONLY <2>1, <2>2, <2>3, NewAtIs
  <2>6. RebuiltBut(S, m, j + 1, r, e, o)
    BY ONLY <2>1, <2>2, <2>3, NewAtIs
  <2>7. r[a].id = herdr[a].id
    BY ONLY <2>1, <2>2, <2>3, NewAtIs
  <2> QED
    BY <2>4, <2>5, <2>6, <2>7
<1> QED
  BY <1>10, <1>11, <1>12, <1>14

LEMMA OneInSeq ==
  ASSUME NEW x PROVE SetToSeq({x}) = <<x>>
<1>1. IsFiniteSet({x}) /\ Cardinality({x}) = 1
  BY FS_Singleton
<1>2. <<x>> \in [1 .. 1 -> {x}] /\ IsInjective(<<x>>)
  BY DEF IsInjective
<1>3. \A f \in [1 .. 1 -> {x}] : f = <<x>>
  OBVIOUS
<1>4. (CHOOSE f \in [1 .. 1 -> {x}] : IsInjective(f)) = <<x>>
  BY <1>2, <1>3
<1> QED
  BY <1>1, <1>4 DEF SetToSeq

\* The tab to focus at the end is the one that was active.
LEMMA ShowsIs ==
  ASSUME NEW i \in DOMAIN Session, NEW g, DOMAIN g = DOMAIN Session[i].tabs
  PROVE  \E k \in DOMAIN Session[i].tabs :
           /\ \A j \in DOMAIN Session[i].tabs : TabAt(Session, i, j).id = Session[i].active
              => j = k
           /\ Shows(i, g) = IF FocusOnReopen THEN <<TabCall(g[k])>> ELSE << >>
<1>1. DistinctIds(Session[i].tabs) /\ Session[i].active \in IdsIn(Session[i].tabs)
  BY TabsOfSession
<1>2. PICK k \in DOMAIN Session[i].tabs : TabAt(Session, i, k).id = Session[i].active
  BY <1>1 DEF IdsIn, TabAt
<1>3. \A j \in DOMAIN Session[i].tabs : TabAt(Session, i, j).id = Session[i].active => j = k
  BY <1>1, <1>2 DEF DistinctIds, TabAt
<1> DEFINE K == {j \in DOMAIN Session[i].tabs : TabAt(Session, i,
    j).id = Session[i].active} \cap DOMAIN g
<1>4. K = {k}
  BY <1>2, <1>3
<1> HIDE DEF K
<1>5. {[call |-> "tab.focus", tab |-> g[j]] : j \in K} = {TabCall(g[k])}
  BY <1>4 DEF TabCall
<1>6. SetToSeq({[call |-> "tab.focus", tab |-> g[j]] : j \in K}) = <<TabCall(g[k])>>
  BY <1>5, OneInSeq
<1>7. Shows(i, g) = IF FocusOnReopen THEN SetToSeq({[call |-> "tab.focus",
      tab |-> g[j]] : j \in K}) ELSE << >>
  BY DEF Shows, K
<1> QED
  BY <1>3, <1>6, <1>7

LEMMA ShowsIsSeq ==
  ASSUME NEW i \in DOMAIN Session, NEW g, DOMAIN g = DOMAIN Session[i].tabs
  PROVE  IsSeq(Shows(i, g))
<1>1. PICK k : Shows(i, g) = IF FocusOnReopen THEN <<TabCall(g[k])>> ELSE << >>
  BY ShowsIs
<1>2. CASE FocusOnReopen
  BY <1>1, <1>2, OneIsSeq
<1>3. CASE ~FocusOnReopen
  BY <1>1, <1>3, EmptyIsSeq
<1> QED
  BY <1>2, <1>3

\* The moves still to make.
LEMMA MovesAre ==
  ASSUME NEW g, NEW n \in Nat, NEW l \in 0 .. n
  PROVE  /\ IsSeq(Moves(g, n, l)) /\ (l = n => Moves(g, n, l) = << >>)
         /\ l < n => /\ Moves(g, n, l) # << >> /\ Head(Moves(g, n, l)) = MoveCall(g[l + 1], l)
                     /\ Tail(Moves(g, n, l)) = Moves(g, n, l + 1)
<1> SUFFICES ASSUME NEW f, f = Moves(g, n, l), NEW k, k = n - l
             PROVE  /\ IsSeq(f) /\ (l = n => f = << >>)
                    /\ l < n => f # << >> /\ Head(f) = MoveCall(g[l + 1], l)
                       /\ Tail(f) = Moves(g, n, l + 1)
  OBVIOUS
<1>1. k \in Nat /\ (l = n <=> k = 0) /\ (l < n <=> k # 0) /\ l \in Nat
  OBVIOUS
<1>2. f = [x \in 1 .. k |-> MoveCall(g[l + x], l + x - 1)]
  BY DEF Moves, MoveCall
<1>3. f = [x \in 1 .. k |-> f[x]] /\ \A x \in 1 .. k : f[x] = MoveCall(g[l + x], l + x - 1)
  BY <1>2
<1>4. /\ IsSeq(f) /\ k = 0 => f = << >>
  BY <1>1, <1>3, ListIsSeq
<1>5. IsSeq(f) /\ Len(f) = k
  BY <1>1, <1>3, ListIsSeq
<1>6. ASSUME l < n PROVE f # << >> /\ Head(f) = MoveCall(g[l + 1], l)
             /\ Tail(f) = Moves(g, n, l + 1)
  <2>1. k # 0 /\ 1 \in 1 .. k /\ (l + 1) - 1 = l
    BY <1>1, <1>6
  <2>2. f # << >> /\ Tail(f) = [x \in 1 .. k - 1 |-> f[x + 1]]
    BY <1>1, <1>3, <2>1, ListIsSeq
  <2>3. Head(f) = f[1]
    BY <1>5, <2>2 DEF IsSeq
  <2>4. f[1] = MoveCall(g[l + 1], l)
    BY <1>3, <2>1
  <2>5. \A x \in 1 .. k - 1 : f[x + 1] = MoveCall(g[(l + 1) + x], (l + 1) + x - 1)
    <3> SUFFICES ASSUME NEW x \in 1 .. k - 1 PROVE f[x + 1] = MoveCall(g[(l + 1) + x],
                        (l + 1) + x - 1)
      OBVIOUS
    <3>1. x + 1 \in 1 .. k /\ l + (x + 1) = (l + 1) + x
      BY <1>1
    <3> QED
      BY <1>3, <3>1
  <2>6. k - 1 = n - (l + 1)
    BY <1>1
  <2>7. Moves(g, n, l + 1) = [x \in 1 .. k - 1 |-> MoveCall(g[(l + 1) + x], (l + 1) + x - 1)]
    BY <2>6 DEF Moves, MoveCall
  <2> QED
    BY <2>2, <2>3, <2>4, <2>5, <2>7
<1> QED
  BY <1>1, <1>4, <1>5, <1>6

\* What `arrange` asks for.
ShowsOf(ws, g) ==
  IF FocusOnReopen
  THEN SetToSeq({[call |-> "tab.focus", tab |-> g[j]] :
                 j \in {k \in DOMAIN ws.tabs : ws.tabs[k].tab_id = ws.active_tab_id} \cap DOMAIN g})
  ELSE << >>

LEMMA ArrangedIs ==
  ASSUME NEW i \in DOMAIN Session, NEW ws, ws = WorkspaceSnap(i), NEW g, NEW n,
         n = Len(Session[i].tabs), DOMAIN g = 1 .. n
  PROVE  /\ [j \in DOMAIN g |-> [call |-> "tab.move", tab |-> g[j],
            index |-> j - 1]] = Moves(g, n, 0)
         /\ ShowsOf(ws, g) = Shows(i, g)
<1>1. n \in Nat /\ DOMAIN Session[i].tabs = 1 .. n
  BY TabsOfSession
<1>2. Moves(g, n, 0) = [j \in DOMAIN g |-> [call |-> "tab.move", tab |-> g[j], index |-> j - 1]]
  <2>1. n - 0 = n /\ \A j \in 1 .. n : 0 + j = j
    BY <1>1
  <2>2. Moves(g, n, 0) = [k \in 1 .. n |-> [call |-> "tab.move", tab |-> g[0 + k],
        index |-> 0 + k - 1]]
    BY <2>1 DEF Moves
  <2> QED
    BY <2>1, <2>2
<1>3. ws.active_tab_id = Session[i].active
      /\ ws.tabs = [j \in DOMAIN Session[i].tabs |-> SnapAt(i, j)]
  BY WorkspaceSnapIs
<1>4. \A k \in DOMAIN Session[i].tabs : ws.tabs[k].tab_id = TabAt(Session, i, k).id
  <2> SUFFICES ASSUME NEW k \in DOMAIN Session[i].tabs PROVE ws.tabs[k].tab_id = TabAt(Session,
                      i, k).id
    OBVIOUS
  <2>1. IsPlace(Session, i, k)
    BY DEF IsPlace
  <2>2. SnapAt(i, k).tab_id = TabAt(Session, i, k).id
    BY <2>1, SnapIs
  <2> QED
    BY <1>3, <2>2
<1>5. {k \in DOMAIN ws.tabs : ws.tabs[k].tab_id = ws.active_tab_id}
        = {k \in DOMAIN Session[i].tabs : TabAt(Session, i, k).id = Session[i].active}
  BY <1>3, <1>4
<1>6. ShowsOf(ws, g) = Shows(i, g)
  BY <1>5 DEF Shows, ShowsOf
<1> QED
  BY <1>2, <1>6

LEMMA ArrangingStep ==
  ASSUME ReopenInv, Calm, Calm', [Next]_vars, ~UNCHANGED vars, pc = "calling",
         NEW S \in SUBSET DOMAIN Session, NEW m \in 0 .. Cardinality(S),
         OneMore(S, m, herdr, created, occupied),
         NEW i, i = Pos(S, m + 1), NEW n, n = Len(Session[i].tabs),
         RebuiltBut(S, m, n, herdr, << >>, occupied), DOMAIN created = 1 .. n,
         NEW a, a = At(S, m + 1), NEW rest, rest = Each(S, m + 1),
         calls = <<ArrangeCall(i)>> \o rest
  PROVE  Placing(S, m, 0, herdr', calls', created', occupied') /\ UNCHANGED <<entry, pc, live>>
<1>1. IsSeq(herdr)
  BY IsSeqThen
<1>2. i \in DOMAIN Session /\ m + 1 \in 0 .. Cardinality(S)
  BY <1>1, OneMoreIs
<1>3. IsSeq(rest)
  BY <1>2, EachIs
<1>4. n \in Nat /\ n # 0 /\ DOMAIN Session[i].tabs = 1 .. n
  BY <1>2, TabsOfSession
<1>5. Head(calls) = ArrangeCall(i) /\ Tail(calls) = rest /\ calls # << >>
  BY <1>3, OneFirst
<1>6. ArrangeCall(i).call = "arrange" /\ ArrangeCall(i).ws = WorkspaceSnap(i)
  BY DEF ArrangeCall
<1>7. Arrange
  BY <1>5, <1>6, CalmNamed
<1>8. calls' = (Moves(created, n, 0) \o Shows(i, created)) \o rest
  <2> SUFFICES ASSUME NEW ws, ws = WorkspaceSnap(i) PROVE calls' = (Moves(created, n, 0)
                      \o Shows(i, created)) \o rest
    OBVIOUS
  <2>1. ws = Head(calls).ws
    BY <1>5, <1>6
  <2>2. calls' = ([j \in DOMAIN created |->
                    [call |-> "tab.move", tab |-> created[j], index |-> j - 1]]
                   \o (IF FocusOnReopen
                       THEN SetToSeq({[call |-> "tab.focus", tab |-> created[j]] :
                              j \in {k \in DOMAIN ws.tabs : ws.tabs[k].tab_id = ws.active_tab_id}
                                      \cap DOMAIN created})
                       ELSE << >>)) \o Tail(calls)
    BY <1>7, <2>1, CalmArrange
  <2>3. [j \in DOMAIN created |-> [call |-> "tab.move", tab |-> created[j],
        index |-> j - 1]] = Moves(created, n, 0)
    <3> SUFFICES ASSUME NEW g, g = created
                 PROVE  [j \in DOMAIN g |-> [call |-> "tab.move", tab |-> g[j],
                        index |-> j - 1]] = Moves(g, n, 0)
      OBVIOUS
    <3> QED
      BY <1>2, ArrangedIs
  <2>4. ShowsOf(ws, created) = Shows(i, created)
    BY <1>2, ArrangedIs
  <2> QED
    BY ONLY <1>5, <2>2, <2>3, <2>4 DEF ShowsOf
<1>9. UNCHANGED <<herdr, entry, pc, live, created, occupied>>
  BY <1>7, CalmArrange
<1>10. calls' = Moves(created, n, 0) \o (Shows(i, created) \o rest)
  <2>1. IsSeq(Moves(created, n, 0))
    <3>1. 0 \in 0 .. n
      BY <1>4
    <3> QED
      BY <1>4, <3>1, MovesAre
  <2>2. IsSeq(Shows(i, created))
    BY <1>2, <1>4, ShowsIsSeq
  <2> QED
    BY <1>3, <1>8, <2>1, <2>2, ConcatTwice
<1>11. /\ DOMAIN herdr[a].tabs = 1 .. n /\ TabsBack(herdr, a, i, n - 1, occupied)
       /\ Chores(<< >>, TabAt(herdr, a, n), i, n, occupied)
  BY <1>4 DEF RebuiltBut
<1>12. TabsBack(herdr, a, i, n, occupied)
  <2>1. ASSUME NEW k \in 1 .. n PROVE TabBack(TabAt(herdr, a, k), TabAt(Session, i, k),
               occupied)
    <3>1. CASE k = n
      BY <1>11, <3>1, NothingToDo
    <3>2. CASE k # n
      <4>1. k \in 1 .. n - 1
        BY <1>4, <3>2
      <4> QED
        BY <1>11, <4>1 DEF TabsBack
    <3> QED
      BY <3>1, <3>2
  <2> QED
    BY <2>1 DEF TabsBack
<1>13. herdr' = herdr /\ created' = created /\ occupied' = occupied
  BY <1>9
<1>14. UNCHANGED <<entry, pc, live>>
  BY <1>9
<1>15. Placing(S, m, 0, herdr', calls', created', occupied')
  <2> SUFFICES ASSUME NEW h, h = herdr', NEW g, g = created', NEW o, o = occupied'
               PROVE  Placing(S, m, 0, h, calls', g, o)
    OBVIOUS
  <2>1. 0 \in 0 .. Len(Session[i].tabs) /\ DOMAIN g = DOMAIN Session[i].tabs
    BY <1>4, <1>13
  <2>2. OneMore(S, m, h, g, o) /\ TabsBack(h, a, i, n, o)
        /\ DOMAIN h[a].tabs = DOMAIN Session[i].tabs
    BY <1>4, <1>11, <1>12, <1>13
  <2>3. calls' = Moves(g, n, 0) \o (Shows(i, g) \o rest)
    BY <1>10, <1>13
  <2> QED
    BY <2>1, <2>2, <2>3 DEF Placing
<1> QED
  BY <1>9, <1>14, <1>15

\* Where a rebuilt tab is.
LEMMA CreatedAt ==
  ASSUME HerdrInv, NEW a \in DOMAIN herdr, Latest(herdr, a), NEW g, AreIdsOf(g, herdr, a),
         DOMAIN g = DOMAIN herdr[a].tabs,
         NEW j \in DOMAIN g
  PROVE  IdAt(herdr, a, j, g[j])
<1>1. Sound(herdr, next) /\ next \in Nat
  BY DEF HerdrInv
<1>2. j \in DOMAIN herdr[a].tabs /\ g[j] = TabAt(herdr, a, j).id
  BY DEF AreIdsOf
<1>3. ASSUME NEW b \in DOMAIN herdr, NEW k \in DOMAIN herdr[b].tabs, b # a \/ k # j
      PROVE  TabAt(herdr, b, k).id # TabAt(herdr, a, j).id
  <2>1. CASE b = a
    <3>1. DistinctIds(herdr[a].tabs)
      BY <1>1, SoundTabs
    <3> QED
      BY <1>2, <1>3, <2>1, <3>1 DEF DistinctIds, TabAt
  <2>2. CASE b # a
    <3>1. TabAt(herdr, b, k).id < herdr[a].id /\ TabAt(herdr, a, j).id > herdr[a].id
      BY <1>2, <1>3, <2>2 DEF Latest
    <3>2. TabAt(herdr, b, k).id \in Nat /\ TabAt(herdr, a, j).id \in Nat
      BY <1>2, <1>3, OpenIsOlder
    <3>3. herdr[a].id \in Nat
      BY <1>1 DEF Sound, Numbered
    <3> QED
      BY <3>1, <3>2, <3>3
  <2> QED
    BY <2>1, <2>2
<1> QED
  BY <1>2, <1>3 DEF IdAt, IsPlace

\* A tab that is moved to where it is stays where it is.
LEMMA MoveStep ==
  ASSUME ReopenInv, Calm, Calm', [Next]_vars, ~UNCHANGED vars, pc = "calling",
         NEW S \in SUBSET DOMAIN Session, NEW m \in 0 .. Cardinality(S), NEW l,
         NEW i, i = Pos(S, m + 1), NEW n, n = Len(Session[i].tabs), l < n,
         Placing(S, m, l, herdr, calls, created, occupied)
  PROVE  Placing(S, m, l + 1, herdr', calls', created', occupied')
         /\ UNCHANGED <<entry, pc, live>>
<1> SUFFICES ASSUME NEW a, a = At(S, m + 1), NEW rest, rest = Shows(i, created)
                    \o Each(S, m + 1)
             PROVE  Placing(S, m, l + 1, herdr', calls', created', occupied')
                    /\ UNCHANGED <<entry, pc, live>>
  OBVIOUS
<1>1. IsSeq(herdr) /\ IsSeq(herdr')
  BY IsSeqThen
<1>2. /\ OneMore(S, m, herdr, created, occupied) /\ l \in 0 .. n
         /\ DOMAIN created = DOMAIN Session[i].tabs
      /\ DOMAIN herdr[a].tabs = DOMAIN Session[i].tabs
      /\ TabsBack(herdr, a, i, n, occupied)
      /\ calls = Moves(created, n, l) \o rest
  BY DEF Placing
<1>3. /\ i \in DOMAIN Session /\ m + 1 \in 0 .. Cardinality(S) /\ a \in DOMAIN herdr
         /\ Latest(herdr, a)
      /\ AreIdsOf(created, herdr, a)
  BY <1>1, <1>2, OneMoreIs
<1>4. n \in Nat /\ DOMAIN Session[i].tabs = 1 .. n
  BY <1>3, TabsOfSession
<1>5. l \in Nat /\ l + 1 \in 1 .. n /\ l + 1 \in 0 .. n /\ l \in 0 .. n - 1
  BY <1>2, <1>4
<1>6. IsSeq(rest)
  <2>1. IsSeq(Shows(i, created)) /\ IsSeq(Each(S, m + 1))
    BY <1>2, <1>3, ShowsIsSeq, EachIs
  <2> QED
    BY <2>1, FirstOfConcat
<1> DEFINE moves == Moves(created, n, l)
<1>7. /\ IsSeq(moves) /\ moves # << >> /\ Head(moves) = MoveCall(created[l + 1], l)
         /\ Tail(moves) = Moves(created, n, l + 1)
  <2> SUFFICES ASSUME NEW g, g = created
               PROVE  /\ IsSeq(Moves(g, n, l)) /\ Moves(g, n, l) # << >>
                      /\ Head(Moves(g, n, l)) = MoveCall(g[l + 1], l)
                         /\ Tail(Moves(g, n, l)) = Moves(g, n, l + 1)
    OBVIOUS
  <2>1. IsSeq(Moves(g, n, l))
    BY <1>2, <1>4, MovesAre
  <2>2. Moves(g, n, l) # << >>
    BY <1>2, <1>4, MovesAre
  <2>3. Head(Moves(g, n, l)) = MoveCall(g[l + 1], l)
    BY <1>2, <1>4, MovesAre
  <2>4. Tail(Moves(g, n, l)) = Moves(g, n, l + 1)
    BY <1>2, <1>4, MovesAre
  <2> QED
    BY <2>1, <2>2, <2>3, <2>4
<1>8. IsSeq(Moves(created, n, l + 1))
  BY <1>4, <1>5, MovesAre
<1> HIDE DEF moves
<1>9. calls = moves \o rest
  BY <1>2 DEF moves
<1>10. calls # << >> /\ Head(calls) = MoveCall(created[l + 1], l)
       /\ Tail(calls) = Moves(created, n, l + 1) \o rest
  <2> SUFFICES ASSUME NEW c, c = moves
               PROVE  c \o rest # << >> /\ Head(c \o rest) = Head(c)
                      /\ Tail(c \o rest) = Tail(c) \o rest
    BY <1>7, <1>9
  <2>1. IsSeq(c) /\ c # << >> /\ IsSeq(rest)
    BY <1>6, <1>7
  <2>2. c \o rest # << >> /\ Tail(c \o rest) = Tail(c) \o rest
    BY ONLY <2>1, FirstOfConcat
  <2>3. Head(c \o rest) = Head(c)
    BY ONLY <2>1, FirstOfConcat
  <2> QED
    BY <2>2, <2>3
<1>11. /\ herdr' = Moved(herdr, created[l + 1], l) /\ calls' = << >> \o Tail(calls)
       /\ UNCHANGED <<entry, pc, live, occupied, created>>
  BY <1>10, CalmMove
<1>12. calls' = Moves(created, n, l + 1) \o rest
  <2>1. IsSeq(Moves(created, n, l + 1) \o rest)
    BY <1>6, <1>8, FirstOfConcat
  <2> QED
    BY <1>10, <1>11, <2>1, FirstOfConcat, EmptyIsSeq
<1>13. HerdrInv /\ Sound(herdr, next) /\ next \in Nat
  BY DEF ReopenInv, HerdrInv
<1>14. IdAt(herdr, a, l + 1, created[l + 1])
  BY <1>2, <1>3, <1>4, <1>5, <1>13, CreatedAt
<1>15. Len(herdr[a].tabs) = n
  <2>1. IsSeq(herdr[a].tabs)
    BY <1>3, <1>13, SoundTabs
  <2> QED
    BY <1>2, <1>4, <2>1 DEF IsSeq
<1>16. TabMoves(herdr', herdr, a, l + 1, l)
  BY <1>5, <1>11, <1>13, <1>14, <1>15, MovedIs
<1>17. /\ Others(herdr', herdr, a) /\ DOMAIN herdr'[a].tabs = DOMAIN herdr[a].tabs
       /\ \A k \in DOMAIN herdr[a].tabs : TabAt(herdr', a, k) = TabAt(herdr, a, k)
  BY <1>15, <1>16 DEF TabMoves
<1>18. Latest(herdr', a)
  BY <1>3, <1>17, LatestStays DEF Latest
<1>19. AreIdsOf(created, herdr', a)
  <2>1. created = [k \in DOMAIN created |-> TabAt(herdr, a, k).id]
    BY <1>3 DEF AreIdsOf
  <2>2. \A k \in DOMAIN created : TabAt(herdr', a, k).id = TabAt(herdr, a, k).id
    BY <1>2, <1>17
  <2> QED
    BY <2>1, <2>2 DEF AreIdsOf
<1>20. OneMore(S, m, herdr', created, occupied)
  <2>1. occupied \subseteq occupied
    OBVIOUS
  <2> QED
    BY <1>1, <1>2, <1>17, <1>18, <1>19, <2>1, OneMoreStays
<1>21. TabsBack(herdr', a, i, n, occupied)
  BY <1>2, <1>4, <1>17 DEF TabsBack
<1>22. ASSUME NEW o, o = occupied, NEW g, g = created
       PROVE Placing(S, m, l + 1, herdr', calls', g, o)
  BY <1>2, <1>5, <1>12, <1>17, <1>20, <1>21, <1>22 DEF Placing
<1>23. occupied' = occupied /\ created' = created /\ UNCHANGED <<entry, pc, live>>
  BY <1>11
<1> QED
  BY <1>22, <1>23

\* All its tabs are in their places: the workspace is back.
LEMMA OneMoreBack ==
  ASSUME NEW S \in SUBSET DOMAIN Session, NEW m \in 0 .. Cardinality(S), NEW h, NEW g, NEW o,
         OneMore(S, m, h, g, o),
         IsSeq(h), NEW a, a = At(S, m + 1), NEW i, i = Pos(S, m + 1),
         DOMAIN h[a].tabs = DOMAIN Session[i].tabs,
         TabsBack(h, a, i, Len(Session[i].tabs), o), ActiveBack(h, a, i)
  PROVE  SomeBack(S, m + 1, h, o) /\ Len(h) = At(S, m + 1)
<1>1. /\ a \in DOMAIN h /\ Len(h) = a /\ WorkspaceLike(h[a], i) /\ m \in Nat
         /\ m + 1 \in 0 .. Cardinality(S)
  BY OneMoreIs
<1>2. /\ DOMAIN h = 1 .. Len(h)
      /\ \A k \in 1 .. At(S, 0) : h[k] = Keep(Session, Left(S))[k]
      /\ \A k \in 1 .. m : WorkspaceBack(h, At(S, k), Pos(S, k), o)
  BY DEF OneMore, SomeBack
<1>3. WorkspaceBack(h, a, i, o)
  BY <1>1 DEF WorkspaceBack
<1>4. \A k \in 1 .. m + 1 : WorkspaceBack(h, At(S, k), Pos(S, k), o)
  <2> SUFFICES ASSUME NEW k \in 1 .. m + 1 PROVE WorkspaceBack(h, At(S, k), Pos(S, k), o)
    OBVIOUS
  <2>1. CASE k = m + 1
    BY <1>3, <2>1
  <2>2. CASE k # m + 1
    <3>1. k \in 1 .. m
      BY <1>1, <2>2
    <3> QED
      BY <1>2, <3>1
  <2> QED
    BY <2>1, <2>2
<1>5. Len(h) >= At(S, m + 1)
  <2>1. At(S, m + 1) \in Nat
    BY <1>1, AtIs
  <2> QED
    BY <1>1, <2>1
<1> QED
  BY <1>1, <1>2, <1>4, <1>5 DEF SomeBack

\* The last call for a workspace shows the tab that was active.
LEMMA ShowStep ==
  ASSUME ReopenInv, Calm, Calm', [Next]_vars, ~UNCHANGED vars, pc = "calling",
         NEW S \in SUBSET DOMAIN Session, NEW m \in 0 .. Cardinality(S),
         NEW i, i = Pos(S, m + 1), NEW n, n = Len(Session[i].tabs), FocusOnReopen,
         Placing(S, m, n, herdr, calls, created, occupied)
  PROVE  BetweenWorkspaces(S, m + 1, herdr', calls', occupied') /\ UNCHANGED <<entry, pc, live>>
<1> SUFFICES ASSUME NEW a, a = At(S, m + 1), NEW rest, rest = Each(S, m + 1)
             PROVE  BetweenWorkspaces(S, m + 1, herdr', calls', occupied')
                    /\ UNCHANGED <<entry, pc, live>>
  OBVIOUS
<1>1. IsSeq(herdr) /\ IsSeq(herdr')
  BY IsSeqThen
<1>2. /\ OneMore(S, m, herdr, created, occupied) /\ DOMAIN created = DOMAIN Session[i].tabs
      /\ DOMAIN herdr[a].tabs = DOMAIN Session[i].tabs
      /\ TabsBack(herdr, a, i, n, occupied)
      /\ calls = Moves(created, n, n) \o (Shows(i, created) \o rest)
  BY DEF Placing
<1>3. /\ i \in DOMAIN Session /\ m + 1 \in 0 .. Cardinality(S) /\ a \in DOMAIN herdr
         /\ Latest(herdr, a)
      /\ AreIdsOf(created, herdr, a)
  BY <1>1, <1>2, OneMoreIs
<1>4. n \in Nat /\ DOMAIN Session[i].tabs = 1 .. n
  BY <1>3, TabsOfSession
<1>5. PICK k \in DOMAIN Session[i].tabs :
        /\ \A j \in DOMAIN Session[i].tabs : TabAt(Session, i, j).id = Session[i].active
           => j = k
        /\ Shows(i, created) = IF FocusOnReopen THEN <<TabCall(created[k])>> ELSE << >>
  BY <1>2, <1>3, ShowsIs
<1>6. IsSeq(rest)
  BY <1>3, EachIs
<1>7. calls = <<TabCall(created[k])>> \o rest
  <2>1. Moves(created, n, n) = << >>
    <3>1. n \in 0 .. n
      BY <1>4
    <3> QED
      BY <1>4, <3>1, MovesAre
  <2>2. calls = << >> \o (<<TabCall(created[k])>> \o rest)
    BY <1>2, <1>5, <2>1
  <2>3. IsSeq(<<TabCall(created[k])>> \o rest)
    BY <1>6, OneFirst
  <2> QED
    BY <2>2, <2>3, FirstOfConcat, EmptyIsSeq
<1>8. calls # << >> /\ Head(calls) = TabCall(created[k]) /\ Tail(calls) = rest
  BY <1>6, <1>7, OneFirst
<1>9. /\ herdr' = TabFocused(herdr, created[k]) /\ calls' = << >> \o Tail(calls)
      /\ UNCHANGED <<entry, pc, live, occupied, created>>
  BY <1>8, CalmFocus
<1>10. calls' = rest
  BY <1>6, <1>8, <1>9, FirstOfConcat, EmptyIsSeq
<1>11. HerdrInv /\ Sound(herdr, next) /\ next \in Nat
  BY DEF ReopenInv, HerdrInv
<1>12. IdAt(herdr, a, k, created[k])
  BY <1>2, <1>3, <1>11, CreatedAt
<1>13. Others(herdr', herdr, a) /\ herdr'[a].tabs = herdr[a].tabs
       /\ herdr'[a].active = created[k]
  BY <1>9, <1>11, <1>12, TabFocusedIs
<1>14. \A j : TabAt(herdr', a, j) = TabAt(herdr, a, j)
  BY <1>13 DEF TabAt
<1>15. Latest(herdr', a)
  BY <1>3, <1>13, <1>14, LatestStays DEF Latest
<1>16. AreIdsOf(created, herdr', a)
  BY <1>3, <1>14 DEF AreIdsOf
<1>17. OneMore(S, m, herdr', created, occupied)
  <2>1. occupied \subseteq occupied
    OBVIOUS
  <2> QED
    BY <1>1, <1>2, <1>13, <1>15, <1>16, <2>1, OneMoreStays
<1>18. TabsBack(herdr', a, i, n, occupied)
  BY <1>2, <1>14 DEF TabsBack
<1>19. ActiveBack(herdr', a, i)
  <2>1. created[k] = TabAt(herdr', a, k).id
    BY <1>2, <1>16 DEF AreIdsOf
  <2> QED
    BY <1>5, <1>13, <2>1 DEF ActiveBack
<1>20. SomeBack(S, m + 1, herdr', occupied) /\ Len(herdr') = At(S, m + 1)
  BY <1>1, <1>2, <1>13, <1>17, <1>18, <1>19, OneMoreBack
<1>21. occupied' = occupied /\ UNCHANGED <<entry, pc, live>>
  BY <1>9
<1> QED
  BY <1>10, <1>20, <1>21 DEF BetweenWorkspaces

LEMMA FirstAndRest ==
  ASSUME NEW s, IsSeq(s), s # << >>
  PROVE  s = <<Head(s)>> \o Tail(s)
<1> USE DEF IsSeq
<1>1. s \in Seq(Range(s))
  OBVIOUS
<1>2. Len(s) \in Nat /\ Len(s) >= 1
  BY <1>1
<1>3. <<Head(s)>> \o Tail(s) \in Seq(Range(s)) /\ Len(<<Head(s)>> \o Tail(s)) = Len(s)
  BY <1>1, <1>2
<1>4. \A k \in 1 .. Len(s) : (<<Head(s)>> \o Tail(s))[k] = s[k]
  BY <1>1, <1>2
<1> QED
  BY <1>1, <1>3, <1>4, SameSeq

\* The tabs still to rebuild.
LEMMA AppliesNext ==
  ASSUME NEW i \in DOMAIN Session, NEW n, n = Len(Session[i].tabs), NEW ws, NEW j \in 0 .. n,
         j < n
  PROVE  Applies(i, ws, j) = <<ApplyCall(i, ws, j + 1)>> \o Applies(i, ws, j + 1)
<1> SUFFICES ASSUME NEW f, f = Applies(i, ws, j), NEW k, k = n - j
             PROVE  f = <<ApplyCall(i, ws, j + 1)>> \o Applies(i, ws, j + 1)
  OBVIOUS
<1>1. n \in Nat /\ k \in Nat /\ k # 0 /\ 1 \in 1 .. k /\ j \in Nat
  BY TabsOfSession
<1>2. f = [x \in 1 .. k |-> ApplyCall(i, ws, j + x)]
  BY DEF Applies
<1>3. f = [x \in 1 .. k |-> f[x]] /\ \A x \in 1 .. k : f[x] = ApplyCall(i, ws, j + x)
  BY <1>2
<1>4. IsSeq(f)
  BY <1>1, <1>3, ListIsSeq
<1>5. f # << >> /\ Tail(f) = [x \in 1 .. k - 1 |-> f[x + 1]]
  BY <1>1, <1>3, ListIsSeq
<1>6. Head(f) = ApplyCall(i, ws, j + 1)
  <2>1. Head(f) = f[1]
    BY <1>4, <1>5 DEF IsSeq
  <2>2. f[1] = ApplyCall(i, ws, j + 1)
    BY <1>1, <1>3
  <2> QED
    BY <2>1, <2>2
<1>7. Tail(f) = Applies(i, ws, j + 1)
  <2>1. \A x \in 1 .. k - 1 : f[x + 1] = ApplyCall(i, ws, (j + 1) + x)
    <3> SUFFICES ASSUME NEW x \in 1 .. k - 1 PROVE f[x + 1] = ApplyCall(i, ws, (j + 1) + x)
      OBVIOUS
    <3>1. x + 1 \in 1 .. k /\ j + (x + 1) = (j + 1) + x
      BY ONLY <1>1, x \in 1 .. k - 1
    <3>2. f[x + 1] = ApplyCall(i, ws, j + (x + 1))
      BY ONLY <1>3, <3>1
    <3> QED
      BY ONLY <3>1, <3>2
  <2>2. k - 1 = n - (j + 1)
    BY <1>1
  <2>3. Applies(i, ws, j + 1) = [x \in 1 .. k - 1 |-> ApplyCall(i, ws, (j + 1) + x)]
    BY <2>2 DEF Applies
  <2> QED
    BY ONLY <1>5, <2>1, <2>3
<1> QED
  BY <1>4, <1>5, <1>6, <1>7, FirstAndRest

LEMMA AppliesNone ==
  ASSUME NEW i \in DOMAIN Session, NEW n, n = Len(Session[i].tabs), NEW ws
  PROVE  Applies(i, ws, n) = << >>
<1>1. n \in Nat /\ n - n = 0 /\ n \in 0 .. n
  BY TabsOfSession
<1>2. IsSeq(Applies(i, ws, n)) /\ Len(Applies(i, ws, n)) = 0
  BY <1>1, AppliesIsSeq
<1> QED
  BY <1>2 DEF IsSeq

\* The calls behind those for the tabs of a workspace.
Behind(S, m, i) == <<ArrangeCall(i)>> \o Each(S, m + 1)

LEMMA BuildingIs ==
  ASSUME NEW S, NEW m, NEW h, NEW g, NEW o, OneMore(S, m, h, g, o), NEW i, i = Pos(S, m + 1),
         NEW j \in 0 .. Len(Session[i].tabs), DOMAIN g = 1 .. j, NEW e, IsSeq(e),
         RebuiltBut(S, m, j, h, e, o),
         NEW rest, IsSeq(rest), rest = Applies(i, h[At(S, m + 1)].id, j) \o Behind(S, m, i),
         NEW c, c = e \o rest
  PROVE  Building(S, m, j, h, c, g, o)
<1>1. e \in Prefixes(c)
  BY PrefixIs
<1> QED
  BY <1>1 DEF Building, Behind

LEMMA BuildStep ==
  ASSUME ReopenInv, Calm, Calm', [Next]_vars, ~UNCHANGED vars, pc = "calling",
         NEW S \in SUBSET DOMAIN Session, NEW m \in 0 .. Cardinality(S),
         NEW i, i = Pos(S, m + 1), NEW n, n = Len(Session[i].tabs), NEW j \in 0 .. n,
         Building(S, m, j, herdr, calls, created, occupied)
  PROVE  /\ \/ \E k \in 0 .. n : Building(S, m, k, herdr', calls', created', occupied')
            \/ Placing(S, m, 0, herdr', calls', created', occupied')
         /\ UNCHANGED <<entry, pc, live>>
<1> SUFFICES ASSUME NEW a, a = At(S, m + 1), NEW ws, ws = herdr[a].id, NEW tail,
                    tail = Behind(S, m, i)
             PROVE  /\ \/ \E k \in 0 .. n : Building(S, m, k, herdr', calls', created',
                          occupied')
                       \/ Placing(S, m, 0, herdr', calls', created', occupied')
                    /\ UNCHANGED <<entry, pc, live>>
  OBVIOUS
<1>1. OneMore(S, m, herdr, created, occupied) /\ DOMAIN created = 1 .. j
  BY DEF Building
<1>2. PICK d : RebuiltBut(S, m, j, herdr, d, occupied) /\ calls = d
      \o (Applies(i, ws, j) \o tail)
  BY DEF Building, Behind
<1>3. IsSeq(herdr) /\ IsSeq(herdr')
  BY IsSeqThen
<1>4. i \in DOMAIN Session /\ m + 1 \in 0 .. Cardinality(S)
  BY <1>1, <1>3, OneMoreIs
<1>5. n \in Nat
  BY <1>4, TabsOfSession
<1>6. IsSeq(tail)
  BY <1>4, EachIs, OneFirst DEF Behind
<1>7. \A k \in 0 .. n : IsSeq(Applies(i, ws, k) \o tail)
  BY <1>4, <1>6, AppliesIsSeq, FirstOfConcat
<1>8. CASE d # << >>
  <2> SUFFICES ASSUME NEW rest, rest = Applies(i, ws, j) \o tail
               PROVE  /\ Building(S, m, j, herdr', calls', created', occupied')
                      /\ UNCHANGED <<entry, pc, live>>
    OBVIOUS
  <2>1. IsSeq(rest) /\ calls = d \o rest
    BY <1>2, <1>7
  <2>2. /\ ReopenInv /\ Calm /\ Calm' /\ [Next]_vars /\ ~UNCHANGED vars /\ pc = "calling"
        /\ S \in SUBSET DOMAIN Session /\ m \in 0 .. Cardinality(S)
           /\ OneMore(S, m, herdr, created, occupied)
        /\ DOMAIN created = 1 .. j /\ IsSeq(rest)
        /\ j \in 0 .. Len(Session[Pos(S, m + 1)].tabs) /\ d # << >>
           /\ RebuiltBut(S, m, j, herdr, d, occupied)
        /\ calls = d \o rest
    BY <1>1, <1>2, <1>8, <2>1
  <2>3. OneMore(S, m, herdr', created', occupied') /\ herdr'[a].id = ws
        /\ UNCHANGED <<entry, pc, live, created>>
    <3>1. OneMore(S, m, herdr', created', occupied')
      BY ONLY <2>2, ChoreStep
    <3>2. herdr'[At(S, m + 1)].id = herdr[At(S, m + 1)].id
      BY ONLY <2>2, ChoreStep
    <3>3. UNCHANGED <<entry, pc, live, created>>
      BY ONLY <2>2, ChoreStep
    <3> QED
      BY <3>1, <3>2, <3>3
  <2>4. \E e : RebuiltBut(S, m, j, herdr', e, occupied') /\ IsSeq(e) /\ calls' = e \o rest
    BY ONLY <2>2, ChoreStep
  <2>5. PICK e : RebuiltBut(S, m, j, herdr', e, occupied') /\ IsSeq(e) /\ calls' = e \o rest
    BY <2>4
  <2>6. Building(S, m, j, herdr', calls', created', occupied')
    <3> SUFFICES ASSUME NEW h, h = herdr', NEW g, g = created', NEW o, o = occupied', NEW c,
                        c = calls'
                 PROVE  Building(S, m, j, h, c, g, o)
      OBVIOUS
    <3>1. OneMore(S, m, h, g, o) /\ DOMAIN g = 1 .. j /\ RebuiltBut(S, m, j, h, e, o)
          /\ IsSeq(e) /\ c = e \o rest
      BY <1>1, <2>3, <2>5
    <3>2. rest = Applies(i, h[At(S, m + 1)].id, j) \o Behind(S, m, i)
      BY <2>3
    <3> QED
      BY <2>1, <3>1, <3>2, BuildingIs
  <2> QED
    BY <2>3, <2>6
<1>9. CASE d = << >> /\ j < n
  <2> SUFFICES ASSUME NEW rest, rest = Applies(i, ws, j + 1) \o tail
               PROVE  /\ \E k \in 0 .. n : Building(S, m, k, herdr', calls', created',
                         occupied')
                      /\ UNCHANGED <<entry, pc, live>>
    OBVIOUS
  <2>1. j \in Nat /\ j + 1 \in 0 .. n
    BY <1>5, <1>9
  <2>2. IsSeq(rest) /\ IsSeq(Applies(i, ws, j + 1))
    <3>1. IsSeq(Applies(i, ws, j + 1))
      BY <1>4, <2>1, AppliesIsSeq
    <3> QED
      BY <1>7, <2>1, <3>1
  <2>3. calls = <<ApplyCall(i, ws, j + 1)>> \o rest
    <3>1. Applies(i, ws, j) = <<ApplyCall(i, ws, j + 1)>> \o Applies(i, ws, j + 1)
      <4>1. i \in DOMAIN Session /\ n = Len(Session[i].tabs) /\ j \in 0 .. n /\ j < n
        BY <1>4, <1>5, <1>9
      <4> QED
        BY ONLY <4>1, AppliesNext
    <3>2. calls = Applies(i, ws, j) \o tail
      BY <1>2, <1>7, <1>9, FirstOfConcat, EmptyIsSeq
    <3>3. IsSeq(<<ApplyCall(i, ws, j + 1)>>)
      BY OneIsSeq
    <3>4. (<<ApplyCall(i, ws, j + 1)>> \o Applies(i, ws, j + 1))
          \o tail = <<ApplyCall(i, ws, j + 1)>> \o rest
      <4>1. rest = Applies(i, ws, j + 1) \o tail
        OBVIOUS
      <4> QED
        BY ONLY <1>6, <2>2, <3>3, <4>1, ConcatTwice
    <3> QED
      BY <3>1, <3>2, <3>4
  <2>4. /\ ReopenInv /\ Calm /\ Calm' /\ [Next]_vars /\ ~UNCHANGED vars /\ pc = "calling"
        /\ S \in SUBSET DOMAIN Session /\ m \in 0 .. Cardinality(S)
           /\ OneMore(S, m, herdr, created, occupied)
        /\ DOMAIN created = 1 .. j /\ IsSeq(rest)
        /\ j \in 0 .. Len(Session[i].tabs) /\ j < Len(Session[i].tabs)
        /\ RebuiltBut(S, m, j, herdr, << >>, occupied)
        /\ a = At(S, m + 1) /\ i = Pos(S, m + 1)
           /\ calls = <<ApplyCall(i, herdr[a].id, j + 1)>> \o rest
    BY <1>1, <1>2, <1>9, <2>2, <2>3
  <2>5. OneMore(S, m, herdr', created', occupied') /\ DOMAIN created' = 1 .. j + 1
        /\ herdr'[a].id = ws
    <3>1. OneMore(S, m, herdr', created', occupied')
      BY ONLY <2>4, ApplyStep
    <3>2. DOMAIN created' = 1 .. j + 1
      BY ONLY <2>4, ApplyStep
    <3>3. herdr'[a].id = herdr[a].id
      BY ONLY <2>4, ApplyStep
    <3> QED
      BY <3>1, <3>2, <3>3
  <2>6. UNCHANGED <<entry, pc, live>>
    BY ONLY <2>4, ApplyStep
  <2>7. \E e : RebuiltBut(S, m, j + 1, herdr', e, occupied') /\ IsSeq(e) /\ calls' = e \o rest
    BY ONLY <2>4, ApplyStep, ZenonT(90)
  <2>8. PICK e : RebuiltBut(S, m, j + 1, herdr', e, occupied') /\ IsSeq(e) /\ calls' = e \o rest
    BY <2>7
  <2>9. Building(S, m, j + 1, herdr', calls', created', occupied')
    <3> SUFFICES ASSUME NEW h, h = herdr', NEW g, g = created', NEW o, o = occupied', NEW c,
                        c = calls'
                 PROVE  Building(S, m, j + 1, h, c, g, o)
      OBVIOUS
    <3>1. OneMore(S, m, h, g, o) /\ DOMAIN g = 1 .. j + 1
          /\ RebuiltBut(S, m, j + 1, h, e, o) /\ IsSeq(e) /\ c = e \o rest
      BY <2>5, <2>8
    <3>2. rest = Applies(i, h[At(S, m + 1)].id, j + 1) \o Behind(S, m, i)
      BY <2>5
    <3> QED
      BY <2>1, <2>2, <3>1, <3>2, BuildingIs
  <2> QED
    BY <2>1, <2>6, <2>9
<1>10. CASE d = << >> /\ ~(j < n)
  <2>1. j = n
    BY <1>5, <1>10
  <2>2. Applies(i, ws, j) = << >>
    BY <1>4, <1>5, <2>1, AppliesNone
  <2>3. calls = <<ArrangeCall(i)>> \o Each(S, m + 1)
    <3>1. << >> \o tail = tail
      BY <1>6, FirstOfConcat, EmptyIsSeq
    <3> QED
      BY <1>2, <1>10, <2>2, <3>1 DEF Behind
  <2>4. RebuiltBut(S, m, n, herdr, << >>, occupied) /\ DOMAIN created = 1 .. n
    BY <1>1, <1>2, <1>10, <2>1
  <2> QED
    BY <1>1, <2>3, <2>4, ArrangingStep
<1> QED
  BY <1>8, <1>9, <1>10

\* Nothing is left to ask for in a workspace that need not be shown.
LEMMA UnshownBack ==
  ASSUME NEW S \in SUBSET DOMAIN Session, NEW m \in 0 .. Cardinality(S), NEW h, NEW c, NEW g,
         NEW o,
         NEW i, i = Pos(S, m + 1), NEW n, n = Len(Session[i].tabs),
         Placing(S, m, n, h, c, g, o), ~FocusOnReopen, IsSeq(h)
  PROVE  BetweenWorkspaces(S, m + 1, h, c, o) /\ m + 1 \in 0 .. Cardinality(S)
<1> SUFFICES ASSUME NEW a, a = At(S, m + 1), NEW rest, rest = Each(S, m + 1)
             PROVE  BetweenWorkspaces(S, m + 1, h, c, o) /\ m + 1 \in 0 .. Cardinality(S)
  OBVIOUS
<1>1. /\ OneMore(S, m, h, g, o) /\ DOMAIN g = DOMAIN Session[i].tabs
      /\ DOMAIN h[a].tabs = DOMAIN Session[i].tabs /\ TabsBack(h, a, i, n, o)
      /\ c = Moves(g, n, n) \o (Shows(i, g) \o rest)
  BY DEF Placing
<1>2. i \in DOMAIN Session /\ m + 1 \in 0 .. Cardinality(S)
  BY <1>1, OneMoreIs
<1>3. n \in Nat /\ n \in 0 .. n
  BY <1>2, TabsOfSession
<1>4. Moves(g, n, n) = << >>
  BY <1>3, MovesAre
<1>5. Shows(i, g) = << >>
  BY DEF Shows
<1>6. IsSeq(rest)
  BY <1>2, EachIs
<1>7. << >> \o rest = rest
  BY <1>6, OneFirst
<1>8. c = rest
  BY <1>1, <1>4, <1>5, <1>7
<1>9. ActiveBack(h, a, i)
  BY DEF ActiveBack
<1>10. SomeBack(S, m + 1, h, o) /\ Len(h) = At(S, m + 1)
  BY <1>1, <1>9, OneMoreBack
<1> QED
  BY <1>2, <1>8, <1>10 DEF BetweenWorkspaces

\* Where the rebuilding of a workspace is.
Amid(S, m, h, c, g, o) ==
  \E j \in 0 .. Len(Session[Pos(S, m + 1)].tabs) : Building(S, m, j, h, c, g, o)
  \/ Placing(S, m, j, h, c, g, o)

LEMMA AmidStep ==
  ASSUME ReopenInv, Calm, Calm', [Next]_vars, ~UNCHANGED vars, pc = "calling", calls # << >>,
         NEW S \in SUBSET DOMAIN Session, NEW m \in 0 .. Cardinality(S), m < Cardinality(S),
         Unlisted(S, live),
         Amid(S, m, herdr, calls, created, occupied)
  PROVE  /\ \/ Amid(S, m, herdr', calls', created', occupied')
            \/ BetweenWorkspaces(S, m + 1, herdr', calls', occupied')
            \/ Creating(S, m + 1, herdr', calls', occupied')
         /\ UNCHANGED <<entry, pc, live>>
<1> SUFFICES ASSUME NEW i, i = Pos(S, m + 1), NEW n, n = Len(Session[i].tabs)
             PROVE  /\ \/ Amid(S, m, herdr', calls', created', occupied')
                       \/ BetweenWorkspaces(S, m + 1, herdr', calls', occupied')
                       \/ Creating(S, m + 1, herdr', calls', occupied')
                    /\ UNCHANGED <<entry, pc, live>>
  OBVIOUS
<1>1. PICK j \in 0 .. n : \/ Building(S, m, j, herdr, calls, created, occupied)
                          \/ Placing(S, m, j, herdr, calls, created, occupied)
  BY DEF Amid
<1>2. IsSeq(herdr)
  BY IsSeqThen
<1>3. n \in Nat
  BY NextClosed, TabsOfSession
<1>4. CASE Building(S, m, j, herdr, calls, created, occupied)
  <2>1. UNCHANGED <<entry, pc, live>>
    BY <1>4, BuildStep
  <2>2. \/ \E k \in 0 .. n : Building(S, m, k, herdr', calls', created', occupied')
        \/ Placing(S, m, 0, herdr', calls', created', occupied')
    BY <1>4, BuildStep
  <2>3. 0 \in 0 .. n
    BY <1>3
  <2> QED
    BY <2>1, <2>2, <2>3 DEF Amid
<1>5. CASE Placing(S, m, j, herdr, calls, created, occupied) /\ j < n
  <2>1. UNCHANGED <<entry, pc, live>>
    BY <1>5, MoveStep
  <2>2. Placing(S, m, j + 1, herdr', calls', created', occupied')
    BY <1>5, MoveStep
  <2>3. j + 1 \in 0 .. n
    BY <1>3, <1>5
  <2> QED
    BY <2>1, <2>2, <2>3 DEF Amid
<1>6. CASE Placing(S, m, j, herdr, calls, created, occupied) /\ ~(j < n)
  <2>1. Placing(S, m, n, herdr, calls, created, occupied)
    <3>1. j = n
      BY <1>3, <1>6
    <3> QED
      BY <1>6, <3>1
  <2>2. CASE FocusOnReopen
    BY <2>1, <2>2, ShowStep
  <2>3. CASE ~FocusOnReopen
    <3>1. BetweenWorkspaces(S, m + 1, herdr, calls, occupied) /\ m + 1 \in 0 .. Cardinality(S)
      BY <1>2, <2>1, <2>3, UnshownBack
    <3> QED
      BY <3>1, BetweenStep
  <2> QED
    BY <2>2, <2>3
<1> QED
  BY <1>1, <1>4, <1>5, <1>6

LEMMA StoryAmid ==
  ASSUME NEW S, NEW h, NEW c, NEW g, NEW o
  PROVE  WorkspaceStory(S, h, c, g, o) <=>
           \E m \in 0 .. Cardinality(S) : \/ BetweenWorkspaces(S, m, h, c, o) \/ Creating(S, m, h, c, o)
                                          \/ m < Cardinality(S) /\ Amid(S, m, h, c, g, o)
BY DEF WorkspaceStory, Amid

LEMMA WorkspaceStep ==
  ASSUME ReopenInv, Calm, Calm', [Next]_vars, ~UNCHANGED vars, pc = "calling", calls # << >>,
         NEW S \in SUBSET DOMAIN Session, Unlisted(S, live),
         WorkspaceStory(S, herdr, calls, created, occupied)
  PROVE  WorkspaceStory(S, herdr', calls', created', occupied') /\ UNCHANGED <<entry, pc, live>>
<1>1. PICK m \in 0 .. Cardinality(S) :
        \/ BetweenWorkspaces(S, m, herdr, calls, occupied)
           \/ Creating(S, m, herdr, calls, occupied)
        \/ m < Cardinality(S) /\ Amid(S, m, herdr, calls, created, occupied)
  BY StoryAmid
<1>2. CASE BetweenWorkspaces(S, m, herdr, calls, occupied)
  <2>1. Creating(S, m, herdr', calls', occupied') /\ UNCHANGED <<entry, pc, live>>
    BY <1>2, BetweenStep
  <2> QED
    BY <2>1, StoryAmid
<1>3. CASE Creating(S, m, herdr, calls, occupied)
  <2>1. Building(S, m, 0, herdr', calls', created', occupied') /\ m < Cardinality(S)
        /\ UNCHANGED <<entry, pc, live>>
    BY <1>3, CreateStep
  <2>2. 0 \in 0 .. Len(Session[Pos(S, m + 1)].tabs)
    BY <2>1, NextClosed, TabsOfSession
  <2>3. Amid(S, m, herdr', calls', created', occupied')
    BY <2>1, <2>2 DEF Amid
  <2> QED
    BY <2>1, <2>3, StoryAmid
<1>4. CASE m < Cardinality(S) /\ Amid(S, m, herdr, calls, created, occupied)
  <2>1. UNCHANGED <<entry, pc, live>>
    BY <1>4, AmidStep
  <2>2. \/ Amid(S, m, herdr', calls', created', occupied')
        \/ BetweenWorkspaces(S, m + 1, herdr', calls', occupied')
        \/ Creating(S, m + 1, herdr', calls', occupied')
    BY <1>4, AmidStep
  <2>3. m + 1 \in 0 .. Cardinality(S)
    BY <1>4, NextClosed
  <2> QED
    BY <1>4, <2>1, <2>2, <2>3, StoryAmid
<1> QED
  BY <1>1, <1>2, <1>3, <1>4

LEMMA NotEmpty ==
  ASSUME NEW a, IsSeq(a), NEW b, IsSeq(b), a \o b = << >>
  PROVE  a = << >> /\ b = << >>
<1>1. a = << >>
  BY FirstOfConcat
<1>2. b = << >>
  BY <1>1, FirstOfConcat
<1> QED
  BY <1>1, <1>2

\* The tab that is rebuilt has chores in a list.
LEMMA ChoresAreSeq ==
  ASSUME NEW d, NEW t, NEW i, NEW j, NEW o, Chores(d, t, i, j, o) PROVE IsSeq(d)
<1>1. ASSUME NEW x, d = <<x>> PROVE IsSeq(d)
  BY <1>1, OneIsSeq
<1>2. ASSUME NEW x, NEW y, d = <<x, y>> PROVE IsSeq(d)
  BY <1>2, EmptyIsSeq, TwoFirst
<1> QED
  BY <1>1, <1>2, EmptyIsSeq DEF Chores, Naming, Filling, Watching

LEMMA WorkspaceDone ==
  ASSUME NEW S \in SUBSET DOMAIN Session, NEW h, IsSeq(h), NEW g, NEW o,
         WorkspaceStory(S, h, << >>, g, o)
  PROVE  SomeBack(S, Cardinality(S), h, o) /\ Len(h) = At(S, Cardinality(S))
<1>1. PICK m \in 0 .. Cardinality(S) :
        \/ BetweenWorkspaces(S, m, h, << >>, o) \/ Creating(S, m, h, << >>, o)
        \/ m < Cardinality(S) /\ Amid(S, m, h, << >>, g, o)
  BY StoryAmid
<1>2. Cardinality(S) \in Nat /\ m \in Nat
  BY NextClosed
<1>3. ASSUME NEW k \in 0 .. Cardinality(S), BetweenWorkspaces(S, k, h, << >>, o)
      PROVE  SomeBack(S, Cardinality(S), h, o) /\ Len(h) = At(S, Cardinality(S))
  <2>1. Each(S, k) = << >>
    BY <1>3 DEF BetweenWorkspaces
  <2>2. ~(k < Cardinality(S))
    BY <2>1, EachIs
  <2>3. k = Cardinality(S)
    BY <1>2, <2>2
  <2> QED
    BY <1>3, <2>3 DEF BetweenWorkspaces
<1>4. ~Creating(S, m, h, << >>, o)
  <2> SUFFICES ASSUME Creating(S, m, h, << >>, o) PROVE FALSE
    OBVIOUS
  <2>1. m < Cardinality(S) /\ << >> = <<CreateCall(Pos(S, m + 1))>> \o Each(S, m + 1)
    BY DEF Creating
  <2>2. IsSeq(Each(S, m + 1))
    BY <2>1, NextClosed, EachIs
  <2> QED
    BY <2>1, <2>2, OneFirst
<1>5. ASSUME m < Cardinality(S), Amid(S, m, h, << >>, g, o)
      PROVE  BetweenWorkspaces(S, m + 1, h, << >>, o) /\ m + 1 \in 0 .. Cardinality(S)
  <2> SUFFICES ASSUME NEW i, i = Pos(S, m + 1), NEW n, n = Len(Session[i].tabs)
               PROVE  BetweenWorkspaces(S, m + 1, h, << >>, o) /\ m + 1 \in 0 .. Cardinality(S)
    OBVIOUS
  <2>1. i \in DOMAIN Session /\ m + 1 \in 0 .. Cardinality(S)
    BY <1>5, NextClosed
  <2>2. n \in Nat
    BY <2>1, TabsOfSession
  <2>3. IsSeq(Each(S, m + 1))
    BY <2>1, EachIs
  <2>4. PICK j \in 0 .. n : Building(S, m, j, h, << >>, g, o)
        \/ Placing(S, m, j, h, << >>, g, o)
    BY <1>5 DEF Amid
  <2>5. ~Building(S, m, j, h, << >>, g, o)
    <3> SUFFICES ASSUME Building(S, m, j, h, << >>, g, o) PROVE FALSE
      OBVIOUS
    <3> DEFINE last == <<ArrangeCall(i)>> \o Each(S, m + 1)
               list == Applies(i, h[At(S, m + 1)].id, j)
    <3>1. PICK d : RebuiltBut(S, m, j, h, d, o) /\ << >> = d \o (list \o last)
      BY DEF Building
    <3>2. IsSeq(last) /\ last # << >>
      BY <2>3, OneFirst
    <3>3. IsSeq(list)
      BY <2>1, AppliesIsSeq
    <3>4. IsSeq(d)
      <4>1. CASE j = 0
        BY <3>1, <4>1, EmptyIsSeq DEF RebuiltBut
      <4>2. CASE j # 0
        <5>1. Chores(d, TabAt(h, At(S, m + 1), j), Pos(S, m + 1), j, o)
          BY <3>1, <4>2 DEF RebuiltBut
        <5> QED
          BY <5>1, ChoresAreSeq
      <4> QED
        BY <4>1, <4>2
    <3> HIDE DEF last, list
    <3>5. IsSeq(list \o last)
      BY <3>2, <3>3, FirstOfConcat
    <3>6. list \o last = << >>
      BY <3>1, <3>4, <3>5, NotEmpty
    <3>7. last = << >>
      BY <3>2, <3>3, <3>6, NotEmpty
    <3> QED
      BY <3>2, <3>7
  <2>6. Placing(S, m, j, h, << >>, g, o)
    BY <2>4, <2>5
  <2>7. /\ << >> = Moves(g, n, j) \o (Shows(i, g) \o Each(S, m + 1))
           /\ DOMAIN g = DOMAIN Session[i].tabs
    BY <2>6 DEF Placing
  <2>8. IsSeq(Moves(g, n, j)) /\ (j < n => Moves(g, n, j) # << >>)
    <3>1. IsSeq(Moves(g, n, j))
      BY <2>2, MovesAre
    <3>2. j < n => Moves(g, n, j) # << >>
      BY <2>2, MovesAre
    <3> QED
      BY <3>1, <3>2
  <2>9. IsSeq(Shows(i, g))
    BY <2>1, <2>7, ShowsIsSeq
  <2>10. IsSeq(Shows(i, g) \o Each(S, m + 1))
    BY <2>3, <2>9, FirstOfConcat
  <2>11. Moves(g, n, j) = << >> /\ Shows(i, g) \o Each(S, m + 1) = << >>
    BY <2>7, <2>8, <2>10, NotEmpty
  <2>12. Shows(i, g) = << >>
    BY <2>3, <2>9, <2>11, NotEmpty
  <2>13. ~FocusOnReopen
    <3> SUFFICES ASSUME FocusOnReopen PROVE FALSE
      OBVIOUS
    <3>1. PICK k : Shows(i, g) = IF FocusOnReopen THEN <<TabCall(g[k])>> ELSE << >>
      BY <2>1, <2>7, ShowsIs
    <3>2. Shows(i, g) = <<TabCall(g[k])>>
      BY <3>1
    <3>3. Shows(i, g) # << >>
      BY ONLY <3>2, OneCall
    <3> QED
      BY <2>12, <3>3
  <2>14. j = n
    BY <2>2, <2>8, <2>11
  <2> QED
    BY <2>6, <2>13, <2>14, UnshownBack
<1> QED
  BY <1>1, <1>3, <1>4, <1>5

(***************************************************************************)
(* What closed, and how an undisturbed reopen begins.                      *)
(***************************************************************************)

\* What was disturbed stays so.
LEMMA CalmBackwards ==
  ASSUME ModeInv, [Next]_vars, Calm' PROVE Calm
<1>1. faults \in Nat /\ changes \in Nat /\ faults' = 0 /\ changes' = 0
  BY FaultAssumption DEF ModeInv, Counted, Calm
<1>2. ASSUME Fault PROVE FALSE
  BY <1>1, <1>2 DEF Fault
<1>3. ASSUME Change PROVE FALSE
  BY <1>1, <1>3 DEF Change
<1>4. CASE Pop \/ RestoreWorkspace \/ Arrange \/ UNCHANGED vars
  BY <1>1, <1>4 DEF Pop, RestoreWorkspace, Arrange, vars, Calm
<1>5. CASE End
  BY <1>1, <1>5 DEF End, Calm
<1>6. CASE FetchWorkspaces \/ FetchTabs \/ FetchPanes
  <2>1. UNCHANGED changes /\ (UNCHANGED faults \/ Fault)
    BY <1>6 DEF FetchWorkspaces, FetchTabs, FetchPanes, Fetch
  <2> QED
    BY <1>1, <1>2, <2>1 DEF Calm
<1>7. CASE CreateWorkspace \/ ApplyLayout \/ SplitPane
  <2>1. UNCHANGED changes /\ \E possible, outcome : Outcome(possible, outcome)
    BY <1>7 DEF CreateWorkspace, ApplyLayout, SplitPane
  <2>2. faults' = faults \/ Fault
    BY <2>1 DEF Outcome
  <2> QED
    BY <1>1, <1>2, <2>1, <2>2 DEF Calm
<1>8. CASE RestoreOccupants
  BY <1>1, <1>2, <1>8 DEF RestoreOccupants, Calm
<1>9. CASE RenameTab \/ MoveTab \/ FocusTab \/ FocusPane \/ SwapPanes
  <2>1. UNCHANGED changes /\ (UNCHANGED faults \/ Fault)
    BY <1>9 DEF RenameTab, MoveTab, FocusTab, FocusPane, SwapPanes, Try
  <2> QED
    BY <1>1, <1>2, <2>1 DEF Calm
<1>10. ~Kill
  BY <1>2 DEF Kill
<1>11. ~UserCloses /\ ~UserOpens /\ ~UserSplits
  BY <1>3 DEF UserCloses, UserOpens, UserSplits
<1> QED
  BY <1>4, <1>5, <1>6, <1>7, <1>8, <1>9, <1>10, <1>11 DEF Next, ReopenStep

\* A call changes neither what is to be restored nor what was listed.
LEMMA CallKeeps ==
  ASSUME Calm, Calm', [Next]_vars, pc = "calling", calls # << >>
  PROVE  UNCHANGED <<entry, pc, live>>
<1>1. CASE UNCHANGED vars
  BY <1>1 DEF vars
<1>2. CASE RestoreWorkspace \/ CreateWorkspace \/ ApplyLayout \/ SplitPane
      \/ RestoreOccupants \/ Arrange
  BY <1>2 DEF RestoreWorkspace, CreateWorkspace, ApplyLayout, SplitPane, RestoreOccupants,
     Arrange
<1>3. CASE RenameTab \/ MoveTab \/ FocusTab \/ FocusPane \/ SwapPanes
  BY <1>3 DEF RenameTab, MoveTab, FocusTab, FocusPane, SwapPanes, Try
<1> QED
  BY <1>1, <1>2, <1>3, CalmCall

\* The three lists, when they are read.
Listing(l) == [workspaces |-> l.workspaces, tabs |-> l.tabs, panes |-> l.panes]
Reads ==
  \/ pc = "idle" /\ pc' = "workspaces" /\ UNCHANGED live
  \/ pc = "workspaces" /\ pc' = "tabs"
     /\ live' = [live EXCEPT !.workspaces = WorkspaceRows(herdr)]
  \/ pc = "tabs" /\ pc' = "panes" /\ live' = [live EXCEPT !.tabs = TabRows(herdr)]
Decides ==
  /\ pc = "panes" /\ pc' = "calling" /\ live' = [live EXCEPT !.panes = PaneRows(herdr)]
  /\ Plans(live') # {} => calls' \in Plans(live')

LEMMA CalmBefore ==
  ASSUME Calm, Calm', [Next]_vars, ~UNCHANGED vars, pc # "calling" \/ calls = << >>
  PROVE  \/ Reads /\ UNCHANGED <<herdr, next, entry, calls, created, occupied>>
         \/ Decides /\ UNCHANGED <<herdr, next, entry, created, occupied>>
         \/ pc = "calling" /\ pc' = "over"
            /\ UNCHANGED <<herdr, next, entry, live, calls, created, occupied>>
<1>1. ~Fault
  BY DEF Fault, Calm
<1>2. ~Change
  BY DEF Change, Calm
<1>3. ~Kill /\ ~UserCloses /\ ~UserOpens /\ ~UserSplits
  BY <1>1, <1>2 DEF Kill, UserCloses, UserOpens, UserSplits
<1>4. ~RestoreWorkspace /\ ~CreateWorkspace /\ ~ApplyLayout /\ ~SplitPane
      /\ ~RestoreOccupants /\ ~Arrange
  BY DEF RestoreWorkspace, CreateWorkspace, ApplyLayout, SplitPane, RestoreOccupants, Arrange,
     Due
<1>5. ~RenameTab /\ ~MoveTab /\ ~FocusTab /\ ~FocusPane /\ ~SwapPanes
  BY DEF RenameTab, MoveTab, FocusTab, FocusPane, SwapPanes, Try, Due
<1>6. Pop \/ FetchWorkspaces \/ FetchTabs \/ FetchPanes \/ End
  BY <1>3, <1>4, <1>5 DEF Next, ReopenStep
<1>7. CASE Pop
  BY <1>7 DEF Pop, Reads, reply
<1>8. CASE FetchWorkspaces
  BY <1>1, <1>8 DEF FetchWorkspaces, Fetch, Reads, reply
<1>9. CASE FetchTabs
  BY <1>1, <1>9 DEF FetchTabs, Fetch, Reads, reply
<1>10. CASE FetchPanes
  BY <1>1, <1>10 DEF FetchPanes, Fetch, Decides
<1>11. CASE End
  BY <1>11 DEF End, reply
<1> QED
  BY <1>6, <1>7, <1>8, <1>9, <1>10, <1>11

\* A tab of the session has an id of its own.
LEMMA TabOfSession ==
  ASSUME NEW i, NEW j, IsPlace(Session, i, j)
  PROVE  IdAt(Session, i, j, TabAt(Session, i, j).id)
<1> SUFFICES ASSUME NEW a \in DOMAIN Session, NEW b \in DOMAIN Session[a].tabs, a # i \/ b # j,
                    TabAt(Session, a, b).id = TabAt(Session, i, j).id
             PROVE  FALSE
  BY DEF IdAt
<1>1. Session[a] \in Range(Session) /\ Session[i] \in Range(Session)
  BY DEF Range, IsPlace
<1>2. TabAt(Session, a, b) \in Range(Session[a].tabs)
      /\ TabAt(Session, i, j) \in Range(Session[i].tabs)
  BY DEF Range, IsPlace, TabAt
<1>3. Session[a] = Session[i] /\ TabAt(Session, a, b) = TabAt(Session, i, j)
  BY <1>1, <1>2, ApartAssumption
<1>4. a = i
  BY <1>3, SessionAssumption DEF DistinctIds, IsPlace
<1>5. DistinctIds(Session[i].tabs)
  BY TabsOfSession DEF IsPlace
<1>6. b = j
  BY <1>4, <1>5 DEF DistinctIds, TabAt, IsPlace
<1> QED
  BY <1>4, <1>6

\* The closes an entry records.
LEMMA TabClosesIs ==
  ASSUME TabCloses
  PROVE  \E i \in DOMAIN Session : \E j \in DOMAIN Session[i].tabs :
           ClosesTab(i, j, entry) /\ TabGone(herdr, Session, i, j)
<1>1. PICK i \in DOMAIN Session : \E tab \in Range(WorkspaceSnap(i).tabs) :
        /\ Len(Session[i].tabs) > 1
        /\ entry = Entry("tab", {ws_shell(WorkspaceSnap(i), tab)})
        /\ herdr = WithoutTab(Session, tab.tab_id)
  BY DEF TabCloses
<1>2. PICK tab \in Range(WorkspaceSnap(i).tabs) :
        /\ Len(Session[i].tabs) > 1
        /\ entry = Entry("tab", {ws_shell(WorkspaceSnap(i), tab)})
        /\ herdr = WithoutTab(Session, tab.tab_id)
  BY <1>1
<1>3. WorkspaceSnap(i).tabs = [j \in DOMAIN Session[i].tabs |-> SnapAt(i, j)]
  BY WorkspaceSnapIs
<1>4. PICK j \in DOMAIN Session[i].tabs : tab = SnapAt(i, j)
  BY <1>2, <1>3 DEF Range
<1>5. IsPlace(Session, i, j)
  BY DEF IsPlace
<1>6. tab.tab_id = TabAt(Session, i, j).id
  BY <1>4, <1>5, SnapIs
<1>7. Sound(Session, FirstNew) /\ FirstNew \in Nat
  BY SessionSound, IdAssumption
<1>8. TabGone(herdr, Session, i, j)
  BY <1>2, <1>5, <1>6, <1>7, TabOfSession, WithoutTabIs
<1> QED
  BY <1>2, <1>4, <1>5, <1>8 DEF ClosesTab

LEMMA WorkspacesCloseIs ==
  ASSUME WorkspacesClose
  PROVE  \E S \in SUBSET DOMAIN Session : ClosesWorkspaces(S, entry) /\ WorkspacesGone(S, herdr)
<1>1. PICK S \in SUBSET DOMAIN Session \ {{}} :
        /\ entry = Entry(IF Cardinality(S) = 1 THEN "workspace" ELSE "workspace_group",
           {WorkspaceSnap(i) : i \in S})
        /\ herdr = Keep(Session, DOMAIN Session \ S)
  BY DEF WorkspacesClose
<1> QED
  BY <1>1 DEF ClosesWorkspaces, WorkspacesGone, Left

\* What is left of a pane no snapshot knows.
LEMMA HydratedIs ==
  ASSUME NEW i, NEW j, IsPlace(Session, i, j),
         NEW pane \in PaneIds(TabAt(Session, i, j).layout),
         NEW e, e = Entry("pane", {Hydrated(WorkspaceSnap(i), SnapAt(i, j), pane)})
  PROVE  HydratedStory(e)
<1> SUFFICES ASSUME NEW tab, tab = SnapAt(i, j), NEW cwd,
                    cwd = tab.layout[PathOf(tab.layout, pane)].cwd,
                    NEW t, t = [tab EXCEPT !.label = None, !.index = 0,
                    !.focused_pane_id = None, !.panes = {pane},
                                           !.layout = Leaf(pane, @[PathOf(@, pane)].cwd)],
                    NEW ws, ws = WorkspaceSnap(i), NEW w, w = Hydrated(ws, tab, pane)
             PROVE  HydratedStory(e)
  OBVIOUS
<1>1. w = [ws_shell(ws, t) EXCEPT !.index = 0, !.cwd = cwd, !.active_tab_id = None]
  BY DEF Hydrated
<1>2. w.tabs = <<t>>
  BY <1>1 DEF ws_shell, WorkspaceSnap
<1>3. t.focused_pane_id = None /\ t.panes = {pane}
  BY DEF SnapAt, TabSnap
<1>4. t.layout = Leaf(pane, cwd)
  BY DEF SnapAt, TabSnap
<1>5. locate(t.layout, pane) = {}
  <2>1. DOMAIN t.layout = {<< >>}
    BY <1>4 DEF Leaf
  <2>2. {q \in Leaves(t.layout) : t.layout[q].pane_id = pane /\ q # << >>} = {}
    BY <2>1 DEF Leaves
  <2> QED
    BY <2>2 DEF locate
<1>6. pane # None
  <2>1. pane \in Old
    BY PaneOfSession
  <2> QED
    BY <2>1, IdAssumption DEF Old
<1>7. 1 \in DOMAIN w.tabs /\ Range(w.tabs) = {t}
  BY <1>2, OneIsSeq
<1>8. e.granularity = "pane" /\ e.workspaces = {w}
  BY DEF Entry
<1> QED
  BY <1>3, <1>5, <1>6, <1>7, <1>8 DEF HydratedStory

LEMMA PaneClosesIs ==
  ASSUME PaneCloses
  PROVE  \/ HydratedStory(entry)
         \/ \E i \in DOMAIN Session : \E j \in DOMAIN Session[i].tabs : \E pane \in PaneIds(TabAt(Session, i, j).layout) :
              ClosesPane(i, j, pane, entry) /\ PaneGone(i, j, pane, herdr)
<1>1. PICK i \in DOMAIN Session : \E tab \in Range(WorkspaceSnap(i).tabs) : \E pane \in tab.panes :
        /\ Cardinality(tab.panes) > 1
        /\ \/ entry = Entry("pane", {ws_shell(WorkspaceSnap(i), [tab EXCEPT !.panes = {pane}])})
           \/ entry = Entry("pane", {Hydrated(WorkspaceSnap(i), tab, pane)})
        /\ herdr = WithoutPane(Session, pane)
  BY Zenon DEF PaneCloses
<1>2. PICK tab \in Range(WorkspaceSnap(i).tabs) : \E pane \in tab.panes :
        /\ Cardinality(tab.panes) > 1
        /\ \/ entry = Entry("pane", {ws_shell(WorkspaceSnap(i), [tab EXCEPT !.panes = {pane}])})
           \/ entry = Entry("pane", {Hydrated(WorkspaceSnap(i), tab, pane)})
        /\ herdr = WithoutPane(Session, pane)
  BY <1>1, Zenon
<1>3. PICK pane \in tab.panes :
        /\ Cardinality(tab.panes) > 1
        /\ \/ entry = Entry("pane", {ws_shell(WorkspaceSnap(i), [tab EXCEPT !.panes = {pane}])})
           \/ entry = Entry("pane", {Hydrated(WorkspaceSnap(i), tab, pane)})
        /\ herdr = WithoutPane(Session, pane)
  BY <1>2, Zenon
<1>4. WorkspaceSnap(i).tabs = [j \in DOMAIN Session[i].tabs |-> SnapAt(i, j)]
  BY WorkspaceSnapIs
<1>5. PICK j \in DOMAIN Session[i].tabs : tab = SnapAt(i, j)
  BY <1>4 DEF Range
<1>6. IsPlace(Session, i, j)
  BY DEF IsPlace
<1>7. tab.panes = PaneIds(TabAt(Session, i, j).layout)
  BY <1>5, <1>6, SnapIs
<1>8. pane \in PaneIds(TabAt(Session, i, j).layout)
  BY <1>7
<1>9. PaneIds(TabAt(Session, i, j).layout) # {pane}
  <2> SUFFICES ASSUME tab.panes = {pane} PROVE FALSE
    BY <1>7
  <2>1. Cardinality(tab.panes) = 1
    BY FS_Singleton
  <2> QED
    BY <1>3, <2>1
<1>10. CASE entry = Entry("pane", {Hydrated(WorkspaceSnap(i), tab, pane)})
  BY <1>5, <1>6, <1>8, <1>10, HydratedIs
<1>11. CASE entry = Entry("pane", {ws_shell(WorkspaceSnap(i), [tab EXCEPT !.panes = {pane}])})
  <2>1. ClosesPane(i, j, pane, entry)
    BY <1>5, <1>6, <1>8, <1>9, <1>11 DEF ClosesPane
  <2>2. PaneAt(Session, i, j, pane)
    BY <1>6, <1>8, PaneOfSession
  <2>3. Sound(Session, FirstNew) /\ FirstNew \in Nat
    BY SessionSound, IdAssumption
  <2>4. OnlyTab(herdr, Session, i, j) /\ TabAt(herdr, i, j).label = TabAt(Session, i, j).label
        /\ TabAt(herdr, i, j).layout = Closed(TabAt(Session, i, j).layout, pane)
    <3> SUFFICES ASSUME NEW t, t = TabAt(Session, i, j), NEW r, r = herdr
                 PROVE  OnlyTab(r, Session, i, j) /\ TabAt(r, i, j).label = t.label
                        /\ TabAt(r, i, j).layout = Closed(t.layout, pane)
      OBVIOUS
    <3>1. r = WithoutPane(Session, pane) /\ PaneIds(t.layout) # {pane}
      BY <1>3, <1>9
    <3> QED
      BY <2>2, <2>3, <3>1, WithoutPaneIs
  <2>5. PaneGone(i, j, pane, herdr)
    BY <2>4 DEF PaneGone, InTab
  <2> QED
    BY <1>8, <2>1, <2>5
<1> QED
  BY <1>3, <1>10, <1>11

(***************************************************************************)
(* What is decided from the lists of an undisturbed session.               *)
(***************************************************************************)
WorkspaceRow(w) == [id |-> w.id, label |-> w.label]
TabRow(w, t) == [id |-> t.id, label |-> t.label, workspace |-> w.id]
PaneRow(w, t, p) == [id |-> t.layout[p].pane_id, cwd |-> t.layout[p].cwd, tab |-> t.id,
workspace |-> w.id]

LEMMA RowsAre ==
  ASSUME NEW h
  PROVE  /\ \A x : x \in WorkspaceRows(h) <=> \E a \in DOMAIN h : x = WorkspaceRow(h[a])
         /\ \A x : x \in TabRows(h) <=> \E a \in DOMAIN h : \E b \in DOMAIN h[a].tabs : x = TabRow(h[a], TabAt(h, a, b))
         /\ \A x : x \in PaneRows(h) <=>
              \E a \in DOMAIN h : \E b \in DOMAIN h[a].tabs : \E p \in Leaves(TabAt(h, a,
              b).layout) :
                x = PaneRow(h[a], TabAt(h, a, b), p)
<1>1. ASSUME NEW x PROVE x \in WorkspaceRows(h) <=> \E a \in DOMAIN h : x = WorkspaceRow(h[a])
  BY Zenon DEF WorkspaceRows, WorkspaceRow, Range
<1>2. ASSUME NEW x
      PROVE  x \in TabRows(h) <=> \E a \in DOMAIN h : \E b \in DOMAIN h[a].tabs : x = TabRow(h[a], TabAt(h, a, b))
  <2>1. x \in TabRows(h) <=> \E w \in Range(h) : \E t \in Range(w.tabs) : x = TabRow(w, t)
    <3> DEFINE G(w) == {TabRow(w, t) : t \in Range(w.tabs)}
    <3>1. TabRows(h) = UNION {G(w) : w \in Range(h)}
      BY DEF TabRows, TabRow
    <3>2. \A w : x \in G(w) <=> \E t \in Range(w.tabs) : x = TabRow(w, t)
      BY Zenon
    <3> HIDE DEF G
    <3>3. x \in UNION {G(w) : w \in Range(h)} <=> \E w \in Range(h) : x \in G(w)
      BY Zenon
    <3> QED
      BY <3>1, <3>2, <3>3
  <2> QED
    BY <2>1, Zenon DEF Range, TabAt
<1>3. ASSUME NEW x
      PROVE  x \in PaneRows(h) <=>
              \E a \in DOMAIN h : \E b \in DOMAIN h[a].tabs : \E p \in Leaves(TabAt(h, a,
              b).layout) :
                x = PaneRow(h[a], TabAt(h, a, b), p)
  <2>1. x \in PaneRows(h) <=>
          \E w \in Range(h) : \E t \in Range(w.tabs) : \E p \in Leaves(t.layout) : x = PaneRow(w, t, p)
    <3> DEFINE F(w, t) == {PaneRow(w, t, p) : p \in Leaves(t.layout)}
               G(w) == UNION {F(w, t) : t \in Range(w.tabs)}
    <3>1. PaneRows(h) = UNION {G(w) : w \in Range(h)}
      BY DEF PaneRows, PaneRow
    <3>2. \A w, t : x \in F(w, t) <=> \E p \in Leaves(t.layout) : x = PaneRow(w, t, p)
      BY Zenon
    <3> HIDE DEF F
    <3>3. \A w : x \in G(w) <=> \E t \in Range(w.tabs) : x \in F(w, t)
      BY Zenon
    <3> HIDE DEF G
    <3>4. x \in UNION {G(w) : w \in Range(h)} <=> \E w \in Range(h) : x \in G(w)
      BY Zenon
    <3> QED
      BY <3>1, <3>2, <3>3, <3>4
  <2> QED
    BY <2>1, Zenon DEF Range, TabAt
<1> QED
  BY <1>1, <1>2, <1>3

\* The workspace is found by its id and label.
LEMMA WorkspaceListed ==
  ASSUME NEW h, NEW a \in DOMAIN h, NEW l, l.workspaces = WorkspaceRows(h),
         NEW ws, ws.workspace_id = h[a].id, ws.label = h[a].label, NEW cwds
  PROVE  WorkspaceAlive(ws, cwds, l)
<1>1. WorkspaceRow(h[a]) \in l.workspaces
  BY RowsAre
<1>2. WorkspaceRow(h[a]).id = ws.workspace_id /\ WorkspaceRow(h[a]).label = ws.label
  BY DEF WorkspaceRow
<1> QED
  BY <1>1, <1>2 DEF WorkspaceAlive, same_container

LEMMA TabListed ==
  ASSUME NEW h, NEW a, NEW b, IsPlace(h, a, b), NEW l, l.tabs = TabRows(h),
         NEW tab, tab.tab_id = TabAt(h, a, b).id, tab.label = TabAt(h, a, b).label
  PROVE  TabAlive(tab, l)
<1>1. TabRow(h[a], TabAt(h, a, b)) \in l.tabs
  BY RowsAre DEF IsPlace
<1>2. TabRow(h[a], TabAt(h, a, b)).id = tab.tab_id
      /\ TabRow(h[a], TabAt(h, a, b)).label = tab.label
  BY DEF TabRow
<1> QED
  BY <1>1, <1>2 DEF TabAlive, same_container

LEMMA TabUnlisted ==
  ASSUME NEW h, NEW l, l.tabs = TabRows(h), NEW tab,
         \A a \in DOMAIN h : \A b \in DOMAIN h[a].tabs : TabAt(h, a, b).id # tab.tab_id
  PROVE  ~TabAlive(tab, l)
<1> SUFFICES ASSUME NEW t \in l.tabs, t.id = tab.tab_id PROVE FALSE
  BY DEF TabAlive
<1>1. PICK a \in DOMAIN h : \E b \in DOMAIN h[a].tabs : t = TabRow(h[a], TabAt(h, a, b))
  BY RowsAre
<1>2. PICK b \in DOMAIN h[a].tabs : t = TabRow(h[a], TabAt(h, a, b))
  BY <1>1
<1> QED
  BY <1>2 DEF TabRow

\* The tabs of a workspace are counted.
LEMMA TabsCounted ==
  ASSUME NEW h, DistinctIds(h), NEW i \in DOMAIN h, DistinctIds(h[i].tabs),
         NEW n \in Nat, DOMAIN h[i].tabs = 1 .. n, NEW l, l.tabs = TabRows(h), NEW id,
         id = h[i].id
  PROVE  Cardinality({t \in l.tabs : t.workspace = id}) = n
<1> SUFFICES ASSUME NEW T, T = {t \in l.tabs : t.workspace = id} PROVE Cardinality(T) = n
  OBVIOUS
<1> DEFINE f == [k \in 1 .. n |-> TabRow(h[i], TabAt(h, i, k))]
<1>1. \A k \in 1 .. n : f[k] \in T
  <2> SUFFICES ASSUME NEW k \in 1 .. n PROVE TabRow(h[i], TabAt(h, i, k)) \in T
    OBVIOUS
  <2>1. TabRow(h[i], TabAt(h, i, k)) \in l.tabs
    BY RowsAre
  <2>2. TabRow(h[i], TabAt(h, i, k)).workspace = id
    BY DEF TabRow
  <2> QED
    BY <2>1, <2>2
<1>2. \A t \in T : \E k \in 1 .. n : f[k] = t
  <2> SUFFICES ASSUME NEW t \in T PROVE \E k \in 1 .. n : TabRow(h[i], TabAt(h, i, k)) = t
    OBVIOUS
  <2>1. PICK a \in DOMAIN h : \E b \in DOMAIN h[a].tabs : t = TabRow(h[a], TabAt(h, a, b))
    BY RowsAre
  <2>2. PICK b \in DOMAIN h[a].tabs : t = TabRow(h[a], TabAt(h, a, b))
    BY <2>1
  <2>3. h[a].id = h[i].id
    BY <2>2 DEF TabRow
  <2>4. a = i
    BY <2>3 DEF DistinctIds
  <2> QED
    BY <2>2, <2>4
<1>3. \A j, k \in 1 .. n : f[j] = f[k] => j = k
  <2> SUFFICES ASSUME NEW j \in 1 .. n, NEW k \in 1 .. n,
                      TabRow(h[i], TabAt(h, i, j)) = TabRow(h[i], TabAt(h, i, k))
               PROVE  j = k
    OBVIOUS
  <2>1. TabAt(h, i, j).id = TabAt(h, i, k).id
    BY DEF TabRow
  <2> QED
    BY <2>1 DEF DistinctIds, TabAt
<1>4. f \in [1 .. n -> T]
  BY <1>1
<1> HIDE DEF f
<1>5. f \in Bijection(1 .. n, T)
  BY <1>2, <1>3, <1>4 DEF Bijection, Injection, Surjection, IsInjective
<1>6. IsFiniteSet(1 .. n) /\ Cardinality(1 .. n) = n
  BY FS_Interval
<1>7. ExistsBijection(1 .. n, T)
  BY <1>5 DEF ExistsBijection
<1> QED
  BY <1>6, <1>7, FS_Bijection

LEMMA TabPlanIs ==
  ASSUME NEW i, NEW j, ClosesTab(i, j, entry), NEW h, TabGone(h, Session, i, j), IsSession(h),
         DistinctIds(h),
         \A a \in DOMAIN h : DistinctIds(h[a].tabs),
         NEW l, l.workspaces = WorkspaceRows(h), l.tabs = TabRows(h)
  PROVE  Plans(l) = {<<AddCall(i, j)>>}
<1>1. IsPlace(Session, i, j) /\ entry = Entry("tab", {ws_shell(WorkspaceSnap(i), SnapAt(i, j))})
  BY DEF ClosesTab
<1> SUFFICES ASSUME NEW n, n = Len(Session[i].tabs), NEW tab, tab = SnapAt(i, j),
                    NEW ws, ws = ws_shell(WorkspaceSnap(i), tab)
             PROVE  Plans(l) = {<<AddCall(i, j)>>}
  OBVIOUS
<1>2. ws.workspace_id = Session[i].id /\ ws.label = Session[i].label /\ ws.tabs[1] = tab
  BY DEF ws_shell, WorkspaceSnap
<1>3. /\ i \in DOMAIN h /\ Others(h, Session, i) /\ n \in Nat /\ n - 1 \in Nat
         /\ DOMAIN h[i].tabs = 1 .. n - 1 /\ j \in 1 .. n
      /\ \A k \in 1 .. n - 1 : TabAt(h, i, k) = TabAt(Session, i, IF k < j THEN k ELSE k + 1)
  BY <1>1, TabGoneIs, TabsOfSession DEF IsPlace
<1>4. h[i].id = Session[i].id /\ h[i].label = Session[i].label /\ DOMAIN h = DOMAIN Session
      /\ \A a \in DOMAIN h : a # i => h[a] = Session[a]
  BY <1>3 DEF Others, Alike
<1>5. WorkspaceAlive(ws, leaf_cwds(tab.layout), l)
  BY <1>2, <1>3, <1>4, WorkspaceListed
<1>6. ~TabAlive(tab, l)
  <2>1. tab.tab_id = TabAt(Session, i, j).id
    BY <1>1, SnapIs
  <2>2. IdAt(Session, i, j, tab.tab_id)
    BY <1>1, <2>1, TabOfSession
  <2>3. ASSUME NEW a \in DOMAIN h, NEW b \in DOMAIN h[a].tabs PROVE TabAt(h, a,
               b).id # tab.tab_id
    <3>1. CASE a # i
      BY <1>4, <2>2, <2>3, <3>1 DEF IdAt, TabAt
    <3>2. CASE a = i
      <4>1. DOMAIN Session[i].tabs = 1 .. n
        BY <1>1, TabsOfSession DEF IsPlace
      <4>2. b \in 1 .. n - 1
        BY <1>3, <2>3, <3>2
      <4>3. PICK k \in 1 .. n : k # j /\ TabAt(h, i, b) = TabAt(Session, i, k)
        <5>1. CASE b < j
          BY <1>3, <4>2, <5>1
        <5>2. CASE ~(b < j)
          BY <1>3, <4>2, <5>2
        <5> QED
          BY <5>1, <5>2
      <4>4. i \in DOMAIN Session
        BY <1>1 DEF IsPlace
      <4> QED
        BY <2>2, <3>2, <4>1, <4>3, <4>4 DEF IdAt
    <3> QED
      BY <3>1, <3>2
  <2> QED
    BY <2>3, TabUnlisted
<1>7. Cardinality({t \in l.tabs : t.workspace = Session[i].id}) + 1 = n
  BY <1>3, <1>4, TabsCounted
<1>8. create_tab_from_layout(ws.workspace_id, tab, l) = AddCall(i, j)
  <2>1. tab.label = TabAt(Session, i, j).label
    BY <1>1, SnapIs
  <2> QED
    BY <1>2, <1>7, <2>1 DEF create_tab_from_layout, AddCall
<1>9. restore_tab_granularity(ws, l) = <<AddCall(i, j)>>
  BY <1>2, <1>5, <1>6, <1>8 DEF restore_tab_granularity
<1>10. entry.granularity = "tab" /\ entry.workspaces = {ws}
  BY <1>1 DEF Entry
<1> QED
  BY <1>9, <1>10 DEF Plans

\* The panes of a tab are listed by its id.
LEMMA PanesListed ==
  ASSUME NEW h, NEW i, NEW j, NEW id, IdAt(h, i, j, id), NEW l, l.panes = PaneRows(h)
  PROVE  {p.id : p \in {q \in l.panes : q.tab = id}} = PaneIds(TabAt(h, i, j).layout)
<1> SUFFICES ASSUME NEW R, R = {q \in l.panes : q.tab = id}
             PROVE  {p.id : p \in R} = PaneIds(TabAt(h, i, j).layout)
  OBVIOUS
<1>1. i \in DOMAIN h /\ j \in DOMAIN h[i].tabs /\ TabAt(h, i, j).id = id
  BY DEF IdAt, IsPlace
<1>2. ASSUME NEW r \in R PROVE r.id \in PaneIds(TabAt(h, i, j).layout)
  <2>1. PICK a \in DOMAIN h : \E b \in DOMAIN h[a].tabs : \E p \in Leaves(TabAt(h, a,
        b).layout) :
               r = PaneRow(h[a], TabAt(h, a, b), p)
    BY RowsAre
  <2>2. PICK b \in DOMAIN h[a].tabs : \E p \in Leaves(TabAt(h, a,
        b).layout) : r = PaneRow(h[a], TabAt(h, a, b), p)
    BY <2>1
  <2>3. PICK p \in Leaves(TabAt(h, a, b).layout) : r = PaneRow(h[a], TabAt(h, a, b), p)
    BY <2>2
  <2>4. TabAt(h, a, b).id = id
    BY <2>3 DEF PaneRow
  <2>5. a = i /\ b = j
    BY <2>4 DEF IdAt
  <2> QED
    BY <2>3, <2>5 DEF PaneRow, PaneIds
<1>3. ASSUME NEW x \in PaneIds(TabAt(h, i, j).layout) PROVE \E r \in R : r.id = x
  <2>1. PICK p \in Leaves(TabAt(h, i, j).layout) : TabAt(h, i, j).layout[p].pane_id = x
    BY DEF PaneIds
  <2> DEFINE r == PaneRow(h[i], TabAt(h, i, j), p)
  <2>2. r \in l.panes
    BY <1>1, RowsAre
  <2>3. r.tab = id /\ r.id = x
    BY <1>1, <2>1 DEF PaneRow
  <2> HIDE DEF r
  <2> QED
    BY <2>2, <2>3
<1> QED
  BY <1>2, <1>3

\* The split depends on the layout, not on the panes that are to come back.
BesideOf(found, cwd, pane, first_pane, live_panes) ==
  LET place    == IF found = {}
                  THEN [direction |-> "right", ratio |-> 5, side |-> Second, sibling |-> << >>]
                  ELSE CHOOSE f \in found : TRUE
      siblings == leaf_pane_ids(place.sibling)
      there    == Keep(siblings, {k \in DOMAIN siblings : siblings[k] \in live_panes})
      anchor   == IF there = << >> THEN first_pane ELSE there[1]
      single   == siblings = <<anchor>>
  IN  [call |-> "pane.split", target |-> anchor, direction |-> place.direction,
       ratio |-> IF place.side = First /\ ~single THEN Complement(place.ratio) ELSE place.ratio,
       pane |-> pane, cwd |-> cwd, swap |-> place.side = First /\ single]

LEMMA SameSplit ==
  ASSUME NEW s, NEW t, s.layout = t.layout, NEW pane, NEW first, NEW panes
  PROVE  split_beside(s, pane, first, panes) = split_beside(t, pane, first, panes)
<1>1. \A tab : split_beside(tab, pane, first, panes)
                = BesideOf(locate(tab.layout, pane), tab.layout[PathOf(tab.layout, pane)].cwd,
                pane, first, panes)
  BY DEF split_beside, BesideOf
<1> QED
  BY <1>1

SplitCallsOf(tab, pane, panes) == {<<split_beside(tab, pane, first, panes)>> : first \in panes}
SplitCalls(i, j, pane,
panes) == {<<split_beside(SnapAt(i, j), pane, first, panes)>> : first \in panes}

LEMMA PanePlanIs ==
  ASSUME NEW i, NEW j, NEW pane, ClosesPane(i, j, pane, entry), NEW h, PaneGone(i, j, pane, h),
         NEW l, l.tabs = TabRows(h), l.panes = PaneRows(h)
  PROVE  Plans(l) = SplitCalls(i, j, pane, PaneIds(TabAt(h, i, j).layout))
<1>1. IsPlace(Session, i, j)
      /\ entry = Entry("pane",
         {ws_shell(WorkspaceSnap(i), [SnapAt(i, j) EXCEPT !.panes = {pane}])})
  BY DEF ClosesPane
<1> SUFFICES ASSUME NEW snap, snap = SnapAt(i, j), NEW tab,
                    tab = [snap EXCEPT !.panes = {pane}],
                    NEW ws, ws = ws_shell(WorkspaceSnap(i), tab),
                    NEW panes, panes = PaneIds(TabAt(h, i, j).layout)
             PROVE  Plans(l) = SplitCalls(i, j, pane, panes)
  OBVIOUS
<1>2. ws.tabs[1] = tab
  BY DEF ws_shell, WorkspaceSnap
<1>3. tab.panes = {pane} /\ tab.tab_id = snap.tab_id /\ tab.label = snap.label
      /\ tab.layout = snap.layout
  BY DEF SnapAt, TabSnap
<1>4. snap.tab_id = TabAt(Session, i, j).id /\ snap.label = TabAt(Session, i, j).label
  BY <1>1, SnapIs
<1>5. InTab(i, j, h)
  BY DEF PaneGone
<1>6. IsPlace(h, i, j) /\ TabAt(h, i, j).id = TabAt(Session, i, j).id
      /\ TabAt(h, i, j).label = TabAt(Session, i, j).label
  BY <1>1, <1>5, InTabIs DEF InTab, OnlyTab, TabAt
<1>7. TabAlive(tab, l)
  <2>1. tab.tab_id = TabAt(h, i, j).id /\ tab.label = TabAt(h, i, j).label
    BY <1>3, <1>4, <1>6
  <2> QED
    BY <1>6, <2>1, TabListed
<1>8. IdAt(h, i, j, tab.tab_id)
  <2>1. IdAt(Session, i, j, tab.tab_id)
    BY <1>1, <1>3, <1>4, TabOfSession
  <2>2. ASSUME NEW a \in DOMAIN h, NEW b \in DOMAIN h[a].tabs, a # i \/ b # j
        PROVE  TabAt(h, a, b).id # tab.tab_id
    <3>1. a \in DOMAIN Session /\ b \in DOMAIN Session[a].tabs
          /\ TabAt(h, a, b) = TabAt(Session, a, b)
      BY <1>5, <2>2 DEF InTab, OnlyTab, TabAt
    <3> QED
      BY <2>1, <2>2, <3>1 DEF IdAt
  <2> QED
    BY <1>3, <1>4, <1>6, <2>2 DEF IdAt
<1>9. {p.id : p \in {q \in l.panes : q.tab = tab.tab_id}} = panes
  BY <1>8, PanesListed
<1>10. (CHOOSE p \in tab.panes : TRUE) = pane
  BY <1>3
<1>11. SplitCallsOf(tab, pane, panes) = SplitCalls(i, j, pane, panes)
  <2>1. \A first : split_beside(tab, pane, first, panes) = split_beside(snap, pane, first,
        panes)
    <3>1. tab.layout = snap.layout
      BY <1>3
    <3> QED
      BY ONLY <3>1, SameSplit
  <2> QED
    BY <2>1 DEF SplitCalls, SplitCallsOf
<1>12. restore_pane_granularity(ws, l)
         = IF TabAlive(ws.tabs[1], l)
           THEN SplitCallsOf(ws.tabs[1], CHOOSE p \in ws.tabs[1].panes : TRUE,
                             {p.id : p \in {q \in l.panes : q.tab = ws.tabs[1].tab_id}})
           ELSE {restore_tab_granularity(ws_shell(ws, [ws.tabs[1] EXCEPT
                   !.layout = Leaf(CHOOSE p \in ws.tabs[1].panes : TRUE,
                                   @[PathOf(@, CHOOSE p \in ws.tabs[1].panes : TRUE)].cwd)]),
                                   l)}
  BY DEF restore_pane_granularity, SplitCallsOf
<1>13. restore_pane_granularity(ws, l) = SplitCalls(i, j, pane, panes)
  <2>1. restore_pane_granularity(ws, l)
          = SplitCallsOf(tab, CHOOSE p \in tab.panes : TRUE,
          {p.id : p \in {q \in l.panes : q.tab = tab.tab_id}})
    BY <1>2, <1>7, <1>12
  <2> QED
    BY <1>9, <1>10, <1>11, <2>1
<1>14. entry.granularity = "pane" /\ entry.workspaces = {ws}
  BY <1>1 DEF Entry
<1>15. Plans(l) = UNION {restore_pane_granularity(v, l) : v \in {ws}}
  BY <1>14 DEF Plans
<1> QED
  BY <1>13, <1>15

LEMMA WorkspacesPlanIs ==
  ASSUME NEW S, ClosesWorkspaces(S, entry), NEW l
  PROVE  Plans(l) = {Each(S, 0)}
<1>1. S \in SUBSET DOMAIN Session
      /\ entry = Entry(IF Cardinality(S) = 1 THEN "workspace" ELSE "workspace_group",
         {WorkspaceSnap(i) : i \in S})
  BY DEF ClosesWorkspaces
<1>2. entry.granularity # "pane" /\ entry.granularity # "tab"
      /\ entry.workspaces = {WorkspaceSnap(i) : i \in S}
  BY <1>1 DEF Entry
<1>3. {WorkspaceSnap(Pos(S, k)) : k \in 0 + 1 .. Cardinality(S)} = {WorkspaceSnap(i) : i \in S}
  <2>1. /\ Cardinality(S) \in Nat /\ \A k \in 1 .. Cardinality(S) : Pos(S, k) \in S
        /\ \A i \in S : \E k \in 1 .. Cardinality(S) : Pos(S, k) = i
    BY <1>1, ClosedIs
  <2> DEFINE A == {WorkspaceSnap(Pos(S, k)) : k \in 0 + 1 .. Cardinality(S)}
             B == {WorkspaceSnap(i) : i \in S}
  <2>2. \A x \in A : x \in B
    BY <2>1
  <2>3. ASSUME NEW i \in S PROVE WorkspaceSnap(i) \in A
    <3>1. PICK k \in 1 .. Cardinality(S) : Pos(S, k) = i
      BY <2>1, <2>3
    <3> QED
      BY <2>1, <3>1
  <2> QED
    BY <2>2, <2>3
<1>4. Plans(l) = {RestoreEach(entry.workspaces)}
  BY <1>2 DEF Plans
<1> QED
  BY <1>2, <1>3, <1>4 DEF Each

Told == HydratedStory(entry) \/ TabTold \/ PaneTold \/ WorkspacesTold

LEMMA StoryBegins == ASSUME Init PROVE Story
<1>1. pc = "idle" /\ next = FirstNew /\ calls = << >>
      /\ live = [workspaces |-> {}, tabs |-> {}, panes |-> {}]
  BY DEF Init
<1>2. Listed
  BY <1>1 DEF Listed
<1>3. CASE TabCloses
  BY <1>1, <1>2, <1>3, TabClosesIs DEF Story, TabTold
<1>4. CASE WorkspacesClose
  <2>1. PICK S \in SUBSET DOMAIN Session : ClosesWorkspaces(S, entry)
        /\ WorkspacesGone(S, herdr)
    BY <1>4, WorkspacesCloseIs
  <2>2. WorkspacesTold
    BY <1>1, <2>1 DEF WorkspacesTold
  <2> QED
    BY <1>1, <1>2, <2>2 DEF Story
<1>5. CASE PaneCloses
  <2>1. HydratedStory(entry) \/ PaneTold
    BY <1>1, <1>5, PaneClosesIs DEF PaneTold
  <2> QED
    BY <1>1, <1>2, <2>1 DEF Story
<1> QED
  BY <1>3, <1>4, <1>5 DEF Init

\* The lists are read one after the other.
LEMMA ReadStep ==
  ASSUME Listed, Told, Reads, UNCHANGED <<herdr, next, entry, calls, created, occupied>>
  PROVE  Listed' /\ Told'
<1>1. live = [workspaces |-> live.workspaces, tabs |-> live.tabs, panes |-> live.panes]
  BY DEF Listed
<1>2. Listed'
  <2>1. CASE pc = "idle" /\ pc' = "workspaces" /\ UNCHANGED live
    BY <2>1 DEF Listed
  <2>2. CASE pc = "workspaces" /\ pc' = "tabs"
        /\ live' = [live EXCEPT !.workspaces = WorkspaceRows(herdr)]
    <3>1. live'.workspaces = WorkspaceRows(herdr)
          /\ live' = [workspaces |-> live'.workspaces, tabs |-> live'.tabs,
             panes |-> live'.panes]
      BY <1>1, <2>2
    <3> QED
      BY <2>2, <3>1 DEF Listed, WorkspaceRows
  <2>3. CASE pc = "tabs" /\ pc' = "panes" /\ live' = [live EXCEPT !.tabs = TabRows(herdr)]
    <3>1. live'.workspaces = live.workspaces /\ live'.tabs = TabRows(herdr)
          /\ live' = [workspaces |-> live'.workspaces, tabs |-> live'.tabs,
             panes |-> live'.panes]
      BY <1>1, <2>3
    <3> QED
      BY <2>3, <3>1 DEF Listed, WorkspaceRows, TabRows
  <2> QED
    BY <2>1, <2>2, <2>3 DEF Reads
<1>3. pc \in {"idle", "workspaces", "tabs"} /\ pc' \in {"workspaces", "tabs", "panes"}
  BY DEF Reads
<1>4. ASSUME HydratedStory(entry) PROVE HydratedStory(entry')
  BY <1>4
<1>5. ASSUME TabTold PROVE TabTold'
  BY <1>3, <1>5 DEF TabTold
<1>6. ASSUME PaneTold PROVE PaneTold'
  <2>1. calls = << >>
    BY <1>3 DEF Listed
  <2> QED
    BY <1>3, <1>6, <2>1 DEF PaneTold
<1>7. ASSUME WorkspacesTold PROVE WorkspacesTold'
  BY <1>3, <1>7 DEF WorkspacesTold
<1>8. HydratedStory(entry)' \/ TabTold' \/ PaneTold' \/ WorkspacesTold'
  BY <1>4, <1>5, <1>6, <1>7 DEF Told
<1> QED
  BY <1>2, <1>8 DEF Told

\* Then it is decided what to call.
LEMMA DecideStep ==
  ASSUME HerdrInv, Listed, Told, Decides, UNCHANGED <<herdr, next, entry, created, occupied>>
  PROVE  Listed' /\ Told'
<1>1. pc = "panes" /\ pc' = "calling" /\ live' = [live EXCEPT !.panes = PaneRows(herdr)]
  BY DEF Decides
<1>2. /\ live = [workspaces |-> live.workspaces, tabs |-> live.tabs, panes |-> live.panes]
      /\ live.workspaces = WorkspaceRows(herdr) /\ live.tabs = TabRows(herdr)
         /\ calls = << >> /\ next = FirstNew
  BY <1>1 DEF Listed
<1>3. /\ live'.workspaces = WorkspaceRows(herdr) /\ live'.tabs = TabRows(herdr)
         /\ live'.panes = PaneRows(herdr)
      /\ live' = [workspaces |-> live'.workspaces, tabs |-> live'.tabs, panes |-> live'.panes]
  BY <1>1, <1>2
<1>4. Listed'
  BY <1>1, <1>3 DEF Listed
<1>5. \A p : Plans(live') = {p} => calls' = p
  BY DEF Decides
<1>6. Sound(herdr, next) /\ next \in Nat
  BY DEF HerdrInv
<1>7. ASSUME TabTold PROVE TabTold'
  <2>1. PICK i \in DOMAIN Session : \E j \in DOMAIN Session[i].tabs : ClosesTab(i, j, entry)
        /\ TabGone(herdr, Session, i, j)
    BY <1>1, <1>7 DEF TabTold
  <2>2. PICK j \in DOMAIN Session[i].tabs : ClosesTab(i, j, entry)
        /\ TabGone(herdr, Session, i, j)
    BY <2>1
  <2>3. IsSession(herdr) /\ DistinctIds(herdr)
        /\ \A a \in DOMAIN herdr : DistinctIds(herdr[a].tabs)
    BY <1>6 DEF Sound, Numbered
  <2>4. Plans(live') = {<<AddCall(i, j)>>}
    BY <1>3, <2>2, <2>3, TabPlanIs
  <2>5. AddingTab(i, j, herdr, calls')
    BY <1>5, <2>2, <2>4 DEF AddingTab, AddCall
  <2>6. TabStory(i, j, herdr, calls', occupied)
    BY <2>5 DEF TabStory
  <2>7. \E a \in DOMAIN Session : \E b \in DOMAIN Session[a].tabs : ClosesTab(a, b, entry')
        /\ TabStory(a, b, herdr', calls', occupied')
    BY <2>2, <2>6
  <2> QED
    BY <1>1, <2>7 DEF TabTold
<1>8. ASSUME PaneTold PROVE PaneTold'
  <2>1. PICK i \in DOMAIN Session : \E j \in DOMAIN Session[i].tabs : \E pane \in PaneIds(TabAt(Session, i, j).layout) :
               ClosesPane(i, j, pane, entry) /\ PaneGone(i, j, pane, herdr)
    BY <1>1, <1>8 DEF PaneTold
  <2>2. PICK j \in DOMAIN Session[i].tabs : \E pane \in PaneIds(TabAt(Session, i, j).layout) :
               ClosesPane(i, j, pane, entry) /\ PaneGone(i, j, pane, herdr)
    BY <2>1
  <2>3. PICK pane \in PaneIds(TabAt(Session, i, j).layout) : ClosesPane(i, j, pane, entry)
        /\ PaneGone(i, j, pane, herdr)
    BY <2>2
  <2>4. Plans(live') = SplitCalls(i, j, pane, PaneIds(TabAt(herdr, i, j).layout))
    BY <1>3, <2>3, PanePlanIs
  <2>5. PaneIds(TabAt(herdr, i, j).layout) # {}
    <3>1. IsPlace(herdr, i, j)
      BY <2>3, InTabIs DEF PaneGone, ClosesPane
    <3>2. Leaves(herdr[i].tabs[j].layout) # {}
      BY <1>6, <3>1, SoundTabs DEF IsPlace
    <3> QED
      BY <3>2 DEF PaneIds, TabAt
  <2>6. Plans(live') # {}
    BY <2>4, <2>5 DEF SplitCalls
  <2>7. calls' \in SplitCalls(i, j, pane, PaneIds(TabAt(herdr, i, j).layout))
    BY <2>4, <2>6 DEF Decides
  <2>8. Splitting(i, j, pane, herdr, calls')
    BY <2>3, <2>7 DEF Splitting, SplitCalls
  <2>9. PaneStory(i, j, pane, herdr, calls', occupied)
    BY <2>8 DEF PaneStory
  <2>10. \E a \in DOMAIN Session : \E b \in DOMAIN Session[a].tabs : \E x \in PaneIds(TabAt(Session, a, b).layout) :
           ClosesPane(a, b, x, entry') /\ PaneStory(a, b, x, herdr', calls', occupied')
    BY <2>3, <2>9
  <2> QED
    BY <1>1, <1>2, <2>10 DEF PaneTold
<1>9. ASSUME WorkspacesTold PROVE WorkspacesTold'
  <2>1. PICK S \in SUBSET DOMAIN Session : ClosesWorkspaces(S, entry)
        /\ WorkspacesGone(S, herdr)
    BY <1>1, <1>9 DEF WorkspacesTold
  <2>2. calls' = Each(S, 0)
    BY <1>5, <2>1, WorkspacesPlanIs
  <2>3. herdr = Keep(Session, Left(S))
    BY <2>1 DEF WorkspacesGone
  <2>4. Unlisted(S, live')
    BY <1>3, <2>3 DEF Unlisted
  <2>5. /\ IsSeq(Session) /\ Cardinality(S) \in Nat /\ Cardinality(Left(S)) \in Nat
           /\ Left(S) \in SUBSET DOMAIN Session
    BY ClosedIs
  <2>6. DOMAIN herdr = 1 .. Cardinality(Left(S)) /\ Len(herdr) = Cardinality(Left(S))
    BY <2>3, <2>5, KeepAt
  <2>7. At(S, 0) = Cardinality(Left(S))
    BY <2>5 DEF At
  <2>8. SomeBack(S, 0, herdr, occupied)
    BY <2>3, <2>5, <2>6, <2>7 DEF SomeBack
  <2>9. BetweenWorkspaces(S, 0, herdr, calls', occupied)
    BY <2>2, <2>6, <2>7, <2>8 DEF BetweenWorkspaces
  <2>10. WorkspaceStory(S, herdr, calls', created, occupied)
    BY <2>5, <2>9 DEF WorkspaceStory
  <2>11. ClosesWorkspaces(S, entry')
         /\ WorkspaceStory(S, herdr', calls', created', occupied') /\ Unlisted(S, live')
    BY <2>1, <2>4, <2>10
  <2> QED
    BY <1>1, <2>11 DEF WorkspacesTold
<1>10. ASSUME HydratedStory(entry) PROVE HydratedStory(entry')
  BY <1>10
<1>11. HydratedStory(entry)' \/ TabTold' \/ PaneTold' \/ WorkspacesTold'
  BY <1>7, <1>8, <1>9, <1>10 DEF Told
<1> QED
  BY <1>4, <1>11 DEF Told

\* Each call leads on.
LEMMA CallStep ==
  ASSUME ReopenInv, Calm, Calm', [Next]_vars, ~UNCHANGED vars, pc = "calling", calls # << >>,
         Listed, Told
  PROVE  Listed' /\ Told' /\ UNCHANGED <<entry, pc, live>>
<1>1. UNCHANGED <<entry, pc, live>>
  BY CallKeeps
<1>2. Listed'
  BY <1>1 DEF Listed
<1>3. ASSUME TabTold PROVE TabTold'
  <2>1. PICK i \in DOMAIN Session : \E j \in DOMAIN Session[i].tabs : ClosesTab(i, j, entry)
        /\ TabStory(i, j, herdr, calls, occupied)
    BY <1>3 DEF TabTold
  <2>2. PICK j \in DOMAIN Session[i].tabs : ClosesTab(i, j, entry)
        /\ TabStory(i, j, herdr, calls, occupied)
    BY <2>1
  <2>3. TabStory(i, j, herdr', calls', occupied')
    BY <2>2, TabStep
  <2>4. \E a \in DOMAIN Session : \E b \in DOMAIN Session[a].tabs : ClosesTab(a, b, entry')
        /\ TabStory(a, b, herdr', calls', occupied')
    BY <1>1, <2>2, <2>3
  <2> QED
    BY <1>1, <2>4 DEF TabTold
<1>4. ASSUME PaneTold PROVE PaneTold'
  <2>1. PICK i \in DOMAIN Session : \E j \in DOMAIN Session[i].tabs : \E pane \in PaneIds(TabAt(Session, i, j).layout) :
               /\ ClosesPane(i, j, pane, entry) /\ PaneStory(i, j, pane, herdr, calls, occupied)
               /\ Head(calls).call # "pane.split" \/ next = FirstNew
    BY <1>4 DEF PaneTold
  <2>2. PICK j \in DOMAIN Session[i].tabs : \E pane \in PaneIds(TabAt(Session, i, j).layout) :
               /\ ClosesPane(i, j, pane, entry) /\ PaneStory(i, j, pane, herdr, calls, occupied)
               /\ Head(calls).call # "pane.split" \/ next = FirstNew
    BY <2>1
  <2>3. PICK pane \in PaneIds(TabAt(Session, i, j).layout) :
               /\ ClosesPane(i, j, pane, entry) /\ PaneStory(i, j, pane, herdr, calls, occupied)
               /\ Head(calls).call # "pane.split" \/ next = FirstNew
    BY <2>2
  <2>4. PaneStory(i, j, pane, herdr', calls', occupied')
        /\ (calls' = << >> \/ Head(calls').call # "pane.split")
    BY <2>3, PaneStep
  <2>5. \E a \in DOMAIN Session : \E b \in DOMAIN Session[a].tabs : \E x \in PaneIds(TabAt(Session, a, b).layout) :
           ClosesPane(a, b, x, entry') /\ PaneStory(a, b, x, herdr', calls', occupied')
    BY <1>1, <2>3, <2>4
  <2> QED
    BY <1>1, <2>4, <2>5 DEF PaneTold
<1>5. ASSUME WorkspacesTold PROVE WorkspacesTold'
  <2>1. PICK S \in SUBSET DOMAIN Session :
          ClosesWorkspaces(S, entry) /\ WorkspaceStory(S, herdr, calls, created, occupied)
          /\ Unlisted(S, live)
    BY <1>5 DEF WorkspacesTold
  <2>2. WorkspaceStory(S, herdr', calls', created', occupied')
    BY <2>1, WorkspaceStep
  <2>3. ClosesWorkspaces(S, entry') /\ Unlisted(S, live')
    BY <1>1, <2>1
  <2> QED
    BY <1>1, <2>2, <2>3 DEF WorkspacesTold
<1>6. ASSUME HydratedStory(entry) PROVE HydratedStory(entry')
  BY <1>1, <1>6
<1>7. HydratedStory(entry)' \/ TabTold' \/ PaneTold' \/ WorkspacesTold'
  BY <1>3, <1>4, <1>5, <1>6 DEF Told
<1> QED
  BY <1>1, <1>2, <1>7 DEF Told

\* When none is left the reopen is over.
LEMMA EndStep ==
  ASSUME Listed, Told, pc = "calling", pc' = "over", calls = << >>,
         UNCHANGED <<herdr, next, entry, live, calls, created, occupied>>
  PROVE  Listed' /\ Told'
<1>1. Listed'
  BY DEF Listed
<1>2. ASSUME TabTold PROVE TabTold'
  BY <1>2 DEF TabTold
<1>3. ASSUME PaneTold PROVE PaneTold'
  BY <1>3 DEF PaneTold
<1>4. ASSUME WorkspacesTold PROVE WorkspacesTold'
  BY <1>4 DEF WorkspacesTold
<1>5. ASSUME HydratedStory(entry) PROVE HydratedStory(entry')
  BY <1>5
<1>6. HydratedStory(entry)' \/ TabTold' \/ PaneTold' \/ WorkspacesTold'
  BY <1>2, <1>3, <1>4, <1>5 DEF Told
<1> QED
  BY <1>1, <1>6 DEF Told

LEMMA StoryStays == ASSUME ReopenInv, ModeInv, Story, [Next]_vars PROVE Story'
<1> SUFFICES ASSUME Calm' PROVE Listed' /\ pc' # "dead" /\ Told'
  BY DEF Story, Told
<1>1. Calm
  BY CalmBackwards
<1>2. Listed /\ pc # "dead" /\ Told
  BY <1>1 DEF Story, Told
<1>3. CASE UNCHANGED vars
  <2>1. UNCHANGED <<herdr, next, entry, pc, live, calls, created, occupied>>
    BY <1>3 DEF vars, reply
  <2>2. Listed'
    BY <1>2, <2>1 DEF Listed, WorkspaceRows, TabRows
  <2>3. Told'
    BY <1>2, <2>1 DEF Told, TabTold, PaneTold, WorkspacesTold
  <2> QED
    BY <1>2, <2>1, <2>2, <2>3
<1>4. CASE ~UNCHANGED vars /\ pc = "calling" /\ calls # << >>
  BY <1>1, <1>2, <1>4, CallStep
<1>5. CASE ~UNCHANGED vars /\ ~(pc = "calling" /\ calls # << >>)
  <2>1. CASE Reads /\ UNCHANGED <<herdr, next, entry, calls, created, occupied>>
    <3>1. pc' # "dead"
      BY <2>1 DEF Reads
    <3> QED
      BY <1>2, <2>1, <3>1, ReadStep
  <2>2. CASE Decides /\ UNCHANGED <<herdr, next, entry, created, occupied>>
    <3>1. pc' # "dead" /\ HerdrInv
      BY <2>2 DEF Decides, ReopenInv
    <3> QED
      BY <1>2, <2>2, <3>1, DecideStep
  <2>3. CASE pc = "calling" /\ pc' = "over"
        /\ UNCHANGED <<herdr, next, entry, live, calls, created, occupied>>
    <3>1. calls = << >>
      BY <1>5, <2>3
    <3> QED
      BY <1>2, <2>3, <3>1, EndStep
  <2> QED
    BY <1>1, <1>5, <2>1, <2>2, <2>3, CalmBefore
<1> QED
  BY <1>3, <1>4, <1>5

\* A close and its reopen with nothing in between follow one story: of what closed, the
\* session holds what the calls made so far have brought back and no more, the calls left
\* are those that bring back the rest, and every remembered pane that is back is known
\* under its new id (restore.rs run and the handlers of its replies).
THEOREM ReopenStory == Spec => []Story
<1>1. Init => Story
  BY StoryBegins
<1>2. ReopenInv /\ ModeInv /\ Story /\ [Next]_vars => Story'
  BY StoryStays
<1> QED
  BY <1>1, <1>2, ReopenInvariant, ModeInvariant, PTL DEF Spec

(***************************************************************************)
(* How an undisturbed reopen ends.                                         *)
(***************************************************************************)
\* What RoundTrip says of the session it ends with.
IsAsBefore(h) ==
  LET stayed == {i \in DOMAIN Session : Session[i].id \in IdsIn(h)}
      wanted == Keep(Session, stayed) \o Keep(Session, DOMAIN Session \ stayed)
  IN  [i \in DOMAIN h |-> Look(h[i])] = [i \in DOMAIN wanted |-> Look(wanted[i])]

LEMMA SameLook ==
  ASSUME NEW u, NEW w, effective_ws_label(u.label, u.cwd) = effective_ws_label(w.label, w.cwd),
         DOMAIN u.tabs = DOMAIN w.tabs,
         \A j \in DOMAIN w.tabs : /\ effective_tab_label(u.tabs[j].label) = effective_tab_label(w.tabs[j].label)
                                  /\ strip_pane_ids(u.tabs[j].layout) = strip_pane_ids(w.tabs[j].layout)
  PROVE  Look(u) = Look(w)
<1> DEFINE T(v) == [j \in DOMAIN v.tabs |-> [label  |-> effective_tab_label(v.tabs[j].label),
                                             layout |-> strip_pane_ids(v.tabs[j].layout)]]
<1>1. T(u) = T(w)
  OBVIOUS
<1>2. \A v : Look(v) = [label |-> effective_ws_label(v.label, v.cwd), tabs |-> T(v)]
  BY DEF Look
<1> HIDE DEF T
<1> QED
  BY <1>1, <1>2

\* Every workspace is where it was.
LEMMA AllInPlace ==
  ASSUME NEW h, DOMAIN h = DOMAIN Session,
         \A i \in DOMAIN Session : h[i].id = Session[i].id /\ Look(h[i]) = Look(Session[i])
  PROVE  IsAsBefore(h)
<1> DEFINE stayed == {i \in DOMAIN Session : Session[i].id \in IdsIn(h)}
<1>1. stayed = DOMAIN Session
  BY DEF IdsIn
<1>2. IsSeq(Session) /\ DOMAIN Session \ DOMAIN Session = {}
  BY SessionAssumption DEF IsSeq
<1>3. Keep(Session, DOMAIN Session) \o Keep(Session, {}) = Session
  BY <1>2, KeepAll, KeepNone, FirstOfConcat
<1>4. Keep(Session, stayed) \o Keep(Session, DOMAIN Session \ stayed) = Session
  BY <1>1, <1>2, <1>3
<1> QED
  BY <1>4 DEF IsAsBefore

LEMMA TabRound ==
  ASSUME NEW i, NEW j, IsPlace(Session, i, j), NEW h, NEW c, NEW o, TabThere(i, j, h, c, o)
  PROVE  IsAsBefore(h)
<1>1. /\ DOMAIN h = DOMAIN Session /\ Alike(h[i], Session[i])
         /\ \A a \in DOMAIN Session : a # i => h[a] = Session[a]
      /\ DOMAIN h[i].tabs = DOMAIN Session[i].tabs
      /\ \A k \in DOMAIN Session[i].tabs : k # j => TabAt(h, i, k) = TabAt(Session, i, k)
  BY DEF TabThere, TabInPlace, Others
<1>2. /\ effective_tab_label(TabAt(h, i, j).label) = effective_tab_label(TabAt(Session, i,
         j).label)
      /\ strip_pane_ids(TabAt(h, i, j).layout) = strip_pane_ids(TabAt(Session, i, j).layout)
  BY DEF TabThere, TabBack, Named
<1>3. Look(h[i]) = Look(Session[i])
  BY <1>1, <1>2, SameLook DEF Alike, TabAt
<1>4. \A a \in DOMAIN Session : h[a].id = Session[a].id /\ Look(h[a]) = Look(Session[a])
  BY <1>1, <1>3 DEF Alike
<1> QED
  BY <1>1, <1>4, AllInPlace

LEMMA PaneRound ==
  ASSUME NEW i, NEW j, IsPlace(Session, i, j), NEW pane, NEW h, NEW c, NEW o,
         PaneThere(i, j, pane, h, c, o),
         IsBesideOne(TabAt(Session, i, j).layout, pane)
  PROVE  IsAsBefore(h)
<1>1. OnlyTab(h, Session, i, j) /\ TabAt(h, i, j).label = TabAt(Session, i, j).label
      /\ strip_pane_ids(TabAt(h, i, j).layout) = strip_pane_ids(TabAt(Session, i, j).layout)
  BY DEF PaneThere, PaneBeside, PaneIn, InTab, Looks
<1>2. /\ DOMAIN h = DOMAIN Session /\ Alike(h[i], Session[i])
         /\ \A a \in DOMAIN Session : a # i => h[a] = Session[a]
      /\ DOMAIN h[i].tabs = DOMAIN Session[i].tabs
      /\ \A k \in DOMAIN Session[i].tabs : k # j => TabAt(h, i, k) = TabAt(Session, i, k)
  BY <1>1 DEF OnlyTab, TabAt
<1>3. Look(h[i]) = Look(Session[i])
  BY <1>1, <1>2, SameLook DEF Alike, TabAt
<1>4. \A a \in DOMAIN Session : h[a].id = Session[a].id /\ Look(h[a]) = Look(Session[a])
  BY <1>2, <1>3 DEF Alike
<1> QED
  BY <1>2, <1>4, AllInPlace

\* What stayed comes first, then what closed, each in the order it was in.
StayedThenBack(S, wanted) ==
  /\ DOMAIN wanted = 1 .. At(S, Cardinality(S))
  /\ \A k \in 1 .. At(S, 0) : wanted[k] = Keep(Session, Left(S))[k]
  /\ \A m \in 1 .. Cardinality(S) : wanted[At(S, m)] = Session[Pos(S, m)]

LEMMA WantedIs ==
  ASSUME NEW S \in SUBSET DOMAIN Session, NEW wanted, wanted = Keep(Session, Left(S))
         \o Keep(Session, S)
  PROVE  StayedThenBack(S, wanted)
<1> SUFFICES ASSUME NEW L, L = Left(S), NEW r, r = Keep(Session, L), NEW s,
                    s = Keep(Session, S), NEW n, n = Cardinality(S)
             PROVE  /\ DOMAIN wanted = 1 .. At(S, n)
                    /\ \A k \in 1 .. At(S, 0) : wanted[k] = r[k]
                    /\ \A m \in 1 .. n : wanted[At(S, m)] = Session[Pos(S, m)]
  BY DEF StayedThenBack
<1>1. IsSeq(Session) /\ n \in Nat /\ Cardinality(L) \in Nat /\ L \in SUBSET DOMAIN Session
  BY ClosedIs
<1>2. /\ IsSeq(r) /\ Range(r) \subseteq Range(Session) /\ Len(r) = Cardinality(L)
      /\ \A k \in 1 .. Cardinality(L) : r[k] = Session[Pos(L, k)]
  BY <1>1, KeepAt, KeepIsSeq
<1>3. /\ IsSeq(s) /\ Range(s) \subseteq Range(Session) /\ Len(s) = n
      /\ \A k \in 1 .. n : s[k] = Session[Pos(S, k)]
  BY <1>1, KeepAt, KeepIsSeq
<1>4. r \in Seq(Range(Session)) /\ s \in Seq(Range(Session))
  BY <1>2, <1>3 DEF IsSeq
<1>5. /\ wanted \in Seq(Range(Session)) /\ Len(wanted) = Len(r) + Len(s)
      /\ \A k \in 1 .. Len(r) : wanted[k] = r[k]
      /\ \A k \in 1 .. Len(s) : wanted[Len(r) + k] = s[k]
  BY <1>4, ConcatAt
<1>6. \A m : At(S, m) = Cardinality(L) + m
  BY DEF At
<1>7. DOMAIN wanted = 1 .. At(S, n)
  BY <1>1, <1>2, <1>3, <1>5, <1>6
<1>8. \A k \in 1 .. At(S, 0) : wanted[k] = r[k]
  BY <1>1, <1>2, <1>5, <1>6
<1>9. \A m \in 1 .. n : wanted[At(S, m)] = Session[Pos(S, m)]
  BY <1>1, <1>2, <1>3, <1>5, <1>6
<1> QED
  BY <1>7, <1>8, <1>9

\* The ids of those that stayed are there, those of the others are not given again.
LEMMA StayedIs ==
  ASSUME NEW S \in SUBSET DOMAIN Session, NEW n, n = Cardinality(S), NEW h, NEW o,
         SomeBack(S, n, h, o), Len(h) = At(S, n)
  PROVE  {i \in DOMAIN Session : Session[i].id \in IdsIn(h)} = Left(S)
<1> SUFFICES ASSUME NEW L, L = Left(S) PROVE {i \in DOMAIN Session : Session[i].id \in IdsIn(h)} = L
  OBVIOUS
<1>1. /\ IsSeq(Session) /\ n \in Nat /\ Cardinality(L) \in Nat /\ L \in SUBSET DOMAIN Session
      /\ DOMAIN Session = 1 .. Len(Session)
  BY ClosedIs
<1>2. \A m : At(S, m) = Cardinality(L) + m
  BY DEF At
<1>3. Len(Session) \in Nat
  BY <1>1 DEF IsSeq
<1>4. /\ \A k \in 1 .. Cardinality(L) : Pos(L, k) \in L
      /\ \A i \in L : \E k \in 1 .. Cardinality(L) : Pos(L, k) = i
  BY <1>1, <1>3, PosIs
<1>5. \A k \in 1 .. Cardinality(L) : h[k] = Session[Pos(L, k)]
  <2>1. \A k \in 1 .. Cardinality(L) : Keep(Session, L)[k] = Session[Pos(L, k)]
    BY <1>1, KeepAt
  <2> QED
    BY <1>1, <1>2, <2>1 DEF SomeBack
<1>6. DOMAIN h = 1 .. Cardinality(L) + n
  BY <1>2 DEF SomeBack
<1>7. ASSUME NEW i \in L PROVE Session[i].id \in IdsIn(h)
  <2>1. PICK k \in 1 .. Cardinality(L) : Pos(L, k) = i
    BY <1>4, <1>7
  <2>2. k \in DOMAIN h /\ h[k] = Session[i]
    BY <1>1, <1>5, <1>6, <2>1
  <2> QED
    BY <2>2 DEF IdsIn
<1>8. ASSUME NEW i \in DOMAIN Session, Session[i].id \in IdsIn(h) PROVE i \in L
  <2>1. PICK k \in DOMAIN h : h[k].id = Session[i].id
    BY <1>8 DEF IdsIn
  <2>2. CASE k \in 1 .. Cardinality(L)
    <3>1. Pos(L, k) \in L /\ Session[Pos(L, k)].id = Session[i].id
      BY <1>4, <1>5, <2>1, <2>2
    <3>2. Pos(L, k) = i
      BY <1>1, <1>8, <3>1, SessionAssumption DEF DistinctIds
    <3> QED
      BY <3>1, <3>2
  <2>3. CASE k \notin 1 .. Cardinality(L)
    <3>1. k - Cardinality(L) \in 1 .. n /\ k = At(S, k - Cardinality(L))
      BY <1>1, <1>2, <1>6, <2>1, <2>3
    <3>2. h[k].id \in Nat \ Old
      BY <3>1 DEF SomeBack, WorkspaceBack, WorkspaceLike
    <3>3. Session[i].id \in Old
      BY <1>8, TabsOfSession
    <3> QED
      BY <2>1, <3>2, <3>3
  <2> QED
    BY <2>2, <2>3
<1> QED
  BY <1>1, <1>7, <1>8

LEMMA WorkspaceRound ==
  ASSUME NEW S \in SUBSET DOMAIN Session, NEW n, n = Cardinality(S), NEW h, NEW o,
         SomeBack(S, n, h, o), Len(h) = At(S, n)
  PROVE  IsAsBefore(h)
<1> SUFFICES ASSUME NEW wanted, wanted = Keep(Session, Left(S)) \o Keep(Session, S)
             PROVE  IsAsBefore(h)
  OBVIOUS
<1> DEFINE stayed == {i \in DOMAIN Session : Session[i].id \in IdsIn(h)}
<1>1. stayed = Left(S)
  BY StayedIs
<1>2. DOMAIN Session \ Left(S) = S
  BY DEF Left
<1>3. Keep(Session, stayed) \o Keep(Session, DOMAIN Session \ stayed) = wanted
  BY <1>1, <1>2
<1>4. /\ DOMAIN wanted = 1 .. At(S, n)
      /\ \A k \in 1 .. At(S, 0) : wanted[k] = Keep(Session, Left(S))[k]
      /\ \A m \in 1 .. n : wanted[At(S, m)] = Session[Pos(S, m)]
  <2>1. StayedThenBack(S, wanted)
    BY WantedIs
  <2> QED
    BY <2>1 DEF StayedThenBack
<1>5. n \in Nat /\ Cardinality(Left(S)) \in Nat /\ \A m : At(S, m) = Cardinality(Left(S)) + m
  BY ClosedIs DEF At
<1>6. DOMAIN h = DOMAIN wanted
  BY <1>4 DEF SomeBack
<1>7. ASSUME NEW m \in 1 .. n PROVE Look(h[At(S, m)]) = Look(Session[Pos(S, m)])
  <2> SUFFICES ASSUME NEW a, a = At(S, m), NEW i,
                      i = Pos(S, m) PROVE Look(h[a]) = Look(Session[i])
    OBVIOUS
  <2>1. WorkspaceBack(h, a, i, o)
    BY <1>7 DEF SomeBack
  <2>2. i \in DOMAIN Session
    BY <1>7, ClosedIs
  <2>3. DOMAIN Session[i].tabs = 1 .. Len(Session[i].tabs)
    BY <2>2, TabsOfSession
  <2>4. /\ effective_ws_label(h[a].label, h[a].cwd) = effective_ws_label(Session[i].label,
           Session[i].cwd)
        /\ DOMAIN h[a].tabs = DOMAIN Session[i].tabs
        /\ \A k \in DOMAIN Session[i].tabs :
             /\ effective_tab_label(h[a].tabs[k].label) = effective_tab_label(Session[i].tabs[k].label)
             /\ strip_pane_ids(h[a].tabs[k].layout) = strip_pane_ids(Session[i].tabs[k].layout)
    BY <2>1, <2>3 DEF WorkspaceBack, WorkspaceLike, TabsBack, TabBack, Named, TabAt
  <2> QED
    BY <2>4, SameLook
<1>8. ASSUME NEW k \in DOMAIN wanted PROVE Look(h[k]) = Look(wanted[k])
  <2>1. CASE k \in 1 .. At(S, 0)
    BY <1>4, <2>1 DEF SomeBack
  <2>2. CASE k \notin 1 .. At(S, 0)
    <3>1. k - Cardinality(Left(S)) \in 1 .. n /\ k = At(S, k - Cardinality(Left(S)))
      BY <1>4, <1>5, <1>8, <2>2
    <3> QED
      BY <1>4, <1>7, <3>1
  <2> QED
    BY <2>1, <2>2
<1> QED
  BY <1>3, <1>6, <1>8 DEF IsAsBefore

LEMMA RoundTripIs == RoundTrip <=> (Undisturbed /\ HasPlace => IsAsBefore(herdr))
  BY DEF RoundTrip, IsAsBefore

\* The place of a closed pane in the layout its tab had.
LEMMA PlacedPane ==
  ASSUME NEW i, NEW j, NEW pane, ClosesPane(i, j, pane, entry), HasPlace
  PROVE  IsBesideOne(TabAt(Session, i, j).layout, pane)
<1>1. IsPlace(Session, i, j)
      /\ entry = Entry("pane",
         {ws_shell(WorkspaceSnap(i), [SnapAt(i, j) EXCEPT !.panes = {pane}])})
  BY DEF ClosesPane
<1> SUFFICES ASSUME NEW snap, snap = SnapAt(i, j), NEW tab,
                    tab = [snap EXCEPT !.panes = {pane}],
                    NEW ws, ws = ws_shell(WorkspaceSnap(i), tab)
             PROVE  IsBesideOne(TabAt(Session, i, j).layout, pane)
  OBVIOUS
<1>2. entry.granularity = "pane" /\ entry.workspaces = {ws}
  BY <1>1 DEF Entry
<1>3. ws.tabs[1] = tab
  BY DEF ws_shell, WorkspaceSnap
<1>4. tab.panes = {pane} /\ tab.layout = TabAt(Session, i, j).layout
  BY <1>1, SnapIs DEF SnapAt, TabSnap
<1>5. \E f \in locate(ws.tabs[1].layout, pane) : DOMAIN f.sibling = {<< >>}
  <2>1. \A w \in entry.workspaces : \A p \in w.tabs[1].panes :
          \E f \in locate(w.tabs[1].layout, p) : DOMAIN f.sibling = {<< >>}
    BY <1>2 DEF HasPlace
  <2>2. ws \in entry.workspaces /\ pane \in ws.tabs[1].panes
    BY <1>2, <1>3, <1>4
  <2> QED
    BY <2>1, <2>2
<1> QED
  BY <1>3, <1>4, <1>5 DEF IsBesideOne

LEMMA HydratedHasNone ==
  ASSUME HydratedStory(entry) PROVE ~HasPlace
<1>1. PICK ws \in entry.workspaces : 1 \in DOMAIN ws.tabs /\ ws.tabs[1].panes # {}
                                     /\ \A pane \in ws.tabs[1].panes : locate(ws.tabs[1].layout, pane) = {}
  BY DEF HydratedStory, Range
<1> QED
  BY <1>1 DEF HasPlace, HydratedStory

LEMMA StoryRoundTrip == ASSUME ReopenInv, Story PROVE RoundTrip
<1> SUFFICES ASSUME Undisturbed, HasPlace PROVE IsAsBefore(herdr)
  BY RoundTripIs
<1>1. pc = "over" /\ calls = << >>
  BY DEF Undisturbed, Story, Calm, Listed
<1>2. HydratedStory(entry) \/ TabTold \/ PaneTold \/ WorkspacesTold
  BY DEF Undisturbed, Story, Calm
<1>3. ASSUME TabTold PROVE IsAsBefore(herdr)
  <2>1. PICK i \in DOMAIN Session : \E j \in DOMAIN Session[i].tabs : TabStory(i, j, herdr,
        << >>, occupied)
    BY <1>1, <1>3 DEF TabTold
  <2>2. PICK j \in DOMAIN Session[i].tabs : TabStory(i, j, herdr, << >>, occupied)
    BY <2>1
  <2>3. IsPlace(Session, i, j)
    BY DEF IsPlace
  <2> QED
    BY <2>2, <2>3, TabDone, TabRound
<1>4. ASSUME PaneTold PROVE IsAsBefore(herdr)
  <2>1. PICK i \in DOMAIN Session : \E j \in DOMAIN Session[i].tabs : \E pane \in PaneIds(TabAt(Session, i, j).layout) :
               ClosesPane(i, j, pane, entry) /\ PaneStory(i, j, pane, herdr, << >>, occupied)
    BY <1>1, <1>4 DEF PaneTold
  <2>2. PICK j \in DOMAIN Session[i].tabs : \E pane \in PaneIds(TabAt(Session, i, j).layout) :
               ClosesPane(i, j, pane, entry) /\ PaneStory(i, j, pane, herdr, << >>, occupied)
    BY <2>1
  <2>3. PICK pane \in PaneIds(TabAt(Session, i, j).layout) :
               ClosesPane(i, j, pane, entry) /\ PaneStory(i, j, pane, herdr, << >>, occupied)
    BY <2>2
  <2>4. IsPlace(Session, i, j) /\ PaneThere(i, j, pane, herdr, << >>, occupied)
    BY <2>3, PaneDone DEF IsPlace
  <2>5. IsBesideOne(TabAt(Session, i, j).layout, pane)
    BY <2>3, PlacedPane
  <2> QED
    BY <2>4, <2>5, PaneRound
<1>5. ASSUME WorkspacesTold PROVE IsAsBefore(herdr)
  <2>1. PICK S \in SUBSET DOMAIN Session : WorkspaceStory(S, herdr, << >>, created, occupied)
    BY <1>1, <1>5 DEF WorkspacesTold
  <2>2. IsSeq(herdr)
    BY DEF ReopenInv, HerdrInv, Sound, Numbered, IsSession
  <2>3. SomeBack(S, Cardinality(S), herdr, occupied) /\ Len(herdr) = At(S, Cardinality(S))
    BY <2>1, <2>2, WorkspaceDone
  <2> QED
    BY <2>3, WorkspaceRound
<1> QED
  BY <1>2, <1>3, <1>4, <1>5, HydratedHasNone

\* A close and its reopen with nothing in between give every session back: every tab
\* in its place under its own name with its splits, ratios and directories, whole
\* workspaces behind those that stayed, a pane beside the one it was beside
\* (restore.rs run, create_tab_from_layout, split_beside; model.rs locate).
THEOREM ReopenRoundTrip == Spec => []RoundTrip
<1>1. ReopenInv /\ Story => RoundTrip
  BY StoryRoundTrip
<1> QED
  BY <1>1, ReopenInvariant, ReopenStory, PTL

(***************************************************************************)
(* The focus.                                                              *)
(***************************************************************************)
\* The focus that an entry remembers for a tab is in the tab t of the workspace w.
IsFocused(g, ws, tab, w, t, o) ==
  /\ <<tab.focused_pane_id, t.focused>> \in o
  /\ g = "tab" \/ tab.tab_id = ws.active_tab_id => w.active = t.id
FocusOf(h, e, o) ==
  \A ws \in e.workspaces : \A tab \in Range(ws.tabs) : tab.focused_pane_id \in tab.panes =>
    \E a \in DOMAIN h : \E b \in DOMAIN h[a].tabs : IsFocused(e.granularity, ws, tab, h[a],
    TabAt(h, a, b), o)

LEMMA FocusIs ==
  ASSUME Undisturbed /\ FocusOnReopen => FocusOf(herdr, entry, occupied) PROVE FocusComesBack
<1> SUFFICES ASSUME Undisturbed, FocusOnReopen, NEW ws \in entry.workspaces,
                    NEW tab \in Range(ws.tabs),
                    tab.focused_pane_id \in tab.panes
             PROVE  \E w \in Range(herdr) : \E t \in Range(w.tabs) :
                      /\ <<tab.focused_pane_id, t.focused>> \in occupied
                      /\ entry.granularity = "tab" \/ tab.tab_id = ws.active_tab_id
                         => w.active = t.id
  BY DEF FocusComesBack
<1>1. PICK a \in DOMAIN herdr : \E b \in DOMAIN herdr[a].tabs :
             IsFocused(entry.granularity, ws, tab, herdr[a], TabAt(herdr, a, b), occupied)
  BY DEF FocusOf
<1>2. PICK b \in DOMAIN herdr[a].tabs : IsFocused(entry.granularity, ws, tab, herdr[a],
      TabAt(herdr, a, b), occupied)
  BY <1>1
<1>3. herdr[a] \in Range(herdr) /\ TabAt(herdr, a, b) \in Range(herdr[a].tabs)
  BY DEF Range, TabAt
<1> QED
  BY <1>2, <1>3 DEF IsFocused

LEMMA TabFocusBack ==
  ASSUME NEW i, NEW j, ClosesTab(i, j, entry), NEW h, NEW c, NEW o, TabThere(i, j, h, c, o),
         FocusOnReopen
  PROVE  FocusOf(h, entry, o)
<1>1. IsPlace(Session, i, j) /\ entry = Entry("tab", {ws_shell(WorkspaceSnap(i), SnapAt(i, j))})
  BY DEF ClosesTab
<1> SUFFICES ASSUME NEW ws \in entry.workspaces, NEW tab \in Range(ws.tabs)
             PROVE  \E a \in DOMAIN h : \E b \in DOMAIN h[a].tabs : IsFocused(entry.granularity, ws, tab, h[a], TabAt(h, a, b), o)
  BY DEF FocusOf
<1>2. ws.tabs = <<SnapAt(i, j)>>
  BY <1>1 DEF Entry, ws_shell, WorkspaceSnap
<1>3. tab = SnapAt(i, j)
  BY <1>2, OneIsSeq
<1>4. tab.focused_pane_id = TabAt(Session, i, j).focused
  BY <1>1, <1>3, SnapIs
<1>5. <<TabAt(Session, i, j).focused, TabAt(h, i, j).focused>> \in o
      /\ h[i].active = TabAt(h, i, j).id
  BY DEF TabThere, TabBack, Watched
<1>6. i \in DOMAIN h /\ j \in DOMAIN h[i].tabs
  BY <1>1 DEF TabThere, TabInPlace, Others, IsPlace
<1>7. IsFocused(entry.granularity, ws, tab, h[i], TabAt(h, i, j), o)
  BY <1>4, <1>5 DEF IsFocused
<1> QED
  BY <1>6, <1>7

LEMMA PaneFocusBack ==
  ASSUME NEW i, NEW j, NEW pane, ClosesPane(i, j, pane, entry), NEW h, NEW c, NEW o,
         PaneThere(i, j, pane, h, c, o),
         FocusOnReopen
  PROVE  FocusOf(h, entry, o)
<1>1. IsPlace(Session, i, j)
      /\ entry = Entry("pane",
         {ws_shell(WorkspaceSnap(i), [SnapAt(i, j) EXCEPT !.panes = {pane}])})
  BY DEF ClosesPane
<1> SUFFICES ASSUME NEW ws \in entry.workspaces, NEW tab \in Range(ws.tabs),
                    tab.focused_pane_id \in tab.panes
             PROVE  \E a \in DOMAIN h : \E b \in DOMAIN h[a].tabs : IsFocused(entry.granularity, ws, tab, h[a], TabAt(h, a, b), o)
  BY DEF FocusOf
<1>2. ws = ws_shell(WorkspaceSnap(i), [SnapAt(i, j) EXCEPT !.panes = {pane}])
      /\ entry.granularity = "pane"
  BY <1>1 DEF Entry
<1>3. ws.tabs = <<[SnapAt(i, j) EXCEPT !.panes = {pane}]>>
      /\ ws.active_tab_id = Session[i].active
  BY <1>2 DEF ws_shell, WorkspaceSnap
<1>4. tab = [SnapAt(i, j) EXCEPT !.panes = {pane}]
  BY <1>3, OneIsSeq
<1>5. tab.panes = {pane} /\ tab.tab_id = TabAt(Session, i, j).id
  BY <1>1, <1>4, SnapIs DEF SnapAt, TabSnap
<1>6. tab.focused_pane_id = pane
  BY <1>5
<1>7. <<pane, TabAt(h, i, j).focused>> \in o /\ InTab(i, j, h)
  BY DEF PaneThere, PaneBeside, PaneIn
<1>8. IsPlace(h, i, j) /\ h[i].active = Session[i].active
      /\ TabAt(h, i, j).id = TabAt(Session, i, j).id
  BY <1>1, <1>7, InTabIs DEF InTab, OnlyTab, TabAt
<1>9. IsFocused(entry.granularity, ws, tab, h[i], TabAt(h, i, j), o)
  <2>1. <<tab.focused_pane_id, TabAt(h, i, j).focused>> \in o
    BY <1>6, <1>7
  <2>2. entry.granularity # "tab"
    BY <1>2
  <2>3. tab.tab_id = ws.active_tab_id => h[i].active = TabAt(h, i, j).id
    BY <1>3, <1>5, <1>8
  <2> QED
    BY <2>1, <2>2, <2>3 DEF IsFocused
<1> QED
  BY <1>8, <1>9 DEF IsPlace

LEMMA WorkspaceFocusBack ==
  ASSUME NEW S, ClosesWorkspaces(S, entry), NEW n, n = Cardinality(S), NEW h, NEW o,
         SomeBack(S, n, h, o),
         Len(h) = At(S, n), FocusOnReopen
  PROVE  FocusOf(h, entry, o)
<1>1. S \in SUBSET DOMAIN Session
      /\ entry = Entry(IF Cardinality(S) = 1 THEN "workspace" ELSE "workspace_group",
         {WorkspaceSnap(i) : i \in S})
  BY DEF ClosesWorkspaces
<1>2. entry.granularity # "tab" /\ entry.workspaces = {WorkspaceSnap(i) : i \in S}
  BY <1>1 DEF Entry
<1> SUFFICES ASSUME NEW ws \in entry.workspaces, NEW tab \in Range(ws.tabs)
             PROVE  \E a \in DOMAIN h : \E b \in DOMAIN h[a].tabs : IsFocused(entry.granularity, ws, tab, h[a], TabAt(h, a, b), o)
  BY DEF FocusOf
<1>3. PICK i \in S : ws = WorkspaceSnap(i)
  BY <1>2
<1>4. /\ n \in Nat /\ Cardinality(Left(S)) \in Nat
      /\ \A x \in S : \E k \in 1 .. n : Pos(S, k) = x
  BY <1>1, ClosedIs
<1>5. PICK m \in 1 .. n : Pos(S, m) = i
  BY <1>4
<1> SUFFICES ASSUME NEW a, a = At(S, m)
             PROVE  \E x \in DOMAIN h : \E b \in DOMAIN h[x].tabs : IsFocused(entry.granularity, ws, tab, h[x], TabAt(h, x, b), o)
  OBVIOUS
<1>6. WorkspaceBack(h, a, i, o)
  BY <1>5 DEF SomeBack
<1>7. ws.tabs = [k \in DOMAIN Session[i].tabs |-> SnapAt(i, k)]
      /\ ws.active_tab_id = Session[i].active
  BY <1>3, WorkspaceSnapIs
<1>8. PICK k \in DOMAIN Session[i].tabs : tab = SnapAt(i, k)
  BY <1>7 DEF Range
<1>9. i \in DOMAIN Session /\ IsPlace(Session, i, k)
  BY <1>1 DEF IsPlace
<1>10. tab.focused_pane_id = TabAt(Session, i, k).focused
       /\ tab.tab_id = TabAt(Session, i, k).id
  BY <1>8, <1>9, SnapIs
<1>11. DOMAIN Session[i].tabs = 1 .. Len(Session[i].tabs)
  BY <1>9, TabsOfSession
<1>12. <<TabAt(Session, i, k).focused, TabAt(h, a, k).focused>> \in o
  BY <1>6, <1>11 DEF WorkspaceBack, TabsBack, TabBack, Watched
<1>13. tab.tab_id = ws.active_tab_id => h[a].active = TabAt(h, a, k).id
  BY <1>6, <1>7, <1>10 DEF WorkspaceBack, ActiveBack
<1>14. IsFocused(entry.granularity, ws, tab, h[a], TabAt(h, a, k), o)
  BY <1>2, <1>10, <1>12, <1>13 DEF IsFocused
<1>15. a \in DOMAIN h
  BY <1>4, <1>5 DEF SomeBack, At
<1>16. k \in DOMAIN h[a].tabs
  BY <1>6 DEF WorkspaceBack
<1> QED
  BY <1>14, <1>15, <1>16

LEMMA StoryFocus == ASSUME ReopenInv, Story PROVE FocusComesBack
<1> SUFFICES ASSUME Undisturbed, FocusOnReopen PROVE FocusOf(herdr, entry, occupied)
  BY FocusIs
<1>1. pc = "over" /\ calls = << >>
  BY DEF Undisturbed, Story, Calm, Listed
<1>2. HydratedStory(entry) \/ TabTold \/ PaneTold \/ WorkspacesTold
  BY DEF Undisturbed, Story, Calm
<1>3. ASSUME TabTold PROVE FocusOf(herdr, entry, occupied)
  <2>1. PICK i \in DOMAIN Session : \E j \in DOMAIN Session[i].tabs :
               ClosesTab(i, j, entry) /\ TabStory(i, j, herdr, << >>, occupied)
    BY <1>1, <1>3 DEF TabTold
  <2>2. PICK j \in DOMAIN Session[i].tabs : ClosesTab(i, j, entry)
        /\ TabStory(i, j, herdr, << >>, occupied)
    BY <2>1
  <2> QED
    BY <2>2, TabDone, TabFocusBack
<1>4. ASSUME PaneTold PROVE FocusOf(herdr, entry, occupied)
  <2>1. PICK i \in DOMAIN Session : \E j \in DOMAIN Session[i].tabs : \E pane \in PaneIds(TabAt(Session, i, j).layout) :
               ClosesPane(i, j, pane, entry) /\ PaneStory(i, j, pane, herdr, << >>, occupied)
    BY <1>1, <1>4 DEF PaneTold
  <2>2. PICK j \in DOMAIN Session[i].tabs : \E pane \in PaneIds(TabAt(Session, i, j).layout) :
               ClosesPane(i, j, pane, entry) /\ PaneStory(i, j, pane, herdr, << >>, occupied)
    BY <2>1
  <2>3. PICK pane \in PaneIds(TabAt(Session, i, j).layout) :
               ClosesPane(i, j, pane, entry) /\ PaneStory(i, j, pane, herdr, << >>, occupied)
    BY <2>2
  <2> QED
    BY <2>3, PaneDone, PaneFocusBack
<1>5. ASSUME WorkspacesTold PROVE FocusOf(herdr, entry, occupied)
  <2>1. PICK S \in SUBSET DOMAIN Session : ClosesWorkspaces(S, entry)
        /\ WorkspaceStory(S, herdr, << >>, created, occupied)
    BY <1>1, <1>5 DEF WorkspacesTold
  <2>2. IsSeq(herdr)
    BY DEF ReopenInv, HerdrInv, Sound, Numbered, IsSession
  <2>3. SomeBack(S, Cardinality(S), herdr, occupied) /\ Len(herdr) = At(S, Cardinality(S))
    BY <2>1, <2>2, WorkspaceDone
  <2> QED
    BY <2>1, <2>3, WorkspaceFocusBack
<1>6. ASSUME HydratedStory(entry) PROVE FocusOf(herdr, entry, occupied)
  BY <1>6 DEF HydratedStory, FocusOf
<1> QED
  BY <1>2, <1>3, <1>4, <1>5, <1>6

\* After an undisturbed reopen the pane that had the focus in a tab has it again under
\* its new id, and so has the tab that was active, for every session
\* (restore.rs finish_tab, restore_workspace, restore_tab_granularity).
THEOREM FocusIsBack == Spec => []FocusComesBack
<1>1. ReopenInv /\ Story => FocusComesBack
  BY StoryFocus
<1> QED
  BY <1>1, ReopenInvariant, ReopenStory, PTL

==============================================================================
