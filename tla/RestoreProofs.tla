---------------------------- MODULE RestoreProofs ----------------------------
(***************************************************************************)
(* Theorems on Restore, for any session, any faults and any closing and    *)
(* opening by the user meanwhile: a reopen gives its entry back exactly    *)
(* when it knows of nothing it made, the placeholder tabs it makes herdr   *)
(* destroy are on record, it only adds to what is open, and without a      *)
(* reported failure it has brought back what its entry remembers.          *)
(***************************************************************************)
EXTENDS SessionProofs

(***************************************************************************)
(* What the entry remembers, and the calls decided from it.                *)
(***************************************************************************)
HasPanes(layout) == IsLayout(layout) /\ Leaves(layout) # {}

IsTabSnap(tab) ==
  /\ tab = [tab_id |-> tab.tab_id, label |-> tab.label, index |-> tab.index,
            layout |-> tab.layout, focused_pane_id |-> tab.focused_pane_id, panes |-> tab.panes]
  /\ HasPanes(tab.layout)

IsWorkspaceSnap(ws) ==
  /\ ws = [workspace_id |-> ws.workspace_id, label |-> ws.label, index |-> ws.index,
           cwd |-> ws.cwd, active_tab_id |-> ws.active_tab_id, tabs |-> ws.tabs]
  /\ IsSeq(ws.tabs)
  /\ \A tab \in Range(ws.tabs) : IsTabSnap(tab)

\* A call decided from the entry and the lists alone.
IsPlanned(c) ==
  \/ c.call = "restore_workspace" /\ \A ws \in c.left : IsWorkspaceSnap(ws)
  \/ c.call = "workspace.create" /\ IsWorkspaceSnap(c.ws)
  \/ c.call = "layout.apply" /\ c.placeholder = None /\ IsTabSnap(c.tab)
  \/ c.call = "pane.split"

IsPlan(p) ==
  /\ IsSeq(p)
  /\ \A c \in Range(p) : IsPlanned(c) /\ (c.call = "pane.split" => Len(p) = 1)

SplitsNothing(p) == \A c \in Range(p) : c.call # "pane.split"

LEMMA LeafHasPanes == ASSUME NEW pane, NEW cwd PROVE HasPanes(Leaf(pane, cwd))
<1> DEFINE leaf == Leaf(pane, cwd)
           one  == {pane}
<1>1. IsLayout(leaf) /\ PaneIds(leaf) = one /\ one # {}
  BY LeafIsLayout
<1> HIDE DEF leaf, one
<1>2. HasPanes(leaf)
  BY <1>1 DEF HasPanes, PaneIds
<1>3. QED
  BY <1>2 DEF leaf

LEMMA TabSnapFields ==
  ASSUME NEW tab, IsTabSnap(tab), NEW layout, HasPanes(layout), NEW panes
  PROVE  /\ IsTabSnap([tab EXCEPT !.layout = layout])
         /\ IsTabSnap([tab EXCEPT !.panes = panes])
         /\ IsTabSnap([tab EXCEPT !.label = None, !.index = 0, !.focused_pane_id = None,
                                  !.panes = panes, !.layout = layout])
<1> DEFINE a == [tab EXCEPT !.layout = layout]
           b == [tab EXCEPT !.panes = panes]
           c == [tab EXCEPT !.label = None, !.index = 0, !.focused_pane_id = None,
                            !.panes = panes, !.layout = layout]
<1>1. tab = [tab_id |-> tab.tab_id, label |-> tab.label, index |-> tab.index,
             layout |-> tab.layout, focused_pane_id |-> tab.focused_pane_id,
             panes |-> tab.panes] /\ HasPanes(tab.layout)
  BY DEF IsTabSnap
<1>2. a = [tab_id |-> a.tab_id, label |-> a.label, index |-> a.index,
           layout |-> a.layout, focused_pane_id |-> a.focused_pane_id, panes |-> a.panes]
      /\ a.layout = layout
  BY <1>1
<1>3. b = [tab_id |-> b.tab_id, label |-> b.label, index |-> b.index,
           layout |-> b.layout, focused_pane_id |-> b.focused_pane_id, panes |-> b.panes]
      /\ b.layout = tab.layout
  BY <1>1
<1>4. c = [tab_id |-> c.tab_id, label |-> c.label, index |-> c.index,
           layout |-> c.layout, focused_pane_id |-> c.focused_pane_id, panes |-> c.panes]
      /\ c.layout = layout
  <2>1. c = [tab_id |-> tab.tab_id, label |-> None, index |-> 0,
             layout |-> layout, focused_pane_id |-> None, panes |-> panes]
    <3> DEFINE c1 == [tab EXCEPT !.label = None]
               c2 == [c1 EXCEPT !.index = 0]
               c3 == [c2 EXCEPT !.focused_pane_id = None]
               c4 == [c3 EXCEPT !.panes = panes]
               c5 == [c4 EXCEPT !.layout = layout]
    <3>1. c = c5
      OBVIOUS
    <3> HIDE DEF c
    <3>2. c1 = [tab_id |-> tab.tab_id, label |-> None, index |-> tab.index,
                layout |-> tab.layout, focused_pane_id |-> tab.focused_pane_id,
                panes |-> tab.panes]
      BY <1>1
    <3> HIDE DEF c1
    <3>3. c2 = [tab_id |-> tab.tab_id, label |-> None, index |-> 0,
                layout |-> tab.layout, focused_pane_id |-> tab.focused_pane_id,
                panes |-> tab.panes]
      BY <3>2
    <3> HIDE DEF c2
    <3>4. c3 = [tab_id |-> tab.tab_id, label |-> None, index |-> 0,
                layout |-> tab.layout, focused_pane_id |-> None, panes |-> tab.panes]
      BY <3>3
    <3> HIDE DEF c3
    <3>5. c4 = [tab_id |-> tab.tab_id, label |-> None, index |-> 0,
                layout |-> tab.layout, focused_pane_id |-> None, panes |-> panes]
      BY <3>4
    <3> HIDE DEF c4
    <3>6. QED
      BY <3>1, <3>5
  <2>2. QED
    BY <2>1
<1> HIDE DEF a, b, c
<1>5. IsTabSnap(a) /\ IsTabSnap(b) /\ IsTabSnap(c)
  BY <1>1, <1>2, <1>3, <1>4 DEF IsTabSnap
<1>6. QED
  BY <1>5 DEF a, b, c

LEMMA ShellOfOne ==
  ASSUME NEW ws, IsWorkspaceSnap(ws), NEW tab, IsTabSnap(tab), NEW cwd
  PROVE  /\ IsWorkspaceSnap(ws_shell(ws, tab))
         /\ 1 \in DOMAIN ws_shell(ws, tab).tabs
         /\ IsWorkspaceSnap([ws_shell(ws, tab) EXCEPT !.index = 0, !.cwd = cwd, !.active_tab_id = None])
         /\ 1 \in DOMAIN [ws_shell(ws, tab) EXCEPT !.index = 0, !.cwd = cwd,
                                                   !.active_tab_id = None].tabs
<1> DEFINE tabs == <<tab>>
           a == ws_shell(ws, tab)
           b == [a EXCEPT !.index = 0, !.cwd = cwd, !.active_tab_id = None]
<1>1. IsSeq(tabs) /\ (\A t \in Range(tabs) : IsTabSnap(t)) /\ 1 \in DOMAIN tabs
  BY OneIsSeq
<1>2. ws = [workspace_id |-> ws.workspace_id, label |-> ws.label, index |-> ws.index,
            cwd |-> ws.cwd, active_tab_id |-> ws.active_tab_id, tabs |-> ws.tabs]
  BY DEF IsWorkspaceSnap
<1>3. a = [ws EXCEPT !.tabs = tabs]
  BY DEF ws_shell
<1> HIDE DEF tabs, a
<1>4. a = [workspace_id |-> ws.workspace_id, label |-> ws.label, index |-> ws.index,
            cwd |-> ws.cwd, active_tab_id |-> ws.active_tab_id, tabs |-> tabs]
  BY <1>2, <1>3
<1>5. b = [workspace_id |-> ws.workspace_id, label |-> ws.label, index |-> 0,
            cwd |-> cwd, active_tab_id |-> None, tabs |-> tabs]
  <2> DEFINE b1 == [a EXCEPT !.index = 0]
             b2 == [b1 EXCEPT !.cwd = cwd]
             b3 == [b2 EXCEPT !.active_tab_id = None]
  <2>1. b = b3
    OBVIOUS
  <2> HIDE DEF b
  <2>2. b1 = [workspace_id |-> ws.workspace_id, label |-> ws.label, index |-> 0,
              cwd |-> ws.cwd, active_tab_id |-> ws.active_tab_id, tabs |-> tabs]
    BY <1>4
  <2> HIDE DEF b1
  <2>3. b2 = [workspace_id |-> ws.workspace_id, label |-> ws.label, index |-> 0,
              cwd |-> cwd, active_tab_id |-> ws.active_tab_id, tabs |-> tabs]
    BY <2>2
  <2> HIDE DEF b2
  <2>4. QED
    BY <2>1, <2>3
<1>6. a = [workspace_id |-> a.workspace_id, label |-> a.label, index |-> a.index,
            cwd |-> a.cwd, active_tab_id |-> a.active_tab_id, tabs |-> a.tabs] /\ a.tabs = tabs
  BY <1>4
<1>7. b = [workspace_id |-> b.workspace_id, label |-> b.label, index |-> b.index,
            cwd |-> b.cwd, active_tab_id |-> b.active_tab_id, tabs |-> b.tabs] /\ b.tabs = tabs
  BY <1>5
<1> HIDE DEF b
<1>8. IsWorkspaceSnap(a) /\ IsWorkspaceSnap(b) /\ 1 \in DOMAIN a.tabs /\ 1 \in DOMAIN b.tabs
  BY <1>1, <1>6, <1>7 DEF IsWorkspaceSnap
<1>9. QED
  BY <1>8 DEF a, b

LEMMA TabsAdded ==
  ASSUME NEW into, NEW tab, IsTabSnap(tab), NEW l
  PROVE  /\ IsPlanned(create_tab_from_layout(into, tab, l))
         /\ create_tab_from_layout(into, tab, l).call # "pane.split"
<1> DEFINE c == create_tab_from_layout(into, tab, l)
<1>1. c.call = "layout.apply" /\ c.placeholder = None /\ c.tab = tab
  BY DEF create_tab_from_layout, Apply
<1> HIDE DEF c
<1>2. QED
  BY <1>1 DEF IsPlanned, c

LEMMA WorkspacePlan ==
  ASSUME NEW ws, IsWorkspaceSnap(ws), NEW l
  PROVE  IsPlan(restore_workspace(ws, l)) /\ SplitsNothing(restore_workspace(ws, l))
<1> DEFINE missing == Keep(ws.tabs, {j \in DOMAIN ws.tabs : ~TabAlive(ws.tabs[j], l)})
           adds == [j \in DOMAIN missing |-> create_tab_from_layout(ws.workspace_id, missing[j], l)]
           create == [call |-> "workspace.create", ws |-> ws]
<1>1. restore_workspace(ws, l) = adds \/ restore_workspace(ws, l) = <<create>>
  BY DEF restore_workspace
<1>2. IsSeq(missing) /\ Range(missing) \subseteq Range(ws.tabs)
  <2> DEFINE K == {j \in DOMAIN ws.tabs : ~TabAlive(ws.tabs[j], l)}
  <2>1. K \in SUBSET DOMAIN ws.tabs /\ IsSeq(ws.tabs)
    BY DEF IsWorkspaceSnap
  <2> HIDE DEF K
  <2>2. IsSeq(Keep(ws.tabs, K)) /\ Range(Keep(ws.tabs, K)) \subseteq Range(ws.tabs)
    BY <2>1, KeepIsSeq
  <2>3. QED
    BY <2>2 DEF K
<1> HIDE DEF missing
<1>3. \A j \in DOMAIN missing : IsTabSnap(missing[j])
  BY <1>2 DEF IsWorkspaceSnap, Range
<1>4. IsSeq(adds) /\ \A c \in Range(adds) : IsPlanned(c) /\ c.call # "pane.split"
  <2>1. IsSeq(adds)
    BY <1>2, MapIsSeq
  <2>2. ASSUME NEW c \in Range(adds) PROVE IsPlanned(c) /\ c.call # "pane.split"
    <3>1. PICK j \in DOMAIN missing : c = create_tab_from_layout(ws.workspace_id, missing[j], l)
      BY DEF Range
    <3>2. QED
      BY <1>3, <3>1, TabsAdded
  <2>3. QED
    BY <2>1, <2>2
<1> HIDE DEF adds
<1>5. create.call = "workspace.create" /\ create.ws = ws
  OBVIOUS
<1> HIDE DEF create
<1>6. IsPlanned(create) /\ create.call # "pane.split"
  BY <1>5 DEF IsPlanned
<1>7. IsSeq(<<create>>) /\ Range(<<create>>) = {create}
  BY OneIsSeq
<1>8. QED
  BY <1>1, <1>4, <1>6, <1>7 DEF IsPlan, SplitsNothing

LEMMA TabPlan ==
  ASSUME NEW ws, IsWorkspaceSnap(ws), 1 \in DOMAIN ws.tabs, NEW l
  PROVE  IsPlan(restore_tab_granularity(ws, l))
<1> DEFINE tab == ws.tabs[1]
           add == create_tab_from_layout(ws.workspace_id, tab, l)
<1>1. restore_tab_granularity(ws, l) \in {restore_workspace(ws, l), << >>, <<add>>}
  BY DEF restore_tab_granularity
<1>2. IsTabSnap(tab)
  BY DEF IsWorkspaceSnap, Range
<1> HIDE DEF tab
<1>3. IsPlanned(add) /\ add.call # "pane.split"
  BY <1>2, TabsAdded
<1> HIDE DEF add
<1>4. IsPlan(<<add>>)
  BY <1>3, OneIsSeq DEF IsPlan
<1>5. IsPlan(<< >>)
  BY EmptyIsSeq DEF IsPlan
<1>6. IsPlan(restore_workspace(ws, l))
  BY WorkspacePlan
<1>7. QED
  BY <1>1, <1>4, <1>5, <1>6

LEMMA PanePlan ==
  ASSUME NEW ws, IsWorkspaceSnap(ws), 1 \in DOMAIN ws.tabs, NEW l,
         NEW p \in restore_pane_granularity(ws, l)
  PROVE  IsPlan(p)
<1> DEFINE tab   == ws.tabs[1]
           pane  == CHOOSE x \in tab.panes : TRUE
           cwd   == tab.layout[PathOf(tab.layout, pane)].cwd
           alone == [tab EXCEPT !.layout = Leaf(pane, cwd)]
           live_panes == {x.id : x \in {q \in l.panes : q.tab = tab.tab_id}}
<1>1. \/ \E x \in live_panes : p = <<split_beside(tab, pane, x, live_panes)>>
      \/ p = restore_tab_granularity(ws_shell(ws, alone), l)
  BY DEF restore_pane_granularity
<1>2. IsTabSnap(tab)
  BY DEF IsWorkspaceSnap, Range
<1> HIDE DEF tab, pane, cwd
<1>3. IsTabSnap(alone)
  <2> DEFINE leaf == Leaf(pane, cwd)
  <2>1. HasPanes(leaf)
    BY LeafHasPanes
  <2> HIDE DEF leaf
  <2>2. IsTabSnap([tab EXCEPT !.layout = leaf])
    BY <1>2, <2>1, TabSnapFields
  <2>3. QED
    BY <2>2 DEF leaf
<1> HIDE DEF alone, live_panes
<1>4. CASE p = restore_tab_granularity(ws_shell(ws, alone), l)
  <2> DEFINE shell == ws_shell(ws, alone)
  <2>1. IsWorkspaceSnap(shell) /\ 1 \in DOMAIN shell.tabs
    BY <1>3, ShellOfOne
  <2> HIDE DEF shell
  <2>2. IsPlan(restore_tab_granularity(shell, l))
    BY <2>1, TabPlan
  <2>3. QED
    BY <1>4, <2>2 DEF shell
<1>5. CASE \E x \in live_panes : p = <<split_beside(tab, pane, x, live_panes)>>
  <2>1. PICK x \in live_panes : p = <<split_beside(tab, pane, x, live_panes)>>
    BY <1>5
  <2> DEFINE c == split_beside(tab, pane, x, live_panes)
  <2>2. c.call = "pane.split"
    BY DEF split_beside
  <2> HIDE DEF c
  <2>3. IsSeq(<<c>>) /\ Range(<<c>>) = {c} /\ Len(<<c>>) = 1
    BY OneIsSeq
  <2>4. p = <<c>>
    BY <2>1 DEF c
  <2>5. QED
    BY <2>2, <2>3, <2>4 DEF IsPlan, IsPlanned
<1>6. QED
  BY <1>1, <1>4, <1>5

LEMMA EachPlan ==
  ASSUME NEW left, \A ws \in left : IsWorkspaceSnap(ws)
  PROVE  IsPlan(RestoreEach(left)) /\ SplitsNothing(RestoreEach(left))
<1> DEFINE c == [call |-> "restore_workspace", left |-> left]
<1>1. c.call = "restore_workspace" /\ c.left = left
  OBVIOUS
<1>2. RestoreEach(left) = << >> \/ RestoreEach(left) = <<c>>
  BY DEF RestoreEach
<1> HIDE DEF c
<1>3. IsPlanned(c) /\ c.call # "pane.split"
  BY <1>1 DEF IsPlanned
<1>4. QED
  BY <1>2, <1>3, OneIsSeq, EmptyIsSeq DEF IsPlan, SplitsNothing

LEMMA SnapsOfSession ==
  ASSUME NEW i \in DOMAIN Session
  PROVE  IsWorkspaceSnap(WorkspaceSnap(i))
<1> DEFINE w    == Session[i]
           tabs == [j \in DOMAIN w.tabs |-> TabSnap(w, j)]
           ws   == WorkspaceSnap(i)
<1>1. w \in Range(Session)
  BY DEF Range
<1>2. ws = [workspace_id |-> w.id, label |-> w.label, index |-> i - 1, cwd |-> w.cwd,
            active_tab_id |-> w.active, tabs |-> tabs]
  BY DEF WorkspaceSnap
<1> HIDE DEF w, ws
<1>3. IsSeq(w.tabs) /\ \A t \in Range(w.tabs) : HasPanes(t.layout)
  BY <1>1, SessionAssumption DEF IsSeq, HasPanes, PaneIds
<1>4. ASSUME NEW j \in DOMAIN w.tabs PROVE IsTabSnap(TabSnap(w, j))
  <2> DEFINE tab == TabSnap(w, j)
  <2>1. tab = [tab_id |-> tab.tab_id, label |-> tab.label, index |-> tab.index,
               layout |-> tab.layout, focused_pane_id |-> tab.focused_pane_id,
               panes |-> tab.panes] /\ tab.layout = w.tabs[j].layout
    BY DEF TabSnap
  <2> HIDE DEF tab
  <2>2. HasPanes(tab.layout)
    BY <1>3, <2>1 DEF Range
  <2>3. IsTabSnap(tab)
    BY <2>1, <2>2 DEF IsTabSnap
  <2>4. QED
    BY <2>3 DEF tab
<1>5. IsSeq(tabs) /\ \A tab \in Range(tabs) : IsTabSnap(tab)
  <2>1. IsSeq(tabs)
    BY <1>3, MapIsSeq
  <2>2. ASSUME NEW tab \in Range(tabs) PROVE IsTabSnap(tab)
    <3>1. PICK j \in DOMAIN w.tabs : tab = TabSnap(w, j)
      BY DEF Range
    <3>2. QED
      BY <1>4, <3>1
  <2>3. QED
    BY <2>1, <2>2
<1> HIDE DEF tabs
<1>6. ws = [workspace_id |-> ws.workspace_id, label |-> ws.label, index |-> ws.index,
            cwd |-> ws.cwd, active_tab_id |-> ws.active_tab_id, tabs |-> ws.tabs]
      /\ ws.tabs = tabs
  BY <1>2
<1>7. IsWorkspaceSnap(ws)
  BY <1>5, <1>6 DEF IsWorkspaceSnap
<1>8. QED
  BY <1>7 DEF ws

\* A closed tab or pane is remembered with the workspace it was in.
EntryInv ==
  /\ \A ws \in entry.workspaces : IsWorkspaceSnap(ws)
  /\ entry.granularity \in {"tab", "pane"} => \A ws \in entry.workspaces : 1 \in DOMAIN ws.tabs

LEMMA EntryOfOne ==
  ASSUME NEW ws, IsWorkspaceSnap(ws), 1 \in DOMAIN ws.tabs,
         NEW granularity, entry = Entry(granularity, {ws})
  PROVE  EntryInv
BY DEF EntryInv, Entry

LEMMA InitialEntry ==
  ASSUME WorkspacesClose \/ TabCloses \/ PaneCloses
  PROVE  EntryInv
<1>1. CASE WorkspacesClose
  <2>1. PICK S \in SUBSET DOMAIN Session :
          entry = Entry(IF Cardinality(S) = 1 THEN "workspace" ELSE "workspace_group",
                        {WorkspaceSnap(i) : i \in S})
    BY <1>1 DEF WorkspacesClose
  <2>2. /\ entry.workspaces = {WorkspaceSnap(i) : i \in S}
        /\ entry.granularity \in {"workspace", "workspace_group"}
    BY <2>1 DEF Entry
  <2>3. \A ws \in entry.workspaces : IsWorkspaceSnap(ws)
    BY <2>2, SnapsOfSession
  <2>4. QED
    BY <2>2, <2>3 DEF EntryInv
<1>2. CASE TabCloses
  <2>1. PICK i \in DOMAIN Session : \E tab \in Range(WorkspaceSnap(i).tabs) :
               entry = Entry("tab", {ws_shell(WorkspaceSnap(i), tab)})
    BY <1>2 DEF TabCloses
  <2> DEFINE snap == WorkspaceSnap(i)
  <2>2. IsWorkspaceSnap(snap)
    BY SnapsOfSession
  <2> HIDE DEF snap
  <2>3. PICK tab \in Range(snap.tabs) : entry = Entry("tab", {ws_shell(snap, tab)})
    BY <2>1 DEF snap
  <2>4. IsTabSnap(tab)
    BY <2>2 DEF IsWorkspaceSnap
  <2> DEFINE ws == ws_shell(snap, tab)
  <2>5. IsWorkspaceSnap(ws) /\ 1 \in DOMAIN ws.tabs /\ entry = Entry("tab", {ws})
    BY <2>2, <2>3, <2>4, ShellOfOne
  <2> HIDE DEF ws
  <2>6. QED
    BY <2>5, EntryOfOne
<1>3. CASE PaneCloses
  <2>1. PICK i \in DOMAIN Session :
          \E tab \in Range(WorkspaceSnap(i).tabs) : \E pane \in tab.panes :
            \/ entry = Entry("pane", {ws_shell(WorkspaceSnap(i), [tab EXCEPT !.panes = {pane}])})
            \/ entry = Entry("pane", {Hydrated(WorkspaceSnap(i), tab, pane)})
    BY <1>3 DEF PaneCloses
  <2> DEFINE snap == WorkspaceSnap(i)
  <2>2. IsWorkspaceSnap(snap)
    BY SnapsOfSession
  <2> HIDE DEF snap
  <2>3. PICK tab \in Range(snap.tabs) : \E pane \in tab.panes :
            \/ entry = Entry("pane", {ws_shell(snap, [tab EXCEPT !.panes = {pane}])})
            \/ entry = Entry("pane", {Hydrated(snap, tab, pane)})
    BY <2>1 DEF snap
  <2>4. PICK pane \in tab.panes :
            \/ entry = Entry("pane", {ws_shell(snap, [tab EXCEPT !.panes = {pane}])})
            \/ entry = Entry("pane", {Hydrated(snap, tab, pane)})
    BY <2>3
  <2>5. IsTabSnap(tab)
    BY <2>2 DEF IsWorkspaceSnap
  <2> DEFINE panes == {pane}
             cwd   == tab.layout[PathOf(tab.layout, pane)].cwd
             leaf  == Leaf(pane, cwd)
             one   == [tab EXCEPT !.panes = panes]
             lost  == [tab EXCEPT !.label = None, !.index = 0, !.focused_pane_id = None,
                                  !.panes = panes, !.layout = leaf]
             a     == ws_shell(snap, one)
             b     == [ws_shell(snap, lost) EXCEPT !.index = 0, !.cwd = cwd, !.active_tab_id = None]
  <2>6. entry = Entry("pane", {a}) \/ entry = Entry("pane", {b})
    BY <2>4 DEF Hydrated
  <2>7. HasPanes(leaf)
    BY LeafHasPanes
  <2> HIDE DEF panes, cwd, leaf
  <2>8. IsTabSnap(one) /\ IsTabSnap(lost)
    BY <2>5, <2>7, TabSnapFields
  <2> HIDE DEF one, lost
  <2>9. IsWorkspaceSnap(a) /\ 1 \in DOMAIN a.tabs /\ IsWorkspaceSnap(b) /\ 1 \in DOMAIN b.tabs
    BY <2>2, <2>8, ShellOfOne
  <2> HIDE DEF a, b
  <2>10. QED
    BY <2>6, <2>9, EntryOfOne
<1>4. QED
  BY <1>1, <1>2, <1>3

LEMMA PlansArePlans ==
  ASSUME EntryInv, NEW l, NEW p \in Plans(l)
  PROVE  IsPlan(p)
<1>1. CASE entry.granularity = "pane"
  <2>1. PICK ws \in entry.workspaces : p \in restore_pane_granularity(ws, l)
    BY <1>1 DEF Plans
  <2>2. IsWorkspaceSnap(ws) /\ 1 \in DOMAIN ws.tabs
    BY <1>1 DEF EntryInv
  <2>3. QED
    BY <2>1, <2>2, PanePlan
<1>2. CASE entry.granularity = "tab"
  <2>1. PICK ws \in entry.workspaces : p = restore_tab_granularity(ws, l)
    BY <1>2 DEF Plans
  <2>2. IsWorkspaceSnap(ws) /\ 1 \in DOMAIN ws.tabs
    BY <1>2 DEF EntryInv
  <2>3. QED
    BY <2>1, <2>2, TabPlan
<1>3. CASE entry.granularity \notin {"pane", "tab"}
  <2>1. p = RestoreEach(entry.workspaces)
    BY <1>3 DEF Plans
  <2>2. QED
    BY <2>1, EachPlan DEF EntryInv
<1>4. QED
  BY <1>1, <1>2, <1>3

(***************************************************************************)
(* The inductive invariant.                                                *)
(***************************************************************************)
IsCall(c, ids) ==
  \/ IsPlanned(c)
  \/ c.call = "layout.apply" /\ IsTabSnap(c.tab) /\ c.placeholder \in ids
  \/ c.call = "restore_occupant" /\ ids # {} /\ c.panes \subseteq ids
  \/ c.call \in {"arrange", "tab.rename", "tab.move", "tab.focus", "pane.focus", "pane.swap"}

\* Ids below n have been given out.
HomesBelow(homes, n) == \A home \in homes : \A k \in 1 .. 3 : home[k] \in 0 .. n - 1

\* What is on record was made by herdr for the restore, which gets new ids only.
HerdrInv ==
  /\ next \in Nat /\ next >= FirstNew /\ Sound(herdr, next) /\ HomesBelow(given, next)
  /\ recorded \subseteq made /\ made \subseteq FirstNew .. next - 1

\* Whoever has now the id of a tab on record, there is nothing in it that neither the
\* restore nor the user put there.
KnownPanes ==
  \A t \in TabsIn(herdr) : t.id \in recorded => PaneIds(t.layout) \subseteq recorded \cup theirs

\* A pane is split only by the last call of a restore that has made nothing yet: the
\* tab it goes to is not on record.
CallsInv ==
  /\ EntryInv /\ IsSeq(created) /\ IsSeq(calls)
  /\ \A c \in Range(calls) :
       IsCall(c, recorded) /\ (c.call = "pane.split" => Len(calls) = 1 /\ recorded = {})

Fetching == {"idle", "workspaces", "tabs", "panes"}

ReportInv ==
  /\ report = [workspaces |-> report.workspaces, tabs |-> report.tabs,
               panes |-> report.panes, failed |-> report.failed]
  /\ report.failed \in BOOLEAN
  /\ report.workspaces \subseteq recorded /\ report.tabs \subseteq recorded
  /\ report.panes \subseteq recorded
  /\ created_nothing(report) <=> recorded = {}
  /\ pc \in Fetching => recorded = {}
  /\ pc = "over" => (stacked <=> recorded = {})

ReopenInv == HerdrInv /\ KnownPanes /\ CallsInv /\ ReportInv /\ OwnClosesAreRecorded

LEMMA HomesAreBelow ==
  ASSUME NEW n \in Nat, NEW h, Sound(h, n) PROVE HomesBelow(Homes(h), n)
<1> SUFFICES ASSUME NEW home \in Homes(h) PROVE \A k \in 1 .. 3 : home[k] \in 0 .. n - 1
  BY DEF HomesBelow
<1>1. PICK w \in Range(h) : \E t \in Range(w.tabs) : \E pane \in PaneIds(t.layout) :
        home = <<w.id, t.id, pane>>
  BY DEF Homes
<1>2. PICK i \in DOMAIN h : w = h[i]
  BY DEF Range
<1>3. w.id \in 0 .. n - 1 /\ \A t \in Range(w.tabs) : Shown(t, n)
  BY <1>2, SoundWorkspace
<1>4. \A t \in Range(w.tabs) : t.id \in 0 .. n - 1 /\ PaneIds(t.layout) \subseteq 0 .. n - 1
  BY <1>3 DEF Shown
<1>5. PICK t \in Range(w.tabs) : \E pane \in PaneIds(t.layout) : home = <<w.id, t.id, pane>>
  BY <1>1
<1>6. QED
  BY <1>3, <1>4, <1>5

LEMMA HomesGrow ==
  ASSUME NEW n \in Nat, NEW m \in Nat, n <= m, NEW homes, HomesBelow(homes, n),
         NEW h, Sound(h, m), NEW more, more \subseteq homes \cup Homes(h)
  PROVE  HomesBelow(more, m)
<1>1. HomesBelow(Homes(h), m)
  BY HomesAreBelow
<1>2. \A x \in 0 .. n - 1 : x \in 0 .. m - 1
  OBVIOUS
<1>3. QED
  BY <1>1, <1>2 DEF HomesBelow

LEMMA HerdrIs ==
  ASSUME HerdrInv
  PROVE  /\ FirstNew \in Nat /\ IsSession(herdr) /\ recorded \subseteq FirstNew .. next - 1
         /\ \A t \in TabsIn(herdr) : t.id < next /\ t.id \in Nat
<1>1. next \in Nat /\ FirstNew \in Nat
  BY IdAssumption DEF HerdrInv
<1>2. \A t \in TabsIn(herdr) : t.id \in 0 .. next - 1
  BY DEF HerdrInv, Sound, Numbered
<1>3. IsSession(herdr) /\ recorded \subseteq FirstNew .. next - 1
  BY DEF HerdrInv, Sound, Numbered
<1>4. QED
  BY <1>1, <1>2, <1>3

LEMMA InitialHerdr ==
  ASSUME WorkspacesClose \/ TabCloses \/ PaneCloses
  PROVE  Sound(herdr, FirstNew)
<1>1. Sound(Session, FirstNew) /\ FirstNew \in Nat
  BY SessionSound, IdAssumption
<1>2. CASE WorkspacesClose
  <2>1. PICK S : herdr = Keep(Session, DOMAIN Session \ S)
    BY <1>2 DEF WorkspacesClose
  <2> DEFINE K == DOMAIN Session \ S
  <2>2. K \in SUBSET DOMAIN Session /\ herdr = Keep(Session, K)
    BY <2>1
  <2> HIDE DEF K
  <2>3. QED
    BY <1>1, <2>2, KeepSound
<1>3. CASE TabCloses
  <2>1. PICK id : herdr = WithoutTab(Session, id)
    BY <1>3 DEF TabCloses
  <2> DEFINE out == {id}
  <2>2. id \in out
    OBVIOUS
  <2> HIDE DEF out
  <2>3. QED
    BY <1>1, <2>1, <2>2, WithoutTabSound
<1>4. CASE PaneCloses
  <2>1. PICK pane : herdr = WithoutPane(Session, pane)
    BY <1>4, Zenon DEF PaneCloses
  <2>2. QED
    BY <1>1, <2>1, WithoutPaneSound
<1>5. QED
  BY <1>2, <1>3, <1>4

LEMMA ReopenInit == ASSUME Init PROVE ReopenInv
<1>1. /\ WorkspacesClose \/ TabCloses \/ PaneCloses
      /\ next = FirstNew /\ recorded = {} /\ replaced = {} /\ made = {} /\ pc = "idle"
      /\ calls = << >> /\ created = << >>
      /\ report = [workspaces |-> {}, tabs |-> {}, panes |-> {}, failed |-> FALSE]
  BY DEF Init
<1>2. HerdrInv
  <2>1. Sound(herdr, next) /\ next \in Nat /\ given = Homes(Session) /\ made = {}
    BY <1>1, InitialHerdr, IdAssumption DEF Init
  <2>2. HomesBelow(Homes(Session), next)
    BY <1>1, <2>1, SessionSound, HomesAreBelow
  <2>3. QED
    BY <1>1, <2>1, <2>2 DEF HerdrInv
<1>3. CallsInv
  BY <1>1, InitialEntry, EmptyIsSeq DEF CallsInv
<1>4. ReportInv
  BY <1>1 DEF ReportInv, created_nothing
<1>5. OwnClosesAreRecorded /\ KnownPanes
  BY <1>1 DEF OwnClosesAreRecorded, KnownPanes
<1>6. QED
  BY <1>2, <1>3, <1>4, <1>5 DEF ReopenInv

(***************************************************************************)
(* The requests that make something, on what is open.                      *)
(***************************************************************************)
LEMMA WorkspaceMade ==
  ASSUME HerdrInv, NEW label, NEW cwd,
         NEW tab, tab = Tab(next + 1, None, next + 2, Leaf(next + 2, cwd)),
         NEW after, after = WithWorkspace(herdr, next, label, cwd, tab)
  PROVE  /\ IsTab(tab) /\ tab.id = next + 1 /\ \A id \in PaneIds(tab.layout) : id = next + 2
         /\ Within(after, TabsIn(herdr) \cup {tab})
         /\ Sound(after, next + 2 + 1) /\ Stays(herdr, after, {})
<1> DEFINE leaf == Leaf(next + 2, cwd)
           one  == {next + 2}
           m    == next + 2 + 1
<1>1. /\ next \in Nat /\ Sound(herdr, next) /\ m \in Nat /\ m >= next /\ next + 1 \in Nat
      /\ next \in 0 .. m - 1 /\ next + 1 \in 0 .. m - 1 /\ next + 2 \in 0 .. m - 1
  BY DEF HerdrInv
<1>2. IsLayout(leaf) /\ PanesApart(leaf) /\ PaneIds(leaf) = one
  BY LeafIsLayout
<1>3. next + 2 \in one /\ \A id \in one : id = next + 2
  OBVIOUS
<1> HIDE DEF leaf, one
<1>4. IsTab(tab) /\ tab.id = next + 1 /\ tab.layout = leaf /\ tab.focused = next + 2
  <2>1. tab = Tab(next + 1, None, next + 2, leaf)
    BY DEF leaf
  <2>2. QED
    BY <1>1, <1>2, <2>1, NewTab
<1> HIDE DEF m
<1>5. Shown(tab, m)
  BY <1>1, <1>2, <1>3, <1>4 DEF Shown
<1>6. next \notin IdsIn(herdr) /\ Sound(herdr, m)
  <2>1. \A i \in DOMAIN herdr : herdr[i].id \in 0 .. next - 1
    BY <1>1, SoundWorkspace
  <2>2. next \notin IdsIn(herdr)
    BY <1>1, <2>1 DEF IdsIn
  <2>3. QED
    BY <1>1, <2>2, SoundGrows
<1> DEFINE none == {}
<1> HIDE DEF none
<1>7. Sound(after, m) /\ Stays(herdr, after, none)
  BY <1>1, <1>4, <1>5, <1>6, WithWorkspaceSound
<1>8. Within(after, TabsIn(herdr) \cup {tab})
  BY <1>1, <1>4, WithWorkspaceWithin DEF Sound, Numbered
<1>9. QED
  BY <1>2, <1>3, <1>4, <1>7, <1>8 DEF m, none

LEMMA LayoutApplied ==
  ASSUME HerdrInv, NEW into, NEW placeholder,
         NEW layout, HasPanes(layout), NEW root, root = strip_pane_ids(layout),
         NEW n, n = Cardinality(Leaves(root)), NEW label,
         NEW tab, tab = Tab(next, label, next + 1, Filled(root, next + 1)),
         NEW after, after = Applied(herdr, into, placeholder, label, root)
  PROVE  /\ n \in Nat /\ IsTab(tab) /\ tab.id = next
         /\ PaneIds(Filled(root, next + 1)) = next + 1 .. next + n
         /\ Within(after, TabsIn(herdr) \cup {tab})
         /\ Sound(after, next + n + 1) /\ Stays(herdr, after, {placeholder})
<1> DEFINE full == Filled(root, next + 1)
           ids  == next + 1 .. next + n
           m    == next + n + 1
           h1   == WithTab(herdr, into, tab)
           out  == {placeholder}
<1>1. next \in Nat /\ Sound(herdr, next) /\ recorded \subseteq made /\ IsSession(herdr)
  BY DEF HerdrInv, Sound, Numbered
<1>2. IsLayout(root) /\ Leaves(root) # {} /\ n \in Nat
  <2>1. IsLayout(root) /\ Leaves(root) # {}
    BY StripIsLayout DEF HasPanes
  <2>2. QED
    BY <2>1, LeavesAreListed
<1>3. n # 0
  <2>1. IsFiniteSet(Leaves(root))
    BY <1>2, LeavesAreListed
  <2>2. QED
    BY <1>2, <2>1, FS_EmptySet
<1>4. IsLayout(full) /\ PanesApart(full) /\ PaneIds(full) = ids
  <2> DEFINE k == next + 1
  <2>1. k \in Nat /\ k + n - 1 = next + n
    BY <1>1, <1>2
  <2>2. full = Filled(root, k) /\ ids = k .. k + n - 1
    BY <2>1
  <2> HIDE DEF k
  <2>3. /\ IsLayout(Filled(root, k)) /\ PanesApart(Filled(root, k))
        /\ PaneIds(Filled(root, k)) = k .. k + n - 1
    BY <1>2, <2>1, FilledIsLayout
  <2>4. QED
    BY <2>2, <2>3
<1> HIDE DEF full
<1>5. IsTab(tab) /\ tab.id = next /\ tab.layout = full /\ tab.focused = next + 1
  <2>1. tab = Tab(next, label, next + 1, full)
    BY DEF full
  <2>2. QED
    BY <1>1, <1>4, <2>1, NewTab
<1>6. Shown(tab, m) /\ m \in Nat /\ m >= next
  <2>1. \A id \in ids : id \in 0 .. m - 1
    BY <1>1, <1>2
  <2>2. next \in 0 .. m - 1 /\ next + 1 \in ids /\ m \in Nat /\ m >= next
    BY <1>1, <1>2, <1>3
  <2> HIDE DEF ids, m
  <2>3. QED
    BY <1>4, <1>5, <2>1, <2>2 DEF Shown
<1>7. after = WithoutTab(h1, placeholder)
  BY DEF Applied
<1> HIDE DEF m, ids
<1>8. Sound(after, m) /\ Stays(herdr, after, out)
  <2>1. Sound(herdr, m)
    BY <1>1, <1>6, SoundGrows
  <2>2. \A t \in TabsIn(herdr) : t.id # tab.id
    BY <1>1, <1>5, HerdrIs
  <2>3. placeholder \in out
    OBVIOUS
  <2> HIDE DEF out
  <2>4. QED
    BY <1>5, <1>6, <1>7, <2>1, <2>2, <2>3, ReplacedSound
<1> HIDE DEF h1
<1>9. Within(after, TabsIn(herdr) \cup {tab})
  <2>1. Within(h1, TabsIn(herdr) \cup {tab})
    BY <1>1, <1>5, WithTabWithin DEF h1
  <2>2. Within(WithoutTab(h1, placeholder), TabsIn(h1))
    BY <2>1, WithoutTabWithin DEF Within
  <2>3. QED
    BY <1>7, <2>1, <2>2, WithinIsTransitive
<1>10. QED
  BY <1>2, <1>4, <1>5, <1>8, <1>9 DEF full, m, ids, out

LEMMA PaneMade ==
  ASSUME HerdrInv, NEW target, NEW direction, NEW ratio, NEW cwd,
         NEW after, after = PaneSplit(herdr, target, direction, ratio, Pane(next, cwd))
  PROVE  /\ Sound(after, next + 1) /\ Stays(herdr, after, {})
         /\ \A t \in TabsIn(after) : \E s \in TabsIn(herdr) :
              t.id = s.id /\ PaneIds(t.layout) \subseteq PaneIds(s.layout) \cup {next}
<1> DEFINE m   == next + 1
           out == {}
<1>1. next \in Nat /\ Sound(herdr, next) /\ m \in Nat /\ m >= next /\ next \in 0 .. m - 1
  BY DEF HerdrInv
<1>2. \A t \in TabsIn(herdr) : next \notin PaneIds(t.layout)
  <2>1. \A t \in TabsIn(herdr) : \A id \in PaneIds(t.layout) : id \in 0 .. next - 1
    BY <1>1, FullTab
  <2>2. QED
    BY <1>1, <2>1
<1> HIDE DEF m, out
<1>3. Sound(after, m) /\ Stays(herdr, after, out) /\ GrownBy(herdr, after, {next})
  BY ONLY <1>1, <1>2, after = PaneSplit(herdr, target, direction, ratio, Pane(next, cwd)),
          PaneSplitSound
<1>4. QED
  BY <1>3 DEF m, out, GrownBy

\* A request whose answer is not looked at.
Harmless(after) ==
  Within(after, TabsIn(herdr)) /\ Sound(after, next) /\ Stays(herdr, after, {})

LEMMA TriedRequests ==
  ASSUME HerdrInv, RenameTab \/ MoveTab \/ FocusTab \/ FocusPane \/ SwapPanes
  PROVE  \E name, after : Try(name, after) /\ Harmless(after)
<1>1. next \in Nat /\ Sound(herdr, next) /\ IsSession(herdr)
  BY DEF HerdrInv, Sound, Numbered
<1>2. \A tab, label : Harmless(Renamed(herdr, tab, label))
  BY <1>1, RenamedWithin, RenamedSound DEF Harmless
<1>3. \A tab, index : Harmless(Moved(herdr, tab, index))
  BY <1>1, MovedWithin, MovedSound DEF Harmless
<1>4. \A tab : Harmless(TabFocused(herdr, tab))
  BY <1>1, TabFocusedWithin, TabFocusedSound DEF Harmless
<1>5. \A pane : Harmless(PaneFocused(herdr, pane))
  BY <1>1, PaneFocusedWithin, PaneFocusedSound DEF Harmless
<1>6. \A a, b : Harmless(PanesSwapped(herdr, a, b))
  BY <1>1, PanesSwappedWithin, PanesSwappedSound DEF Harmless
<1>7. CASE RenameTab
  BY <1>2, <1>7 DEF RenameTab
<1>8. CASE MoveTab
  BY <1>3, <1>8 DEF MoveTab
<1>9. CASE FocusTab
  BY <1>4, <1>9 DEF FocusTab
<1>10. CASE FocusPane
  BY <1>5, <1>10 DEF FocusPane
<1>11. CASE SwapPanes
  BY <1>6, <1>11 DEF SwapPanes
<1>12. QED
  BY <1>7, <1>8, <1>9, <1>10, <1>11

(***************************************************************************)
(* The steps.                                                              *)
(***************************************************************************)
LEMMA CallStays ==
  ASSUME NEW ids, NEW ids2, ids \subseteq ids2, NEW c, IsCall(c, ids) PROVE IsCall(c, ids2)
BY DEF IsCall

LEMMA HerdrStep ==
  ASSUME HerdrInv, Sound(herdr', next'), next' \in Nat, next' >= next,
         recorded' \subseteq made', made' \subseteq FirstNew .. next' - 1,
         given' \subseteq given \cup Homes(herdr')
  PROVE  HerdrInv'
<1>1. next' >= FirstNew
  BY IdAssumption DEF HerdrInv
<1>2. HomesBelow(given', next')
  BY HomesGrow DEF HerdrInv
<1>3. QED
  BY <1>1, <1>2 DEF HerdrInv

\* What is open after a step was open before, or is in a new tab.
LEMMA KnownStep ==
  ASSUME KnownPanes, NEW new, Within(herdr', TabsIn(herdr) \cup new),
         recorded \subseteq recorded', theirs \subseteq theirs',
         \A t \in new : t.id \in recorded' => PaneIds(t.layout) \subseteq recorded' \cup theirs',
         \A t \in TabsIn(herdr) : t.id \in recorded' => t.id \in recorded
  PROVE  KnownPanes'
<1> SUFFICES ASSUME NEW t \in TabsIn(herdr'), t.id \in recorded'
             PROVE  PaneIds(t.layout) \subseteq recorded' \cup theirs'
  BY DEF KnownPanes
<1>1. PICK s \in TabsIn(herdr) \cup new : LeftOf(t, s)
  BY DEF Within
<1>2. s.id = t.id /\ PaneIds(t.layout) \subseteq PaneIds(s.layout)
  BY <1>1 DEF LeftOf
<1>3. PaneIds(s.layout) \subseteq recorded' \cup theirs'
  BY <1>1, <1>2 DEF KnownPanes
<1>4. QED
  BY <1>2, <1>3

\* The calls after a step that makes the first one: none of them is a split.
LEMMA CallsStep ==
  ASSUME CallsInv, calls # << >>, UNCHANGED entry, IsSeq(created)',
         NEW more, IsSeq(more), SplitsNothing(more), calls' = more \o Tail(calls),
         \A c \in Range(more) : IsCall(c, recorded'),
         \A c \in Range(Tail(calls)) : IsCall(c, recorded')
  PROVE  CallsInv'
<1> DEFINE rest == Tail(calls)
<1>1. /\ IsSeq(calls) /\ \A c \in Range(calls) : c.call = "pane.split" => Len(calls) = 1
  BY DEF CallsInv
<1>2. IsSeq(rest) /\ Range(rest) \subseteq Range(calls) /\ (Len(calls) = 1 => rest = << >>)
  BY <1>1, TailIsSeq
<1> HIDE DEF rest
<1>3. ASSUME NEW c \in Range(rest) PROVE c.call # "pane.split"
  BY <1>1, <1>2, EmptyIsSeq
<1>4. IsSeq(calls') /\ Range(calls') \subseteq Range(more) \cup Range(rest)
  <2>1. calls' = more \o rest
    BY DEF rest
  <2>2. QED
    BY <1>2, <2>1, ConcatIsSeq
<1>5. \A c \in Range(calls') : IsCall(c, recorded') /\ c.call # "pane.split"
  <2>1. \A c \in Range(rest) : IsCall(c, recorded')
    BY DEF rest
  <2>2. QED
    BY <1>3, <1>4, <2>1 DEF SplitsNothing
<1>6. EntryInv'
  BY DEF CallsInv, EntryInv
<1>7. QED
  BY <1>4, <1>5, <1>6 DEF CallsInv

LEMMA FirstCall ==
  ASSUME CallsInv, NEW name, Due(name)
  PROVE  /\ pc = "calling" /\ calls # << >> /\ Head(calls) \in Range(calls)
         /\ IsCall(Head(calls), recorded) /\ Head(calls).call = name
         /\ Range(Tail(calls)) \subseteq Range(calls)
         /\ \A c \in Range(Tail(calls)) : IsCall(c, recorded)
         /\ name = "pane.split" => Tail(calls) = << >>
<1>1. pc = "calling" /\ calls # << >> /\ Head(calls).call = name
  BY DEF Due
<1>2. /\ Head(calls) \in Range(calls) /\ Range(Tail(calls)) \subseteq Range(calls)
      /\ (Len(calls) = 1 => Tail(calls) = << >>)
  BY <1>1, TailIsSeq DEF CallsInv
<1>3. QED
  BY <1>1, <1>2 DEF CallsInv

\* A step that leaves herdr and the records alone.
LEMMA NothingMade ==
  ASSUME ReopenInv, UNCHANGED <<herdr, next, recorded, made, replaced, given, theirs>>, CallsInv',
         /\ report'.workspaces = report.workspaces /\ report'.tabs = report.tabs
         /\ report'.panes = report.panes,
         report' = [workspaces |-> report'.workspaces, tabs |-> report'.tabs,
                    panes |-> report'.panes, failed |-> report'.failed],
         report'.failed \in BOOLEAN, pc' \in Fetching => recorded = {},
         pc' = "over" => (stacked' <=> recorded = {})
  PROVE  ReopenInv'
<1>1. HerdrInv'
  BY DEF ReopenInv, HerdrInv
<1>2. OwnClosesAreRecorded' /\ KnownPanes'
  BY DEF ReopenInv, OwnClosesAreRecorded, KnownPanes
<1>3. ReportInv'
  <2>1. created_nothing(report') <=> created_nothing(report)
    BY DEF created_nothing
  <2>2. /\ created_nothing(report) <=> recorded = {}
        /\ report.workspaces \subseteq recorded /\ report.tabs \subseteq recorded
        /\ report.panes \subseteq recorded
    BY DEF ReopenInv, ReportInv
  <2>3. QED
    BY <2>1, <2>2 DEF ReportInv
<1>4. QED
  BY <1>1, <1>2, <1>3 DEF ReopenInv

LEMMA Undecided ==
  ASSUME ReopenInv,
         UNCHANGED <<herdr, next, recorded, made, replaced, given, theirs, report, entry, created,
                     calls>>,
         pc' \in Fetching => recorded = {}, pc' = "over" => (stacked' <=> recorded = {})
  PROVE  ReopenInv'
<1>1. CallsInv'
  BY DEF ReopenInv, CallsInv, EntryInv
<1>2. QED
  BY <1>1, NothingMade DEF ReopenInv, ReportInv

LEMMA BeforeTheCalls ==
  ASSUME ReopenInv, Pop \/ FetchWorkspaces \/ FetchTabs \/ End \/ Kill
  PROVE  ReopenInv'
<1>1. UNCHANGED <<herdr, next, recorded, made, replaced, given, theirs, report, entry, created,
                  calls>>
  BY DEF Pop, FetchWorkspaces, FetchTabs, End, Kill, reply
<1>2. /\ pc' \in Fetching => recorded = {}
      /\ pc' = "over" => (stacked' <=> recorded = {})
  <2>1. CASE End
    BY <2>1 DEF End, ReopenInv, ReportInv, Fetching
  <2>2. CASE Pop \/ FetchWorkspaces \/ FetchTabs \/ Kill
    <3>1. pc' = "dead" \/ (pc \in Fetching /\ pc' \in Fetching)
      BY <2>2 DEF Pop, FetchWorkspaces, FetchTabs, Fetch, Kill, Fetching
    <3>2. QED
      BY <3>1 DEF ReopenInv, ReportInv, Fetching
  <2>3. QED
    BY <2>1, <2>2
<1>3. QED
  BY <1>1, <1>2, Undecided

LEMMA FetchPanesStep == ASSUME ReopenInv, FetchPanes PROVE ReopenInv'
<1>1. /\ pc = "panes" /\ pc' = "calling"
      /\ UNCHANGED <<herdr, entry, next, created, recorded, made, replaced, given, theirs>>
      /\ \/ Fail /\ UNCHANGED calls
         \/ calls' \in Plans(live') /\ UNCHANGED report
  BY DEF FetchPanes, Fetch
<1>2. EntryInv /\ EntryInv' /\ IsSeq(created)' /\ recorded' = {} /\ pc' \notin Fetching
  BY <1>1 DEF ReopenInv, CallsInv, EntryInv, ReportInv, Fetching
<1>3. CASE Fail /\ UNCHANGED calls
  <2>1. CallsInv'
    BY <1>1, <1>2, <1>3 DEF ReopenInv, CallsInv
  <2>2. /\ report'.workspaces = report.workspaces /\ report'.tabs = report.tabs
        /\ report'.panes = report.panes
        /\ report' = [workspaces |-> report'.workspaces, tabs |-> report'.tabs,
                      panes |-> report'.panes, failed |-> report'.failed]
        /\ report'.failed \in BOOLEAN
    BY <1>3 DEF Fail, ReopenInv, ReportInv
  <2>3. QED
    BY <1>1, <1>2, <2>1, <2>2, NothingMade
<1>4. CASE calls' \in Plans(live') /\ UNCHANGED report
  <2>1. IsPlan(calls')
    BY <1>2, <1>4, PlansArePlans
  <2>2. CallsInv'
    BY <1>2, <2>1 DEF CallsInv, IsPlan, IsCall
  <2>3. QED
    BY <1>1, <1>2, <1>4, <2>2, NothingMade DEF ReopenInv, ReportInv
<1>5. QED
  BY <1>1, <1>3, <1>4

LEMMA RestoreWorkspaceStep == ASSUME ReopenInv, RestoreWorkspace PROVE ReopenInv'
<1>1. /\ Due("restore_workspace")
      /\ UNCHANGED <<herdr, entry, stacked, pc, next, created, recorded, made, replaced, report,
                     given, theirs>>
  BY DEF RestoreWorkspace, reply
<1>2. PICK ws \in Head(calls).left :
        calls' = restore_workspace(ws, live) \o RestoreEach(Head(calls).left \ {ws}) \o Tail(calls)
  BY DEF RestoreWorkspace, Then
<1>3. /\ pc = "calling" /\ calls # << >> /\ IsCall(Head(calls), recorded)
      /\ Head(calls).call = "restore_workspace"
      /\ \A c \in Range(Tail(calls)) : IsCall(c, recorded)
  BY <1>1, FirstCall DEF ReopenInv
<1>4. \A v \in Head(calls).left : IsWorkspaceSnap(v)
  BY <1>3 DEF IsCall, IsPlanned
<1> DEFINE one  == restore_workspace(ws, live)
           each == RestoreEach(Head(calls).left \ {ws})
           more == one \o each
<1>5. IsPlan(one) /\ SplitsNothing(one) /\ IsPlan(each) /\ SplitsNothing(each)
  BY <1>4, WorkspacePlan, EachPlan
<1> HIDE DEF one, each
<1>6. IsSeq(more) /\ \A c \in Range(more) : IsPlanned(c) /\ c.call # "pane.split"
  <2>1. IsSeq(more) /\ Range(more) \subseteq Range(one) \cup Range(each)
    BY <1>5, ConcatIsSeq DEF IsPlan
  <2>2. QED
    BY <1>5, <2>1 DEF IsPlan, SplitsNothing
<1>7. calls' = more \o Tail(calls)
  BY <1>2 DEF one, each
<1> HIDE DEF more
<1>8. CallsInv'
  <2>1. /\ CallsInv /\ IsSeq(created)' /\ SplitsNothing(more)
        /\ \A c \in Range(more) : IsCall(c, recorded')
        /\ \A c \in Range(Tail(calls)) : IsCall(c, recorded')
    BY <1>1, <1>3, <1>6 DEF ReopenInv, CallsInv, SplitsNothing, IsCall
  <2>2. QED
    BY <1>1, <1>3, <1>6, <1>7, <2>1, CallsStep
<1>9. pc' # "over" /\ pc' \notin Fetching
  BY <1>1, <1>3 DEF Fetching
<1>10. QED
  BY <1>1, <1>8, <1>9, NothingMade DEF ReopenInv, ReportInv

\* What a request that makes something leaves, however it ends.
LEMMA MadeIs ==
  ASSUME NEW outcome, NEW after, NEW ids, NEW gone, NEW kind, NEW head,
         Make(outcome, after, ids, gone, kind, head)
  PROVE  /\ recorded' = IF outcome = "answered" THEN recorded \cup ids ELSE recorded
         /\ made' = IF outcome = "refused" THEN made ELSE made \cup ids
         /\ theirs' = theirs /\ given' \subseteq given \cup Homes(herdr')
         /\ replaced' \subseteq replaced \cup gone
         /\ IF outcome = "refused" THEN herdr' = herdr /\ next' = next
                                   ELSE herdr' = after /\ next' = next + Cardinality(ids)
         /\ IF outcome = "answered" THEN report' = [report EXCEPT ![kind] = @ \cup {head}]
                                    ELSE report' = [report EXCEPT !.failed = TRUE]
BY DEF Make, record_created, Fail

LEMMA MadeOnRecord ==
  ASSUME ReopenInv, NEW outcome, NEW after, NEW ids, NEW gone, gone \subseteq recorded \cup theirs,
         NEW kind, kind \in {"workspaces", "tabs", "panes"}, NEW head, head \in ids,
         Make(outcome, after, ids, gone, kind, head), pc' = "calling"
  PROVE  ReportInv' /\ OwnClosesAreRecorded' /\ recorded \subseteq recorded'
<1>1. /\ recorded' = IF outcome = "answered" THEN recorded \cup ids ELSE recorded
      /\ theirs' = theirs /\ replaced' \subseteq replaced \cup gone
      /\ IF outcome = "answered" THEN report' = [report EXCEPT ![kind] = @ \cup {head}]
                                 ELSE report' = [report EXCEPT !.failed = TRUE]
  BY MadeIs
<1>2. /\ report = [workspaces |-> report.workspaces, tabs |-> report.tabs,
                   panes |-> report.panes, failed |-> report.failed]
      /\ created_nothing(report) <=> recorded = {}
      /\ report.failed \in BOOLEAN
      /\ report.workspaces \subseteq recorded /\ report.tabs \subseteq recorded
      /\ report.panes \subseteq recorded
  BY DEF ReopenInv, ReportInv
<1>3. OwnClosesAreRecorded'
  BY <1>1 DEF ReopenInv, OwnClosesAreRecorded
<1>4. recorded \subseteq recorded' /\ pc' # "over" /\ pc' \notin Fetching
  BY <1>1 DEF Fetching
<1>5. ReportInv'
  <2>1. CASE outcome = "answered"
    <3>1. report' = [report EXCEPT ![kind] = @ \cup {head}] /\ head \in recorded'
      BY <1>1, <2>1
    <3>2. /\ report' = [workspaces |-> report'.workspaces, tabs |-> report'.tabs,
                        panes |-> report'.panes, failed |-> report'.failed]
          /\ head \in report'.workspaces \/ head \in report'.tabs \/ head \in report'.panes
          /\ report'.workspaces \subseteq report.workspaces \cup {head}
          /\ report'.tabs \subseteq report.tabs \cup {head}
          /\ report'.panes \subseteq report.panes \cup {head}
          /\ report'.failed = report.failed
      <4>1. CASE kind = "workspaces"
        BY <1>2, <3>1, <4>1
      <4>2. CASE kind = "tabs"
        BY <1>2, <3>1, <4>2
      <4>3. CASE kind = "panes"
        BY <1>2, <3>1, <4>3
      <4>4. QED
        BY <4>1, <4>2, <4>3
    <3>3. ~created_nothing(report') /\ recorded' # {}
      BY <3>1, <3>2 DEF created_nothing
    <3>4. QED
      BY <1>2, <1>4, <3>1, <3>2, <3>3 DEF ReportInv
  <2>2. CASE outcome # "answered"
    <3>1. report' = [report EXCEPT !.failed = TRUE] /\ recorded' = recorded
      BY <1>1, <2>2
    <3>2. /\ report'.workspaces = report.workspaces /\ report'.tabs = report.tabs
          /\ report'.panes = report.panes /\ report'.failed = TRUE
          /\ report' = [workspaces |-> report'.workspaces, tabs |-> report'.tabs,
                        panes |-> report'.panes, failed |-> report'.failed]
      BY <1>2, <3>1
    <3>3. created_nothing(report') <=> recorded' = {}
      BY <1>2, <3>1, <3>2 DEF created_nothing
    <3>4. QED
      BY <1>2, <1>4, <3>1, <3>2, <3>3 DEF ReportInv
  <2>3. QED
    BY <2>1, <2>2
<1>6. QED
  BY <1>1, <1>3, <1>4, <1>5

\* The same with the ids next, ..., next + n and a new tab of one of these ids.
LEMMA MadeInHerdr ==
  ASSUME ReopenInv, NEW outcome \in {"answered", "refused", "lost"}, NEW after, NEW n \in Nat,
         NEW gone, gone \subseteq recorded \cup theirs, NEW kind \in {"workspaces", "tabs", "panes"},
         Make(outcome, after, next .. next + n, gone, kind, next), pc' = "calling",
         NEW tab, tab.id \in next .. next + n, PaneIds(tab.layout) \subseteq next .. next + n,
         Within(after, TabsIn(herdr) \cup {tab}), Sound(after, next + n + 1)
  PROVE  /\ HerdrInv' /\ KnownPanes' /\ ReportInv' /\ OwnClosesAreRecorded'
         /\ \A c : IsCall(c, recorded) => IsCall(c, recorded')
         /\ outcome = "answered" => recorded' = recorded \cup next .. next + n
<1> DEFINE ids == next .. next + n
           new == {tab}
<1>1. /\ next \in Nat /\ next >= FirstNew /\ FirstNew \in Nat /\ IsSession(herdr) /\ HerdrInv
      /\ recorded \subseteq FirstNew .. next - 1 /\ made \subseteq FirstNew .. next - 1
      /\ Sound(herdr, next) /\ \A t \in TabsIn(herdr) : t.id < next /\ t.id \in Nat
  BY HerdrIs DEF ReopenInv, HerdrInv
<1>2. next \in ids /\ Cardinality(ids) = n + 1
  <2>1. next \in Int /\ next + n \in Int /\ ~(next > next + n) /\ next + n - next + 1 = n + 1
    BY <1>1
  <2>2. next \in ids
    BY <1>1
  <2>3. QED
    BY <2>1, <2>2, FS_Interval
<1>3. /\ \A id \in ids : id \in FirstNew .. (next + n + 1) - 1 /\ id \notin recorded
      /\ \A t \in TabsIn(herdr) : t.id \notin ids
  BY <1>1
<1>4. /\ \A t \in new : t.id \in ids /\ PaneIds(t.layout) \subseteq ids
      /\ Within(after, TabsIn(herdr) \cup new)
  OBVIOUS
<1>5. Make(outcome, after, ids, gone, kind, next)
  OBVIOUS
<1> HIDE DEF ids, new
<1>6. /\ recorded' = IF outcome = "answered" THEN recorded \cup ids ELSE recorded
      /\ made' = IF outcome = "refused" THEN made ELSE made \cup ids
      /\ theirs' = theirs /\ given' \subseteq given \cup Homes(herdr')
      /\ IF outcome = "refused" THEN herdr' = herdr /\ next' = next
                                ELSE herdr' = after /\ next' = next + Cardinality(ids)
  BY <1>5, MadeIs
<1>7. recorded \subseteq recorded' /\ recorded' \subseteq made' /\ made' \subseteq made \cup ids
  <2>1. recorded \subseteq made
    BY DEF ReopenInv, HerdrInv
  <2>2. QED
    BY <1>6, <2>1
<1>8. ReportInv' /\ OwnClosesAreRecorded'
  BY <1>2, <1>5, MadeOnRecord
<1>9. Within(herdr', TabsIn(herdr) \cup new)
  <2>1. Within(herdr, TabsIn(herdr))
    BY <1>1, WithinItself
  <2>2. Within(herdr, TabsIn(herdr) \cup new)
    BY <2>1 DEF Within
  <2>3. QED
    BY <1>4, <1>6, <2>2
<1>10. /\ next' \in Nat /\ next' >= next /\ Sound(herdr', next')
      /\ made' \subseteq FirstNew .. next' - 1
  <2>1. CASE outcome = "refused"
    BY <1>1, <1>6, <2>1
  <2>2. CASE outcome # "refused"
    <3>1. herdr' = after /\ next' = next + (n + 1)
      BY <1>2, <1>6, <2>2
    <3>2. next' = next + n + 1
      BY <1>1, <3>1
    <3>3. \A id \in made : id \in FirstNew .. (next + n + 1) - 1
      BY <1>1
    <3>4. made' \subseteq FirstNew .. next' - 1
      BY <1>3, <1>6, <3>2, <3>3
    <3>5. QED
      BY <1>1, <3>1, <3>2, <3>4
  <2>3. QED
    BY <2>1, <2>2
<1>11. HerdrInv'
  BY <1>1, <1>6, <1>10, <1>7, HerdrStep
<1>12. KnownPanes'
  <2>1. /\ recorded \subseteq recorded' /\ theirs \subseteq theirs'
        /\ \A t \in new : t.id \in recorded' => PaneIds(t.layout) \subseteq recorded' \cup theirs'
        /\ \A t \in TabsIn(herdr) : t.id \in recorded' => t.id \in recorded
    BY <1>3, <1>4, <1>6, <1>7
  <2>2. QED
    BY <1>9, <2>1, KnownStep DEF ReopenInv
<1>13. \A c : IsCall(c, recorded) => IsCall(c, recorded')
  BY <1>7, CallStays
<1>14. QED
  BY <1>6, <1>11, <1>12, <1>13, <1>8 DEF ids

LEMMA NothingMore == IsSeq(<< >>) /\ SplitsNothing(<< >>) /\ Range(<< >>) = {}
BY EmptyIsSeq DEF SplitsNothing

LEMMA CreateWorkspaceStep == ASSUME ReopenInv, CreateWorkspace PROVE ReopenInv'
<1>1. /\ Due("workspace.create") /\ created' = << >> /\ UNCHANGED <<entry, pc>>
  BY DEF CreateWorkspace
<1>2. /\ pc = "calling" /\ calls # << >> /\ IsCall(Head(calls), recorded)
      /\ Head(calls).call = "workspace.create"
      /\ \A c \in Range(Tail(calls)) : IsCall(c, recorded)
  BY <1>1, FirstCall DEF ReopenInv
<1> DEFINE ws  == Head(calls).ws
           hold(j) == IF j = 1 THEN next + 1 ELSE None
           name(j) == IF j = 1 THEN None ELSE effective_tab_label(ws.tabs[j].label)
           tabs == [j \in DOMAIN ws.tabs |-> Apply(next, hold(j), name(j), ws.tabs[j])]
           last == [call |-> "arrange", ws |-> ws]
           tab  == Tab(next + 1, None, next + 2, Leaf(next + 2, ws.cwd))
           after == WithWorkspace(herdr, next, effective_ws_label(ws.label, ws.cwd), ws.cwd, tab)
<1>3. PICK outcome \in {"answered", "refused", "lost"} :
        /\ Make(outcome, after, next .. next + 2, {}, "workspaces", next)
        /\ Then(IF outcome = "answered" THEN Append(tabs, last) ELSE << >>)
  BY DEF CreateWorkspace
<1>4. IsWorkspaceSnap(ws)
  BY <1>2 DEF IsCall, IsPlanned
<1>5. next \in Nat /\ \A t \in TabsIn(herdr) : t.id < next /\ t.id \in Nat
  BY HerdrIs DEF ReopenInv, HerdrInv
<1>6. /\ IsTab(tab) /\ tab.id = next + 1 /\ (\A id \in PaneIds(tab.layout) : id = next + 2)
      /\ Within(after, TabsIn(herdr) \cup {tab}) /\ Sound(after, next + 2 + 1)
  BY WorkspaceMade DEF ReopenInv
<1> HIDE DEF ws, tab
<1> HIDE DEF after, tabs
<1>7. PaneIds(tab.layout) \subseteq next .. next + 2
  BY <1>5, <1>6
<1>8. /\ HerdrInv' /\ KnownPanes' /\ ReportInv' /\ OwnClosesAreRecorded'
      /\ \A c : IsCall(c, recorded) => IsCall(c, recorded')
      /\ outcome = "answered" => recorded' = recorded \cup next .. next + 2
  <2>1. tab.id \in next .. next + 2 /\ 2 \in Nat /\ pc' = "calling"
    BY <1>1, <1>2, <1>5, <1>6
  <2>2. QED
    BY <1>3, <1>6, <1>7, <2>1, MadeInHerdr
<1>9. ASSUME outcome = "answered"
      PROVE  /\ IsSeq(Append(tabs, last)) /\ SplitsNothing(Append(tabs, last))
             /\ \A c \in Range(Append(tabs, last)) : IsCall(c, recorded')
  <2>1. next + 1 \in recorded'
    BY <1>5, <1>8, <1>9
  <2>4. ASSUME NEW j \in DOMAIN ws.tabs
        PROVE  /\ IsCall(Apply(next, hold(j), name(j), ws.tabs[j]), recorded')
               /\ Apply(next, hold(j), name(j), ws.tabs[j]).call # "pane.split"
    <3> DEFINE c == Apply(next, hold(j), name(j), ws.tabs[j])
    <3>1. c.call = "layout.apply" /\ c.tab = ws.tabs[j] /\ c.placeholder \in {next + 1, None}
      BY DEF Apply
    <3> HIDE DEF c
    <3>2. IsTabSnap(c.tab)
      BY <1>4, <3>1 DEF IsWorkspaceSnap, Range
    <3>3. IsCall(c, recorded')
      BY <2>1, <3>1, <3>2 DEF IsCall, IsPlanned
    <3>4. QED
      BY <3>1, <3>3 DEF c
  <2>5. IsSeq(tabs)
    BY <1>4, MapIsSeq DEF tabs, IsWorkspaceSnap
  <2>6. \A c \in Range(tabs) : IsCall(c, recorded') /\ c.call # "pane.split"
    BY <2>4 DEF tabs, Range
  <2>7. last.call = "arrange"
    OBVIOUS
  <2> HIDE DEF last
  <2>8. IsSeq(Append(tabs, last)) /\ Range(Append(tabs, last)) \subseteq Range(tabs) \cup {last}
    BY <2>5, AppendIsSeq
  <2>9. IsCall(last, recorded')
    BY <2>7 DEF IsCall
  <2>10. QED
    BY <2>6, <2>7, <2>8, <2>9 DEF SplitsNothing
<1>10. CallsInv'
  <2> DEFINE more == IF outcome = "answered" THEN Append(tabs, last) ELSE << >>
  <2>1. /\ IsSeq(more) /\ SplitsNothing(more)
        /\ \A c \in Range(more) : IsCall(c, recorded')
    BY <1>9, NothingMore
  <2>2. calls' = more \o Tail(calls)
    BY <1>3 DEF Then
  <2> HIDE DEF more
  <2>3. IsSeq(created)' /\ \A c \in Range(Tail(calls)) : IsCall(c, recorded')
    BY <1>1, <1>2, <1>8, EmptyIsSeq
  <2>4. QED
    BY <1>1, <1>2, <2>1, <2>2, <2>3, CallsStep DEF ReopenInv
<1>11. QED
  BY <1>8, <1>10 DEF ReopenInv

LEMMA FollowUp ==
  ASSUME NEW c, NEW root, NEW ids, ids # {}, PaneIds(root) \subseteq ids
  PROVE  /\ IsSeq(Follow(c, root)) /\ SplitsNothing(Follow(c, root))
         /\ \A d \in Range(Follow(c, root)) : IsCall(d, ids)
<1> DEFINE Calls == {"tab.rename", "tab.move", "tab.focus"}
           Good(d) == \/ d.call \in Calls
                      \/ d.call = "restore_occupant" /\ d.panes \subseteq ids
           Fit(s) == IsSeq(s) /\ \A d \in Range(s) : Good(d)
           fill   == finish_tab(c.tab, root)
           name   == [call |-> "tab.rename", tab |-> next, label |-> c.tab.label]
           place  == [call |-> "tab.move", tab |-> next,
                      index |-> insert_index(c.tab.index, c.live_count)]
           focus  == [call |-> "tab.focus", tab |-> next]
           a == IF c.placeholder # None /\ effective_tab_label(c.tab.label) # None
                THEN <<name>> ELSE << >>
           b == IF FocusOnReopen THEN <<focus>> ELSE << >>
<1>1. Follow(c, root) = IF c.live_count = None THEN a \o <<fill>> ELSE <<place, fill>> \o b
  BY DEF Follow
<1>2. Good(fill) /\ Good(name) /\ Good(place) /\ Good(focus)
  <2>1. name.call = "tab.rename" /\ place.call = "tab.move" /\ focus.call = "tab.focus"
    OBVIOUS
  <2>2. fill.call = "restore_occupant" /\ fill.panes = PaneIds(root)
    BY DEF finish_tab
  <2> HIDE DEF fill, name, place, focus
  <2>3. QED
    BY <2>1, <2>2
<1> HIDE DEF fill, name, place, focus, Good
<1>3. Fit(<< >>) /\ Fit(<<fill>>) /\ Fit(<<name>>) /\ Fit(<<focus>>)
  BY <1>2, OneIsSeq, EmptyIsSeq
<1>4. Fit(<<place, fill>>)
  <2>1. <<place, fill>> \in Seq({place, fill})
    OBVIOUS
  <2>2. IsSeq(<<place, fill>>) /\ Range(<<place, fill>>) \subseteq {place, fill}
    BY <2>1, SeqWithRange
  <2>3. QED
    BY <1>2, <2>2
<1>5. Fit(a) /\ Fit(b)
  BY <1>3
<1>6. ASSUME NEW r, NEW s, Fit(r), Fit(s) PROVE Fit(r \o s)
  BY <1>6, ConcatIsSeq
<1> HIDE DEF Fit, a, b
<1>7. Fit(a \o <<fill>>) /\ Fit(<<place, fill>> \o b)
  BY <1>3, <1>4, <1>5, <1>6
<1>8. Fit(Follow(c, root))
  BY <1>1, <1>7
<1>9. QED
  <2>1. IsSeq(Follow(c, root)) /\ \A d \in Range(Follow(c, root)) : Good(d)
    BY <1>8 DEF Fit
  <2>2. ASSUME NEW d, Good(d) PROVE d.call # "pane.split" /\ IsCall(d, ids)
    BY <2>2 DEF Good, IsCall
  <2>3. QED
    BY <2>1, <2>2 DEF SplitsNothing

LEMMA ApplyLayoutStep == ASSUME ReopenInv, ApplyLayout PROVE ReopenInv'
<1>1. Due("layout.apply") /\ UNCHANGED <<entry, pc>>
  BY DEF ApplyLayout
<1>2. /\ pc = "calling" /\ calls # << >> /\ IsCall(Head(calls), recorded)
      /\ Head(calls).call = "layout.apply"
      /\ \A d \in Range(Tail(calls)) : IsCall(d, recorded)
  BY <1>1, FirstCall DEF ReopenInv
<1> DEFINE c    == Head(calls)
           root == strip_pane_ids(c.tab.layout)
           old  == {t \in UNION {Range(w.tabs) : w \in {v \in Range(herdr) : v.id = c.into}} :
                      t.id = c.placeholder}
           n    == Cardinality(Leaves(root))
           gone == UNION {{t.id} \cup PaneIds(t.layout) : t \in old}
           full == Filled(root, next + 1)
           tab  == Tab(next, c.label, next + 1, full)
           after == Applied(herdr, c.into, c.placeholder, c.label, root)
<1>3. PICK outcome \in {"answered", "refused", "lost"} :
        /\ Make(outcome, after, next .. next + n, gone, "tabs", next)
        /\ created' = created \/ created' = Append(created, next)
        /\ Then(IF outcome = "answered" THEN Follow(c, full) ELSE << >>)
  BY DEF ApplyLayout
<1>4. next \in Nat /\ \A t \in TabsIn(herdr) : t.id \in Nat
  BY HerdrIs DEF ReopenInv, HerdrInv
<1>5. IsTabSnap(c.tab) /\ (c.placeholder = None \/ c.placeholder \in recorded)
  BY <1>2 DEF IsCall, IsPlanned
<1>6. /\ n \in Nat /\ IsTab(tab) /\ tab.id = next /\ PaneIds(full) = next + 1 .. next + n
      /\ Within(after, TabsIn(herdr) \cup {tab}) /\ Sound(after, next + n + 1)
  <2>1. HasPanes(c.tab.layout)
    BY <1>5 DEF IsTabSnap
  <2>2. HerdrInv
    BY DEF ReopenInv
  <2> HIDE DEF c
  <2>3. QED
    BY <2>1, <2>2, LayoutApplied
<1>7. gone \subseteq recorded \cup theirs
  <2>1. ASSUME NEW t \in old PROVE {t.id} \cup PaneIds(t.layout) \subseteq recorded \cup theirs
    <3>1. PICK w \in Range(herdr) : t \in Range(w.tabs)
      OBVIOUS
    <3>2. t \in TabsIn(herdr) /\ t.id = c.placeholder
      BY <2>1, <3>1 DEF TabsIn, Range
    <3>3. c.placeholder # None
      BY <1>4, <3>2, IdAssumption
    <3>4. QED
      BY <1>5, <3>2, <3>3 DEF ReopenInv, KnownPanes
  <2> HIDE DEF old
  <2>2. QED
    BY <2>1
<1>8. tab.id \in next .. next + n /\ PaneIds(tab.layout) \subseteq next .. next + n
  <2>1. tab.layout = full
    BY DEF Tab
  <2> HIDE DEF tab, full, n
  <2>2. QED
    BY <1>4, <1>6, <2>1
<1> HIDE DEF c, root, old, n, gone, full
<1> HIDE DEF tab, after
<1>10. /\ HerdrInv' /\ KnownPanes' /\ ReportInv' /\ OwnClosesAreRecorded'
       /\ \A d : IsCall(d, recorded) => IsCall(d, recorded')
       /\ outcome = "answered" => recorded' = recorded \cup next .. next + n
  <2>1. pc' = "calling"
    BY <1>1, <1>2
  <2>2. QED
    BY <1>3, <1>6, <1>7, <1>8, <2>1, MadeInHerdr
<1>11. CallsInv'
  <2> DEFINE more == IF outcome = "answered" THEN Follow(c, full) ELSE << >>
  <2>1. /\ IsSeq(more) /\ SplitsNothing(more)
        /\ \A d \in Range(more) : IsCall(d, recorded')
    <3>1. CASE outcome = "answered"
      <4>1. recorded' # {} /\ PaneIds(full) \subseteq recorded'
        <5>1. next \in next .. next + n /\ next + 1 .. next + n \subseteq next .. next + n
          BY <1>4, <1>6
        <5>2. QED
          BY <1>6, <1>10, <3>1, <5>1
      <4>2. QED
        BY <3>1, <4>1, FollowUp
    <3>2. CASE outcome # "answered"
      BY <3>2, NothingMore
    <3>3. QED
      BY <3>1, <3>2
  <2>2. calls' = more \o Tail(calls)
    BY <1>3 DEF Then
  <2> HIDE DEF more
  <2>3. IsSeq(created)'
    <3>1. IsSeq(created)
      BY DEF ReopenInv, CallsInv
    <3>2. IsSeq(Append(created, next))
      BY <3>1, AppendIsSeq
    <3>3. QED
      BY <1>3, <3>1, <3>2
  <2>4. \A d \in Range(Tail(calls)) : IsCall(d, recorded')
    BY <1>2, <1>10
  <2>5. QED
    BY <1>1, <1>2, <2>1, <2>2, <2>3, <2>4, CallsStep DEF ReopenInv
<1>12. QED
  BY <1>10, <1>11 DEF ReopenInv

\* A split is the last call but for the swap and the panes' occupants.
LEMMA SplitPaneStep == ASSUME ReopenInv, SplitPane PROVE ReopenInv'
<1>1. Due("pane.split") /\ UNCHANGED <<entry, pc, created>>
  BY DEF SplitPane
<1>2. pc = "calling" /\ calls # << >> /\ Tail(calls) = << >> /\ recorded = {}
  <2>1. Head(calls) \in Range(calls) /\ Head(calls).call = "pane.split"
    BY <1>1, FirstCall DEF ReopenInv
  <2>2. QED
    BY <1>1, <2>1, FirstCall DEF ReopenInv, CallsInv
<1> DEFINE c     == Head(calls)
           ids   == {next}
           after == PaneSplit(herdr, c.target, c.direction, c.ratio, Pane(next, c.cwd))
           swap  == [call |-> "pane.swap", source |-> next, target |-> c.target]
           fill  == [call |-> "restore_occupant", panes |-> {next},
                     pairs |-> {<<c.pane, next>>}, focus |-> next]
           swaps == IF c.swap THEN <<swap>> ELSE << >>
           done  == swaps \o <<fill>>
<1>3. PICK outcome \in {"answered", "refused", "lost"} :
        /\ Make(outcome, after, ids, {}, "panes", next)
        /\ calls' = (IF outcome # "answered" THEN << >> ELSE done) \o Tail(calls)
  BY DEF SplitPane, Then
<1>4. /\ next \in Nat /\ next >= FirstNew /\ FirstNew \in Nat /\ Sound(herdr, next)
      /\ recorded \subseteq made /\ made \subseteq FirstNew .. next - 1
  BY IdAssumption DEF ReopenInv, HerdrInv
<1>5. /\ Sound(after, next + 1)
      /\ \A t \in TabsIn(after) : \E s \in TabsIn(herdr) : t.id = s.id
  <2>1. HerdrInv
    BY DEF ReopenInv
  <2> HIDE DEF c
  <2>2. QED
    BY <2>1, PaneMade
<1>6. /\ swap.call = "pane.swap" /\ fill.call = "restore_occupant" /\ fill.panes = ids
      /\ ids # {} /\ next \in ids
  OBVIOUS
<1>7. Cardinality(ids) = 1
  BY FS_Singleton
<1>8. \A id \in ids : id \in FirstNew .. (next + 1) - 1
  BY <1>4
<1> HIDE DEF after, swap, fill, ids
<1>9. /\ ReportInv' /\ OwnClosesAreRecorded'
      /\ recorded' \subseteq made' /\ made' \subseteq made \cup ids
      /\ recorded' = IF outcome = "answered" THEN recorded \cup ids ELSE recorded
      /\ given' \subseteq given \cup Homes(herdr')
      /\ IF outcome = "refused" THEN herdr' = herdr /\ next' = next /\ made' = made
                                ELSE herdr' = after /\ next' = next + 1
  <2>1. pc' = "calling" /\ "panes" \in {"workspaces", "tabs", "panes"}
    BY <1>1, <1>2
  <2>2. ReportInv' /\ OwnClosesAreRecorded'
    BY <1>3, <1>6, <2>1, MadeOnRecord
  <2>3. /\ recorded' = IF outcome = "answered" THEN recorded \cup ids ELSE recorded
        /\ made' = IF outcome = "refused" THEN made ELSE made \cup ids
        /\ given' \subseteq given \cup Homes(herdr')
        /\ IF outcome = "refused" THEN herdr' = herdr /\ next' = next
                                  ELSE herdr' = after /\ next' = next + Cardinality(ids)
    BY <1>3, MadeIs
  <2>4. recorded' \subseteq made'
    BY <1>4, <2>3
  <2>5. QED
    BY <1>7, <2>2, <2>3, <2>4
<1>10. HerdrInv'
  <2> HerdrInv
    BY DEF ReopenInv
  <2>1. CASE outcome = "refused"
    BY <1>4, <1>9, <2>1, HerdrStep
  <2>2. CASE outcome # "refused"
    <3>1. herdr' = after /\ next' = next + 1
      BY <1>9, <2>2
    <3>2. \A id \in made : id \in FirstNew .. (next + 1) - 1
      BY <1>4
    <3>3. made' \subseteq FirstNew .. next' - 1
      BY <1>8, <1>9, <3>1, <3>2
    <3>4. next' \in Nat /\ next' >= next
      BY <1>4, <3>1
    <3>5. QED
      BY <1>5, <1>9, <3>1, <3>3, <3>4, HerdrStep
  <2>3. QED
    BY <2>1, <2>2
<1>11. CallsInv'
  <2> DEFINE more == IF outcome # "answered" THEN << >> ELSE done
  <2>1. ASSUME outcome = "answered"
        PROVE  /\ IsSeq(done) /\ SplitsNothing(done)
               /\ \A d \in Range(done) : IsCall(d, recorded')
    <3>1. recorded' # {} /\ ids \subseteq recorded'
      BY <1>6, <1>9, <2>1
    <3>2. IsSeq(swaps) /\ Range(swaps) \subseteq {swap} /\ IsSeq(<<fill>>) /\ Range(<<fill>>) = {fill}
      BY OneIsSeq, EmptyIsSeq
    <3> HIDE DEF swaps
    <3>3. IsSeq(done) /\ Range(done) \subseteq {swap, fill}
      BY <3>2, ConcatIsSeq
    <3>4. IsCall(swap, recorded') /\ IsCall(fill, recorded')
      BY <1>6, <3>1 DEF IsCall
    <3>5. QED
      BY <1>6, <3>3, <3>4 DEF SplitsNothing
  <2> HIDE DEF done
  <2>2. /\ IsSeq(more) /\ SplitsNothing(more)
        /\ \A d \in Range(more) : IsCall(d, recorded')
    BY <2>1, NothingMore
  <2>3. calls' = more \o Tail(calls)
    BY <1>3 DEF done
  <2> HIDE DEF more
  <2>4. IsSeq(created)'
    BY <1>1 DEF ReopenInv, CallsInv
  <2>5. Range(Tail(calls)) = {}
    BY <1>2, EmptyIsSeq
  <2>6. \A d \in Range(Tail(calls)) : IsCall(d, recorded')
    BY <2>5
  <2>7. QED
    BY <1>1, <1>2, <2>2, <2>3, <2>4, <2>6, CallsStep DEF ReopenInv
<1>12. KnownPanes'
  <2>1. \A t \in TabsIn(herdr') : \E s \in TabsIn(herdr) : t.id = s.id
    BY <1>5, <1>9
  <2>2. \A t \in TabsIn(herdr') : t.id # next
    BY <1>4, <2>1, HerdrIs DEF ReopenInv
  <2>3. recorded' \subseteq {next}
    BY <1>2, <1>9 DEF ids
  <2>4. QED
    BY <2>2, <2>3 DEF KnownPanes
<1>13. QED
  BY <1>9, <1>10, <1>11, <1>12 DEF ReopenInv

\* A request that makes nothing: what is open and the calls left.
LEMMA TriedStep ==
  ASSUME ReopenInv, NEW after, Harmless(after), herdr' = after \/ herdr' = herdr,
         calls # << >>, \A c \in Range(Tail(calls)) : IsCall(c, recorded),
         calls' = << >> \o Tail(calls), pc' = "calling",
         UNCHANGED <<entry, reply>>
  PROVE  ReopenInv'
<1> DEFINE new == {}
<1>1. UNCHANGED <<next, created, report, recorded, made, replaced, given, theirs>>
  BY DEF reply
<1>2. /\ HerdrInv /\ CallsInv /\ IsSession(herdr) /\ Sound(herdr, next) /\ next \in Nat
      /\ recorded \subseteq made /\ made \subseteq FirstNew .. next - 1
  BY HerdrIs DEF ReopenInv, HerdrInv
<1>3. Within(herdr', TabsIn(herdr) \cup new) /\ Sound(herdr', next')
  <2>1. Within(herdr', TabsIn(herdr)) /\ Sound(herdr', next)
    BY <1>2, WithinItself DEF Harmless
  <2>2. QED
    BY <1>1, <2>1
<1>4. HerdrInv' /\ KnownPanes'
  <2>1. /\ next' \in Nat /\ next' >= next
        /\ recorded' \subseteq made' /\ made' \subseteq FirstNew .. next' - 1
        /\ given' \subseteq given \cup Homes(herdr')
    BY <1>1, <1>2
  <2>2. HerdrInv'
    BY <1>2, <1>3, <2>1, HerdrStep
  <2>3. \A t \in new : t.id \in recorded' => PaneIds(t.layout) \subseteq recorded' \cup theirs'
    OBVIOUS
  <2> HIDE DEF new
  <2>4. KnownPanes'
    BY <1>1, <1>3, <2>3, KnownStep DEF ReopenInv
  <2>5. QED
    BY <2>2, <2>4
<1>5. CallsInv'
  <2>1. IsSeq(created)' /\ \A c \in Range(Tail(calls)) : IsCall(c, recorded')
    BY <1>1, <1>2 DEF CallsInv
  <2> DEFINE more == << >>
  <2>2. IsSeq(more) /\ SplitsNothing(more) /\ \A c \in Range(more) : IsCall(c, recorded')
    BY NothingMore
  <2>3. calls' = more \o Tail(calls)
    OBVIOUS
  <2> HIDE DEF more
  <2>4. QED
    BY <1>2, <2>1, <2>2, <2>3, CallsStep
<1>6. ReportInv' /\ OwnClosesAreRecorded'
  BY <1>1 DEF ReopenInv, ReportInv, OwnClosesAreRecorded, Fetching
<1>7. QED
  BY <1>4, <1>5, <1>6 DEF ReopenInv

LEMMA TrySteps ==
  ASSUME ReopenInv, RenameTab \/ MoveTab \/ FocusTab \/ FocusPane \/ SwapPanes
  PROVE  ReopenInv'
<1>1. PICK name, after : Try(name, after) /\ Harmless(after)
  BY TriedRequests DEF ReopenInv
<1>2. /\ Due(name) /\ (herdr' = after \/ herdr' = herdr) /\ calls' = << >> \o Tail(calls)
      /\ UNCHANGED <<entry, pc, reply>>
  BY <1>1 DEF Try, Then
<1>3. /\ pc = "calling" /\ calls # << >>
      /\ \A c \in Range(Tail(calls)) : IsCall(c, recorded)
  BY <1>2, FirstCall DEF ReopenInv
<1>4. pc' = "calling"
  BY <1>2, <1>3
<1>5. QED
  BY <1>1, <1>2, <1>3, <1>4, TriedStep

LEMMA RestoreOccupantsStep == ASSUME ReopenInv, RestoreOccupants PROVE ReopenInv'
<1>1. /\ Due("restore_occupant")
      /\ UNCHANGED <<herdr, next, entry, pc, created, recorded, made, replaced, given, theirs>>
  BY DEF RestoreOccupants
<1>2. /\ pc = "calling" /\ calls # << >> /\ IsCall(Head(calls), recorded)
      /\ Head(calls).call = "restore_occupant"
      /\ \A c \in Range(Tail(calls)) : IsCall(c, recorded)
  BY <1>1, FirstCall DEF ReopenInv
<1> DEFINE c == Head(calls)
           focus == [call |-> "pane.focus", pane |-> c.focus]
           more == IF FocusOnReopen /\ c.focus # None THEN <<focus>> ELSE << >>
<1>3. PICK failed \in BOOLEAN :
        report' = [report EXCEPT !.panes = @ \cup c.panes, !.failed = @ \/ failed]
  BY Zenon DEF RestoreOccupants
<1>4. calls' = more \o Tail(calls)
  BY DEF RestoreOccupants, Then
<1>5. recorded # {} /\ c.panes \subseteq recorded
  BY <1>2 DEF IsCall, IsPlanned
<1>6. focus.call = "pane.focus"
  OBVIOUS
<1> HIDE DEF c, focus
<1>7. /\ IsSeq(more) /\ SplitsNothing(more)
      /\ \A d \in Range(more) : IsCall(d, recorded')
  <2>1. IsSeq(<<focus>>) /\ Range(<<focus>>) = {focus}
    BY OneIsSeq
  <2>2. QED
    BY <1>6, <2>1, NothingMore DEF SplitsNothing, IsCall
<1> HIDE DEF more
<1>8. CallsInv'
  <2>1. CallsInv /\ IsSeq(created)' /\ \A d \in Range(Tail(calls)) : IsCall(d, recorded')
    BY <1>1, <1>2 DEF ReopenInv, CallsInv
  <2>2. QED
    BY <1>1, <1>2, <1>4, <1>7, <2>1, CallsStep
<1>9. ReportInv'
  <2>1. /\ report = [workspaces |-> report.workspaces, tabs |-> report.tabs,
                     panes |-> report.panes, failed |-> report.failed]
        /\ created_nothing(report) <=> recorded = {}
        /\ report.failed \in BOOLEAN
        /\ report.workspaces \subseteq recorded /\ report.tabs \subseteq recorded
        /\ report.panes \subseteq recorded
    BY DEF ReopenInv, ReportInv
  <2>2. report' = [workspaces |-> report.workspaces, tabs |-> report.tabs,
                   panes |-> report.panes \cup c.panes, failed |-> report.failed \/ failed]
    BY <1>3, <2>1
  <2>3. /\ report' = [workspaces |-> report'.workspaces, tabs |-> report'.tabs,
                      panes |-> report'.panes, failed |-> report'.failed]
        /\ report'.workspaces = report.workspaces /\ report'.tabs = report.tabs
        /\ report'.panes = report.panes \cup c.panes
        /\ report'.failed = (report.failed \/ failed)
    BY <2>2
  <2>4. ~created_nothing(report')
    <3>1. report'.workspaces = {} /\ report'.tabs = {} /\ report'.panes = {} =>
            report.workspaces = {} /\ report.tabs = {} /\ report.panes = {}
      BY <2>3
    <3>2. QED
      BY <1>5, <2>1, <3>1 DEF created_nothing
  <2>5. pc' # "over" /\ pc' \notin Fetching /\ recorded' # {}
    BY <1>1, <1>2, <1>5 DEF Fetching
  <2>6. report'.failed \in BOOLEAN
    BY <2>1, <2>3
  <2>7. /\ report'.workspaces \subseteq recorded' /\ report'.tabs \subseteq recorded'
        /\ report'.panes \subseteq recorded'
    BY <1>1, <1>5, <2>1, <2>3
  <2>8. QED
    BY <2>3, <2>4, <2>5, <2>6, <2>7 DEF ReportInv
<1>10. HerdrInv' /\ KnownPanes' /\ OwnClosesAreRecorded'
  BY <1>1 DEF ReopenInv, HerdrInv, KnownPanes, OwnClosesAreRecorded
<1>11. QED
  BY <1>8, <1>9, <1>10 DEF ReopenInv

LEMMA SetToSeqIsSeq ==
  ASSUME NEW S, IsFiniteSet(S) PROVE IsSeq(SetToSeq(S)) /\ Range(SetToSeq(S)) \subseteq S
<1> DEFINE n == Cardinality(S)
<1>1. n \in Nat /\ ExistsBijection(1 .. n, S)
  BY FS_CardinalityType
<1>2. \E f \in [1 .. n -> S] : IsInjective(f)
  BY <1>1 DEF ExistsBijection, Bijection, Injection
<1>3. SetToSeq(S) \in [1 .. n -> S]
  BY <1>2 DEF SetToSeq
<1>4. SetToSeq(S) \in Seq(S)
  BY <1>1, <1>3, SeqDef
<1>5. QED
  BY <1>4, SeqWithRange

LEMMA ArrangeFollows ==
  ASSUME ReopenInv, Arrange
  PROVE  \E more : /\ calls' = more \o Tail(calls) /\ IsSeq(more)
                   /\ \A c \in Range(more) : c.call \in {"tab.move", "tab.focus"}
<1> DEFINE ws     == Head(calls).ws
           move(j) == [call |-> "tab.move", tab |-> created[j], index |-> j - 1]
           moves  == [j \in DOMAIN created |-> move(j)]
           active == {j \in DOMAIN ws.tabs : ws.tabs[j].tab_id = ws.active_tab_id}
           show(j) == [call |-> "tab.focus", tab |-> created[j]]
           K      == active \cap DOMAIN created
           focus  == {show(j) : j \in K}
           shown  == IF FocusOnReopen THEN SetToSeq(focus) ELSE << >>
           more   == moves \o shown
<1>4. calls' = more \o Tail(calls)
  BY DEF Arrange, Then
<1>5. IsSeq(created) /\ CallsInv
  BY DEF ReopenInv, CallsInv
<1> HIDE DEF active
<1>6. IsFiniteSet(focus)
  <2> DEFINE f == [j \in K |-> show(j)]
  <2>1. IsFiniteSet(DOMAIN created) /\ K \in SUBSET DOMAIN created
    <3>1. DOMAIN created = 1 .. Len(created) /\ Len(created) \in Int /\ 1 \in Int
      BY <1>5 DEF IsSeq
    <3>2. QED
      BY <3>1, FS_Interval
  <2>2. IsFiniteSet(K)
    BY <2>1, FS_Subset
  <2>3. f \in Surjection(K, focus)
    BY DEF Surjection
  <2> HIDE DEF f, focus, K
  <2>4. QED
    BY <2>2, <2>3, FS_Surjection
<1>7. IsSeq(moves) /\ \A c \in Range(moves) : c.call = "tab.move"
  <2>1. IsSeq(moves)
    BY <1>5, MapIsSeq
  <2>2. QED
    BY <2>1 DEF Range
<1>8. IsSeq(shown) /\ \A c \in Range(shown) : c.call = "tab.focus"
  <2>1. \A c \in focus : c.call = "tab.focus"
    OBVIOUS
  <2> HIDE DEF focus
  <2>2. IsSeq(SetToSeq(focus)) /\ Range(SetToSeq(focus)) \subseteq focus
    BY <1>6, SetToSeqIsSeq
  <2>3. QED
    BY <2>1, <2>2, EmptyIsSeq
<1> HIDE DEF moves, shown
<1>9. IsSeq(more) /\ Range(more) \subseteq Range(moves) \cup Range(shown)
  BY <1>7, <1>8, ConcatIsSeq
<1>10. \A c \in Range(more) : c.call \in {"tab.move", "tab.focus"}
  BY <1>7, <1>8, <1>9
<1> HIDE DEF more
<1>11. QED
  BY <1>4, <1>9, <1>10

LEMMA ArrangeStep == ASSUME ReopenInv, Arrange PROVE ReopenInv'
<1>1. Due("arrange") /\ UNCHANGED <<herdr, entry, stacked, pc, reply>>
  BY DEF Arrange
<1>2. /\ pc = "calling" /\ calls # << >>
      /\ \A c \in Range(Tail(calls)) : IsCall(c, recorded)
  BY <1>1, FirstCall DEF ReopenInv
<1>3. UNCHANGED <<next, created, report, recorded, made, replaced, given, theirs>>
  BY <1>1 DEF reply
<1>4. PICK more : /\ calls' = more \o Tail(calls) /\ IsSeq(more)
                  /\ \A c \in Range(more) : c.call \in {"tab.move", "tab.focus"}
  BY ArrangeFollows
<1>5. IsSeq(created) /\ CallsInv
  BY DEF ReopenInv, CallsInv
<1>6. SplitsNothing(more) /\ \A c \in Range(more) : IsCall(c, recorded')
  BY <1>4 DEF SplitsNothing, IsCall
<1>7. CallsInv'
  <2>1. IsSeq(created)' /\ \A d \in Range(Tail(calls)) : IsCall(d, recorded')
    BY <1>1, <1>2, <1>3, <1>5
  <2>2. QED
    BY <1>1, <1>2, <1>4, <1>5, <1>6, <2>1, CallsStep
<1>8. pc' # "over" /\ pc' \notin Fetching
  BY <1>1, <1>2 DEF Fetching
<1>9. QED
  BY <1>1, <1>3, <1>7, <1>8, NothingMade DEF ReopenInv, ReportInv

\* The user closes a pane, opens a tab or splits a pane.
LEMMA UserStep ==
  ASSUME ReopenInv, KnownPanes', Sound(herdr', next'), next' = next \/ next' = next + 3,
         given' \subseteq given \cup Homes(herdr'), replaced \subseteq recorded \cup theirs',
         UNCHANGED <<entry, stacked, pc, calls, created, report, recorded, made, replaced>>
  PROVE  ReopenInv'
<1>1. /\ HerdrInv /\ next \in Nat /\ next >= FirstNew /\ FirstNew \in Nat
      /\ recorded \subseteq made /\ made \subseteq FirstNew .. next - 1
  BY HerdrIs DEF ReopenInv, HerdrInv
<1>2. next' \in Nat /\ next' >= next /\ recorded' \subseteq made'
  BY <1>1
<1>3. made' \subseteq FirstNew .. next' - 1
  BY <1>1
<1>4. HerdrInv'
  BY <1>1, <1>2, <1>3, HerdrStep
<1>5. CallsInv'
  BY DEF ReopenInv, CallsInv, EntryInv
<1>6. ReportInv' /\ OwnClosesAreRecorded'
  BY DEF ReopenInv, ReportInv, OwnClosesAreRecorded
<1>7. QED
  BY <1>4, <1>5, <1>6 DEF ReopenInv

LEMMA MeanwhileStep ==
  ASSUME ReopenInv, NEW after, NEW ids, Meanwhile(after, ids), Sound(after, next + 3),
         \A t \in TabsIn(after) : t.id \in recorded =>
           PaneIds(t.layout) \subseteq recorded \cup theirs \cup ids
  PROVE  ReopenInv'
<1>1. /\ herdr' = after /\ next' = next + 3 /\ given' = given \cup Homes(after)
      /\ theirs' = theirs \cup ids
      /\ UNCHANGED <<entry, stacked, pc, calls, created, report, recorded, made, replaced>>
  BY DEF Meanwhile
<1>2. KnownPanes'
  BY <1>1 DEF KnownPanes
<1>3. replaced \subseteq recorded \cup theirs'
  BY <1>1 DEF ReopenInv, OwnClosesAreRecorded
<1>4. QED
  BY <1>1, <1>2, <1>3, UserStep

LEMMA UserClosesStep == ASSUME ReopenInv, UserCloses PROVE ReopenInv'
<1>1. UNCHANGED <<entry, stacked, pc, calls, next, created, report, recorded, made, replaced,
                  given, theirs>>
  BY DEF UserCloses, Change, reply
<1>2. PICK pane : herdr' = WithoutPane(herdr, pane)
  BY DEF UserCloses
<1> DEFINE new == {}
<1>3. Within(herdr', TabsIn(herdr)) /\ Sound(herdr', next')
  <2>1. next \in Nat /\ Sound(herdr, next) /\ IsSession(herdr)
    BY DEF ReopenInv, HerdrInv, Sound, Numbered
  <2>2. QED
    BY <1>1, <1>2, <2>1, WithoutPaneWithin, WithoutPaneSound
<1>4. /\ Within(herdr', TabsIn(herdr) \cup new)
      /\ \A t \in new : t.id \in recorded' => PaneIds(t.layout) \subseteq recorded' \cup theirs'
  BY <1>3
<1> HIDE DEF new
<1>5. KnownPanes'
  BY <1>1, <1>4, KnownStep DEF ReopenInv
<1>6. replaced \subseteq recorded \cup theirs'
  BY <1>1 DEF ReopenInv, OwnClosesAreRecorded
<1>7. QED
  BY <1>1, <1>3, <1>5, <1>6, UserStep

\* A tab of the user's with one pane, under any ids that have been given out.
LEMMA UsersTab ==
  ASSUME HerdrInv, NEW m \in Nat, m >= next, NEW ws \in 0 .. m - 1, NEW id \in 0 .. m - 1,
         NEW pane \in 0 .. m - 1, \A s \in TabsIn(herdr) : s.id # id, NEW label, NEW cwd,
         NEW tab, tab = Tab(id, label, pane, Leaf(pane, cwd)), NEW name, NEW dir,
         NEW h2, \/ h2 = WithTab(herdr, ws, tab)
                 \/ ws \notin IdsIn(herdr) /\ h2 = WithWorkspace(herdr, ws, name, dir, tab)
  PROVE  PaneIds(tab.layout) = {pane} /\ Within(h2, TabsIn(herdr) \cup {tab}) /\ Sound(h2, m)
<1> DEFINE leaf == Leaf(pane, cwd)
           one  == {pane}
<1>1. next \in Nat /\ Sound(herdr, next) /\ IsSession(herdr) /\ id \in Nat
  BY DEF HerdrInv, Sound, Numbered
<1>2. IsLayout(leaf) /\ PanesApart(leaf) /\ PaneIds(leaf) = one
  BY LeafIsLayout
<1>3. pane \in one /\ \A x \in one : x = pane
  OBVIOUS
<1> HIDE DEF leaf, one
<1>4. IsTab(tab) /\ tab.id = id /\ tab.layout = leaf /\ tab.focused = pane
  <2>1. tab = Tab(id, label, pane, leaf)
    BY DEF leaf
  <2>2. QED
    BY <1>1, <1>2, <2>1, NewTab
<1>5. Shown(tab, m)
  BY <1>2, <1>3, <1>4 DEF Shown
<1>6. Sound(herdr, m)
  BY <1>1, SoundGrows
<1>7. CASE h2 = WithTab(herdr, ws, tab)
  <2>1. Sound(h2, m)
    BY <1>4, <1>5, <1>6, <1>7, NewTabSound
  <2>2. Within(h2, TabsIn(herdr) \cup {tab})
    BY <1>1, <1>4, <1>7, WithTabWithin
  <2>3. QED
    BY <1>2, <1>4, <2>1, <2>2 DEF one
<1>8. CASE ws \notin IdsIn(herdr) /\ h2 = WithWorkspace(herdr, ws, name, dir, tab)
  <2>1. Sound(h2, m)
    BY <1>4, <1>5, <1>6, <1>8, WithWorkspaceSound
  <2>2. Within(h2, TabsIn(herdr) \cup {tab})
    BY <1>1, <1>4, <1>8, WithWorkspaceWithin
  <2>3. QED
    BY <1>2, <1>4, <2>1, <2>2 DEF one
<1>9. QED
  BY <1>7, <1>8

LEMMA FreeHomesAreGiven ==
  ASSUME HerdrInv, NEW home \in FreeHomes
  PROVE  next + 3 \in Nat /\ next + 3 >= next /\ \A k \in 1 .. 3 : home[k] \in 0 .. (next + 3) - 1
<1>1. next \in Nat /\ HomesBelow(given, next) /\ \A id \in IdsIn(herdr) : id \in 0 .. next - 1
  BY DEF HerdrInv, Sound, Numbered, IdsIn
<1>2. CASE home \in given
  BY <1>1, <1>2 DEF HomesBelow
<1>3. ASSUME NEW ws \in IdsIn(herdr) \cup {next}, home = <<ws, next + 1, next + 2>>
      PROVE  \A k \in 1 .. 3 : home[k] \in 0 .. (next + 3) - 1
  BY <1>1, <1>3
<1>4. QED
  BY <1>1, <1>2, <1>3 DEF FreeHomes

LEMMA UserOpensStep == ASSUME ReopenInv, UserOpens PROVE ReopenInv'
<1>1. PICK home \in FreeHomes, label \in Labels, cwd \in Cwds :
        /\ home[2] \notin {t.id : t \in TabsIn(herdr)}
        /\ Meanwhile(IF home[1] \in IdsIn(herdr)
                     THEN WithTab(herdr, home[1], Tab(home[2], label, home[3], Leaf(home[3], cwd)))
                     ELSE WithWorkspace(herdr, home[1], label, cwd,
                                        Tab(home[2], None, home[3], Leaf(home[3], cwd))),
                     {home[2], home[3]})
  BY DEF UserOpens
<1> DEFINE ws   == home[1]
           id   == home[2]
           pane == home[3]
           m    == next + 3
           name == IF ws \in IdsIn(herdr) THEN label ELSE None
           tab  == Tab(id, name, pane, Leaf(pane, cwd))
           after == IF ws \in IdsIn(herdr) THEN WithTab(herdr, ws, tab)
                                           ELSE WithWorkspace(herdr, ws, label, cwd, tab)
           ids  == {id, pane}
<1>2. Meanwhile(after, ids)
  BY <1>1
<1>3. HerdrInv
  BY DEF ReopenInv
<1>4. /\ m \in Nat /\ m >= next /\ ws \in 0 .. m - 1 /\ id \in 0 .. m - 1 /\ pane \in 0 .. m - 1
      /\ \A s \in TabsIn(herdr) : s.id # id
  <2>1. /\ next + 3 \in Nat /\ next + 3 >= next
        /\ \A k \in 1 .. 3 : home[k] \in 0 .. (next + 3) - 1
    BY <1>1, <1>3, FreeHomesAreGiven
  <2>2. 1 \in 1 .. 3 /\ 2 \in 1 .. 3 /\ 3 \in 1 .. 3
    OBVIOUS
  <2>3. /\ home[1] \in 0 .. (next + 3) - 1 /\ home[2] \in 0 .. (next + 3) - 1
        /\ home[3] \in 0 .. (next + 3) - 1
    BY ONLY <2>1, <2>2
  <2>4. \A s \in TabsIn(herdr) : s.id # home[2]
    BY <1>1
  <2>5. QED
    BY <2>1, <2>3, <2>4
<1>5. \/ after = WithTab(herdr, ws, tab)
      \/ ws \notin IdsIn(herdr) /\ after = WithWorkspace(herdr, ws, label, cwd, tab)
  OBVIOUS
<1>6. pane \in ids
  OBVIOUS
<1> HIDE DEF after, ids, name, ws, id, pane, m
<1>7. /\ PaneIds(tab.layout) = {pane} /\ Within(after, TabsIn(herdr) \cup {tab})
      /\ Sound(after, m)
  BY <1>3, <1>4, <1>5, UsersTab
<1> HIDE DEF tab
<1>8. ASSUME NEW t \in TabsIn(after), t.id \in recorded
      PROVE  PaneIds(t.layout) \subseteq recorded \cup theirs \cup ids
  <2>1. PICK s \in TabsIn(herdr) \cup {tab} : LeftOf(t, s)
    BY <1>7 DEF Within
  <2>2. CASE s \in TabsIn(herdr)
    BY <1>8, <2>1, <2>2 DEF LeftOf, ReopenInv, KnownPanes
  <2>3. CASE s = tab
    BY <1>6, <1>7, <2>1, <2>3 DEF LeftOf
  <2>4. QED
    BY <2>2, <2>3
<1>9. QED
  BY <1>2, <1>7, <1>8, MeanwhileStep DEF m

LEMMA UserSplitsStep == ASSUME ReopenInv, UserSplits PROVE ReopenInv'
<1>0. PICK home \in Homes(herdr), cwd \in Cwds :
        \E pane \in {next} \cup {other[3] : other \in {g \in given : g[1] = home[1]}} :
          /\ pane \notin PanesIn(herdr)
          /\ Meanwhile(PaneSplit(herdr, home[3], "right", 5, Pane(pane, cwd)), {pane})
  BY DEF UserSplits
<1>1. PICK target, direction, ratio, pane :
        /\ pane = next \/ \E other \in given : pane = other[3]
        /\ pane \notin PanesIn(herdr)
        /\ Meanwhile(PaneSplit(herdr, target, direction, ratio, Pane(pane, cwd)), {pane})
  BY <1>0
<1> DEFINE after == PaneSplit(herdr, target, direction, ratio, Pane(pane, cwd))
           m     == next + 3
           ids   == {pane}
<1>2. next \in Nat /\ Sound(herdr, next) /\ HomesBelow(given, next) /\ m \in Nat /\ m >= next
  BY DEF ReopenInv, HerdrInv
<1>3. pane \in 0 .. m - 1
  <2>1. \A place \in given : place[3] \in 0 .. next - 1
    BY <1>2 DEF HomesBelow
  <2>2. QED
    BY <1>1, <1>2, <2>1
<1>4. \A t \in TabsIn(herdr) : pane \notin PaneIds(t.layout)
  BY <1>1 DEF PanesIn
<1>5. Meanwhile(after, ids)
  BY <1>1
<1>6. Sound(after, m) /\ GrownBy(herdr, after, {pane})
  <2>1. after = PaneSplit(herdr, target, direction, ratio, Pane(pane, cwd))
    OBVIOUS
  <2> DEFINE none == {}
  <2> HIDE DEF after, m, none
  <2>2. Sound(after, m) /\ Stays(herdr, after, none) /\ GrownBy(herdr, after, {pane})
    BY ONLY <1>2, <1>3, <1>4, <2>1, PaneSplitSound
  <2>3. QED
    BY <2>2
<1> HIDE DEF after
<1>7. \A t \in TabsIn(after) : t.id \in recorded =>
        PaneIds(t.layout) \subseteq recorded \cup theirs \cup ids
  BY <1>6 DEF ReopenInv, KnownPanes, GrownBy
<1> HIDE DEF ids
<1>8. QED
  BY <1>5, <1>6, <1>7, MeanwhileStep

LEMMA ReopenStays == ASSUME ReopenInv, [Next]_vars PROVE ReopenInv'
<1>1. CASE UNCHANGED vars
  BY <1>1, Undecided DEF vars, reply, ReopenInv, ReportInv
<1>2. CASE Pop \/ FetchWorkspaces \/ FetchTabs \/ End \/ Kill
  BY <1>2, BeforeTheCalls
<1>3. CASE RenameTab \/ MoveTab \/ FocusTab \/ FocusPane \/ SwapPanes
  BY <1>3, TrySteps
<1>4. CASE FetchPanes
  BY <1>4, FetchPanesStep
<1>5. CASE RestoreWorkspace
  BY <1>5, RestoreWorkspaceStep
<1>6. CASE CreateWorkspace
  BY <1>6, CreateWorkspaceStep
<1>7. CASE ApplyLayout
  BY <1>7, ApplyLayoutStep
<1>8. CASE SplitPane
  BY <1>8, SplitPaneStep
<1>9. CASE RestoreOccupants
  BY <1>9, RestoreOccupantsStep
<1>10. CASE Arrange
  BY <1>10, ArrangeStep
<1>11. CASE UserCloses
  BY <1>11, UserClosesStep
<1>12. CASE UserOpens
  BY <1>12, UserOpensStep
<1>13. CASE UserSplits
  BY <1>13, UserSplitsStep
<1>14. QED
  BY <1>1, <1>2, <1>3, <1>4, <1>5, <1>6, <1>7, <1>8, <1>9, <1>10, <1>11, <1>12, <1>13
     DEF Next, ReopenStep

THEOREM ReopenInvariant == Spec => []ReopenInv
<1>1. Init => ReopenInv
  BY ReopenInit
<1>2. ReopenInv /\ [Next]_vars => ReopenInv'
  BY ReopenStays
<1>3. QED
  BY <1>1, <1>2, PTL DEF Spec

\* A reopen that is over has given its entry back exactly when it has nothing on
\* record, whatever failed or was changed by the user (restore.rs created_nothing,
\* main.rs cmd_reopen); what herdr made for a request whose answer was lost is not on
\* record, so such an entry can be given back although it was rebuilt.
THEOREM GivenBackIsExact == Spec => []GivenBackIfNothingMade
<1>1. ReopenInv => GivenBackIfNothingMade
  BY DEF ReopenInv, ReportInv, GivenBackIfNothingMade
<1>2. QED
  BY <1>1, ReopenInvariant, PTL

\* Every tab and pane that a layout.apply destroys, the placeholder of a rebuilt
\* workspace, was handed to record_self_created before (restore.rs restore_workspace);
\* what the user opened under its id, or split off in it, meanwhile is the exception.
THEOREM OwnClosesOnRecord == Spec => []OwnClosesAreRecorded
<1>1. ReopenInv => OwnClosesAreRecorded
  BY DEF ReopenInv
<1>2. QED
  BY <1>1, ReopenInvariant, PTL

(***************************************************************************)
(* Type correctness.                                                       *)
(***************************************************************************)
\* What has disturbed the reopen so far, and how far the command is.
Counted == faults \in Nat /\ changes \in Nat /\ faults + changes <= MaxDisturbances

ModeInv ==
  /\ Counted /\ stacked \in BOOLEAN
  /\ pc \in {"idle", "workspaces", "tabs", "panes", "calling", "over", "dead"}

LEMMA ModeStays == ASSUME ModeInv, [Next]_vars PROVE ModeInv'
<1>1. faults \in Nat /\ changes \in Nat /\ faults + changes <= MaxDisturbances
      /\ MaxDisturbances \in Nat
  BY FaultAssumption DEF ModeInv, Counted
<1>0. ASSUME UNCHANGED <<faults, changes>> PROVE Counted'
  BY <1>0, <1>1 DEF Counted
<1>2. ASSUME Fault, UNCHANGED changes PROVE Counted'
  BY <1>1, <1>2 DEF Fault, Counted
<1>3. ASSUME Change, UNCHANGED faults PROVE Counted'
  BY <1>1, <1>3 DEF Change, Counted
<1>4. CASE Pop \/ RestoreWorkspace \/ Arrange \/ UNCHANGED vars
  BY <1>0, <1>4 DEF Pop, RestoreWorkspace, Arrange, vars, ModeInv
<1>5. CASE End
  <2>1. UNCHANGED <<faults, changes>> /\ stacked' = created_nothing(report) /\ pc' = "over"
    BY <1>5 DEF End
  <2>2. created_nothing(report) \in BOOLEAN
    BY DEF created_nothing
  <2>3. QED
    BY <1>0, <2>1, <2>2 DEF ModeInv
<1>6. CASE FetchWorkspaces \/ FetchTabs \/ FetchPanes
  <2>1. /\ UNCHANGED <<stacked, changes>> /\ pc' \in {"tabs", "panes", "calling"}
        /\ UNCHANGED faults \/ Fault
    BY <1>6 DEF FetchWorkspaces, FetchTabs, FetchPanes, Fetch
  <2>2. QED
    BY <1>0, <1>2, <2>1 DEF ModeInv
<1>7. CASE CreateWorkspace \/ ApplyLayout \/ SplitPane
  <2>1. /\ UNCHANGED <<stacked, pc, changes>>
        /\ \E possible, outcome : Outcome(possible, outcome)
    BY <1>7 DEF CreateWorkspace, ApplyLayout, SplitPane
  <2>2. faults' = faults \/ Fault
    BY <2>1 DEF Outcome
  <2>3. QED
    BY <1>0, <1>2, <2>1, <2>2 DEF ModeInv
<1>8. CASE RestoreOccupants
  BY <1>0, <1>2, <1>8 DEF RestoreOccupants, ModeInv
<1>9. CASE RenameTab \/ MoveTab \/ FocusTab \/ FocusPane \/ SwapPanes
  <2>1. UNCHANGED <<stacked, pc, changes>> /\ (UNCHANGED faults \/ Fault)
    BY <1>9 DEF RenameTab, MoveTab, FocusTab, FocusPane, SwapPanes, Try
  <2>2. QED
    BY <1>0, <1>2, <2>1 DEF ModeInv
<1>10. CASE Kill
  BY <1>2, <1>10 DEF Kill, ModeInv
<1>11. CASE UserCloses \/ UserOpens \/ UserSplits
  <2>1. Change /\ UNCHANGED <<stacked, pc, faults>>
    BY <1>11 DEF UserCloses, UserOpens, UserSplits, Meanwhile
  <2>2. QED
    BY <1>3, <2>1 DEF ModeInv
<1>12. QED
  BY <1>4, <1>5, <1>6, <1>7, <1>8, <1>9, <1>10, <1>11 DEF Next, ReopenStep

LEMMA ModeInvariant == Spec => []ModeInv
<1>1. Init => ModeInv
  BY FaultAssumption DEF Init, ModeInv, Counted
<1>2. ModeInv /\ [Next]_vars => ModeInv'
  BY ModeStays
<1>3. QED
  BY <1>1, <1>2, PTL DEF Spec

LEMMA SoundIsTyped ==
  ASSUME HerdrInv
  PROVE  /\ DistinctIds(herdr)
         /\ \A w \in Range(herdr) : DistinctIds(w.tabs) /\ w.active \in IdsIn(w.tabs)
         /\ \A w \in Range(herdr) : \A t \in Range(w.tabs) :
              /\ IsLayout(t.layout) /\ PanesApart(t.layout) /\ t.focused \in PaneIds(t.layout)
              /\ \A p \in PaneIds(t.layout) : p < next
<1>1. Sound(herdr, next) /\ next \in Nat
  BY DEF HerdrInv
<1>2. DistinctIds(herdr)
  BY <1>1 DEF Sound, Numbered
<1>3. ASSUME NEW w \in Range(herdr)
      PROVE  /\ DistinctIds(w.tabs) /\ w.active \in IdsIn(w.tabs)
             /\ \A t \in Range(w.tabs) : IsTab(t) /\ Shown(t, next)
  <2>1. PICK i \in DOMAIN herdr : w = herdr[i]
    BY DEF Range
  <2>2. QED
    BY <1>1, <2>1, SoundWorkspace
<1>4. ASSUME NEW t, IsTab(t), Shown(t, next)
      PROVE  /\ IsLayout(t.layout) /\ PanesApart(t.layout) /\ t.focused \in PaneIds(t.layout)
             /\ \A p \in PaneIds(t.layout) : p < next
  BY <1>1, <1>4 DEF IsTab, Shown
<1>5. QED
  BY <1>2, <1>3, <1>4

\* Whatever the user closes and opens and whichever calls fail, no two open containers
\* share an id, every tab is a split tree of distinct panes with its focus on one of
\* them, and what the report and the record name herdr made for the restore
\* (restore.rs Report, record_self_created).
THEOREM RestoreTypeCorrect == Spec => []TypeOK
<1>1. ASSUME ReopenInv, ModeInv PROVE TypeOK
  <2>1. /\ recorded \subseteq made /\ made \subseteq FirstNew .. next - 1 /\ next >= FirstNew
        /\ report.workspaces \subseteq recorded /\ report.tabs \subseteq recorded
        /\ report.panes \subseteq recorded /\ report.failed \in BOOLEAN
    BY <1>1 DEF ReopenInv, HerdrInv, ReportInv
  <2>2. UNION {recorded, report.workspaces, report.tabs, report.panes} \subseteq made
    BY <2>1
  <2>3. HerdrInv
    BY <1>1 DEF ReopenInv
  <2>4. \A t \in UNION {Range(w.tabs) : w \in Range(herdr)} :
          /\ IsLayout(t.layout) /\ PanesApart(t.layout) /\ t.focused \in PaneIds(t.layout)
          /\ \A p \in PaneIds(t.layout) : p < next
    BY <2>3, SoundIsTyped
  <2>5. QED
    BY <1>1, <2>1, <2>2, <2>3, <2>4, SoundIsTyped DEF TypeOK, ModeInv, Counted
<1>2. QED
  BY <1>1, ReopenInvariant, ModeInvariant, PTL

(***************************************************************************)
(* What a reopen leaves alone.                                             *)
(***************************************************************************)
LEMMA StaysItself == \A h, out : Stays(h, h, out)
BY DEF Stays

LEMMA MadeStays ==
  ASSUME NEW outcome, NEW after, NEW ids, NEW gone, NEW kind, NEW head, NEW out,
         Make(outcome, after, ids, gone, kind, head), Stays(herdr, after, out)
  PROVE  Stays(herdr, herdr', out)
BY MadeIs, StaysItself

\* A tab that a request may take away.
MayGo(t) == t.id \in recorded /\ Replaces(t)

LEMMA NoneGoes ==
  ASSUME Stays(herdr, herdr', {})
  PROVE  \A t \in TabsIn(herdr) : MayGo(t) \/ \E s \in TabsIn(herdr') :
           s.id = t.id /\ PaneIds(t.layout) \subseteq PaneIds(s.layout)
BY DEF Stays

LEMMA RequestsAdd ==
  ASSUME ReopenInv, CreateWorkspace \/ ApplyLayout \/ SplitPane
  PROVE  \A t \in TabsIn(herdr) : MayGo(t) \/ \E s \in TabsIn(herdr') :
           s.id = t.id /\ PaneIds(t.layout) \subseteq PaneIds(s.layout)
<1> DEFINE none == {}
<1>1. HerdrInv
  BY DEF ReopenInv
<1>2. CASE CreateWorkspace
  <2>1. PICK outcome, ids, kind, ws :
          Make(outcome,
               WithWorkspace(herdr, next, effective_ws_label(ws.label, ws.cwd), ws.cwd,
                             Tab(next + 1, None, next + 2, Leaf(next + 2, ws.cwd))),
               ids, {}, kind, next)
    BY <1>2 DEF CreateWorkspace
  <2> DEFINE label == effective_ws_label(ws.label, ws.cwd)
             cwd   == ws.cwd
             tab   == Tab(next + 1, None, next + 2, Leaf(next + 2, cwd))
             after == WithWorkspace(herdr, next, label, cwd, tab)
             gone  == {}
  <2>2. Make(outcome, after, ids, gone, kind, next)
    BY <2>1
  <2> HIDE DEF label, cwd
  <2>3. Stays(herdr, after, none)
    BY <1>1, WorkspaceMade
  <2> HIDE DEF after, gone, none
  <2>4. Stays(herdr, herdr', none)
    BY <2>2, <2>3, MadeStays
  <2>5. QED
    BY <2>4, NoneGoes DEF none
<1>3. CASE ApplyLayout
  <2> DEFINE c     == Head(calls)
             root  == strip_pane_ids(c.tab.layout)
             after == Applied(herdr, c.into, c.placeholder, c.label, root)
             out   == {c.placeholder}
  <2>1. PICK outcome, ids, gone, kind : Make(outcome, after, ids, gone, kind, next)
    BY <1>3 DEF ApplyLayout
  <2>2. IsCall(c, recorded) /\ c.call = "layout.apply" /\ calls # << >>
    BY <1>3, FirstCall DEF ReopenInv, ApplyLayout
  <2>3. HasPanes(c.tab.layout) /\ (c.placeholder = None \/ c.placeholder \in recorded)
    BY <2>2 DEF IsCall, IsPlanned, IsTabSnap
  <2>4. Stays(herdr, after, out)
    <3> HIDE DEF c
    <3>1. QED
      BY <1>1, <2>3, LayoutApplied
  <2>5. ASSUME NEW t \in TabsIn(herdr), t.id \in out PROVE MayGo(t)
    <3>1. t.id \in Nat
      BY <1>1, HerdrIs
    <3>2. t.id \in recorded
      BY <2>3, <2>5, <3>1, IdAssumption
    <3>3. QED
      BY <2>2, <2>5, <3>2 DEF MayGo, Replaces
  <2> HIDE DEF after, out
  <2>6. Stays(herdr, herdr', out)
    BY <2>1, <2>4, MadeStays
  <2>7. QED
    BY <2>5, <2>6 DEF Stays
<1>4. CASE SplitPane
  <2> DEFINE c     == Head(calls)
             after == PaneSplit(herdr, c.target, c.direction, c.ratio, Pane(next, c.cwd))
  <2>1. PICK outcome, ids, gone, kind : Make(outcome, after, ids, gone, kind, next)
    BY <1>4 DEF SplitPane
  <2> HIDE DEF c
  <2>2. Stays(herdr, after, none)
    BY <1>1, PaneMade
  <2> HIDE DEF after, none
  <2>3. Stays(herdr, herdr', none)
    BY <2>1, <2>2, MadeStays
  <2>4. QED
    BY <2>3, NoneGoes DEF none
<1>5. QED
  BY <1>2, <1>3, <1>4

LEMMA StepsAdd ==
  ASSUME ReopenInv, ModeInv, [Next]_vars, changes' = changes
  PROVE  \A t \in TabsIn(herdr) : MayGo(t) \/ \E s \in TabsIn(herdr') :
           s.id = t.id /\ PaneIds(t.layout) \subseteq PaneIds(s.layout)
<1>1. changes \in Int
  BY DEF ModeInv, Counted
<1>2. CASE CreateWorkspace \/ ApplyLayout \/ SplitPane
  BY <1>2, RequestsAdd
<1>3. CASE RenameTab \/ MoveTab \/ FocusTab \/ FocusPane \/ SwapPanes
  <2>1. PICK name, after : Try(name, after) /\ Harmless(after)
    BY <1>3, TriedRequests DEF ReopenInv
  <2>2. herdr' = after \/ herdr' = herdr
    BY <2>1 DEF Try
  <2>3. Stays(herdr, herdr', {})
    BY <2>1, <2>2, StaysItself DEF Harmless
  <2>4. QED
    BY <2>3, NoneGoes
<1>4. CASE UserCloses \/ UserOpens \/ UserSplits
  BY <1>1, <1>4 DEF UserCloses, UserOpens, UserSplits, Change
<1>5. CASE \/ Pop \/ FetchWorkspaces \/ FetchTabs \/ FetchPanes \/ RestoreWorkspace
           \/ RestoreOccupants \/ Arrange \/ End \/ Kill \/ UNCHANGED vars
  <2>1. herdr' = herdr
    BY <1>5 DEF Pop, FetchWorkspaces, FetchTabs, FetchPanes, RestoreWorkspace,
                RestoreOccupants, Arrange, End, Kill, vars
  <2>2. QED
    BY <2>1, StaysItself, NoneGoes
<1>6. QED
  BY <1>2, <1>3, <1>4, <1>5 DEF Next, ReopenStep

\* A request of a reopen takes away at most the one tab that the layout.apply at hand
\* replaces, and only if that tab's id is on record as the restore's own
\* (restore.rs restore_workspace, create_tab_from_layout); every other tab is there
\* after it, with all the panes it had, whoever opened it.  That the tab is still the
\* restore's own placeholder does not follow: herdr may have given its id away.
THEOREM ReopenOnlyAdds == Spec => OnlyAdds
<1>1. ASSUME ReopenInv, ModeInv, [Next]_vars
      PROVE  [changes' = changes =>
                \A t \in TabsIn(herdr) :
                  \/ t.id \in recorded /\ Replaces(t)
                  \/ \E s \in TabsIn(herdr') :
                       s.id = t.id /\ PaneIds(t.layout) \subseteq PaneIds(s.layout)]_vars
  BY <1>1, StepsAdd DEF MayGo
<1>2. QED
  BY <1>1, ReopenInvariant, ModeInvariant, PTL DEF Spec, OnlyAdds

(***************************************************************************)
(* What a reopen brings back.                                              *)
(***************************************************************************)
Holds(tab, pane) == pane \in tab.panes /\ pane \in PaneIds(tab.layout)

\* What closed is remembered with its place; a tab or a pane closes alone.
Remembered ==
  /\ \A ws \in entry.workspaces : \A tab \in Range(ws.tabs) : \A pane \in tab.panes :
       Holds(tab, pane)
  /\ entry.granularity \in {"tab", "pane"} =>
       \A ws \in entry.workspaces : /\ \A v \in entry.workspaces : v = ws
                                    /\ \A tab \in Range(ws.tabs) : tab = ws.tabs[1]
  /\ entry.granularity = "pane" =>
       \A ws \in entry.workspaces : \A p, q \in ws.tabs[1].panes : p = q

\* A call that brings the pane back, or takes its tab for still open.
Promises(c, tab, pane) ==
  \/ /\ c.call = "restore_workspace" /\ entry.granularity # "pane"
     /\ \E ws \in c.left : tab \in Range(ws.tabs)
  \/ c.call = "workspace.create" /\ \E t \in Range(c.ws.tabs) : Holds(t, pane)
  \/ c.call = "layout.apply" /\ Holds(c.tab, pane)
  \/ c.call = "pane.split" /\ c.pane = pane
  \/ c.call = "restore_occupant" /\ \E pair \in c.pairs : pair[1] = pane

IsBack(pane) == \E pair \in occupied : pair[1] = pane

Promised(tab, pane, p) == \E c \in Range(p) : Promises(c, tab, pane)

\* As long as nothing failed, each pane is back or on its way.
OnItsWay ==
  \A ws \in entry.workspaces : \A tab \in Range(ws.tabs) : \A pane \in tab.panes :
    IsBack(pane) \/ TakenForOpen(tab) \/ Promised(tab, pane, calls)

PromiseInv ==
  /\ Remembered
  /\ pc = "calling" /\ ~report.failed => OnItsWay
  /\ NothingSilentlyMissing

LEMMA WorkspacePromises ==
  ASSUME NEW ws, IsWorkspaceSnap(ws), NEW l, NEW tab \in Range(ws.tabs), NEW pane,
         Holds(tab, pane), NEW any
  PROVE  TabAlive(tab, l) \/ Promised(any, pane, restore_workspace(ws, l))
<1> DEFINE K       == {j \in DOMAIN ws.tabs : ~TabAlive(ws.tabs[j], l)}
           missing == Keep(ws.tabs, K)
           add(t)  == create_tab_from_layout(ws.workspace_id, t, l)
           adds    == [j \in DOMAIN missing |-> add(missing[j])]
           create  == [call |-> "workspace.create", ws |-> ws]
<1>1. restore_workspace(ws, l) = adds \/ restore_workspace(ws, l) = <<create>>
  BY DEF restore_workspace
<1>2. CASE restore_workspace(ws, l) = <<create>>
  <2>1. create.call = "workspace.create" /\ create.ws = ws
    OBVIOUS
  <2> HIDE DEF create
  <2>2. Range(<<create>>) = {create}
    BY OneIsSeq
  <2>3. QED
    BY <1>2, <2>1, <2>2 DEF Promised, Promises
<1>3. CASE restore_workspace(ws, l) = adds /\ ~TabAlive(tab, l)
  <2>1. PICK k \in DOMAIN ws.tabs : tab = ws.tabs[k]
    BY DEF Range
  <2>2. k \in K /\ K \in SUBSET DOMAIN ws.tabs /\ IsSeq(ws.tabs)
    BY <1>3, <2>1 DEF IsWorkspaceSnap
  <2> HIDE DEF K
  <2>3. PICK j \in DOMAIN missing : missing[j] = tab
    BY <2>1, <2>2, KeepIds
  <2> HIDE DEF missing
  <2>4. add(tab).call = "layout.apply" /\ add(tab).tab = tab
    BY DEF create_tab_from_layout, Apply
  <2>5. add(tab) \in Range(adds)
    BY <2>3 DEF Range
  <2> HIDE DEF adds, add
  <2>6. QED
    BY <1>3, <2>4, <2>5 DEF Promised, Promises
<1>4. QED
  BY <1>1, <1>2, <1>3

LEMMA TabPromises ==
  ASSUME NEW ws, IsWorkspaceSnap(ws), 1 \in DOMAIN ws.tabs, NEW l, NEW pane,
         Holds(ws.tabs[1], pane), NEW any
  PROVE  TabAlive(ws.tabs[1], l) \/ Promised(any, pane, restore_tab_granularity(ws, l))
<1> DEFINE tab == ws.tabs[1]
           add == create_tab_from_layout(ws.workspace_id, tab, l)
<1>1. restore_tab_granularity(ws, l) \in {restore_workspace(ws, l), <<add>>} \/ TabAlive(tab, l)
  BY DEF restore_tab_granularity
<1>2. tab \in Range(ws.tabs)
  BY DEF Range
<1> HIDE DEF tab
<1>3. TabAlive(tab, l) \/ Promised(any, pane, restore_workspace(ws, l))
  BY <1>2, WorkspacePromises DEF tab
<1>4. add.call = "layout.apply" /\ add.tab = tab
  BY DEF create_tab_from_layout, Apply
<1> HIDE DEF add
<1>5. Range(<<add>>) = {add}
  BY OneIsSeq
<1>6. Promised(any, pane, <<add>>)
  BY <1>4, <1>5 DEF Promised, Promises, tab
<1>7. QED
  BY <1>1, <1>3, <1>6 DEF tab

\* A tab reduced to some of its panes is not found open where the tab was not.
LEMMA PartIsAlive ==
  ASSUME NEW tab, NEW part, part.tab_id = tab.tab_id, part.label = tab.label,
         leaf_cwds(part.layout) \subseteq leaf_cwds(tab.layout), NEW l, TabAlive(part, l)
  PROVE  TabAlive(tab, l)
<1>1. ASSUME NEW cwds, NEW label, same_container(tab.label, leaf_cwds(part.layout), label, cwds)
      PROVE  same_container(tab.label, leaf_cwds(tab.layout), label, cwds)
  BY <1>1 DEF same_container
<1>2. QED
  BY <1>1 DEF TabAlive

LEMMA PanePromises ==
  ASSUME NEW ws, IsWorkspaceSnap(ws), 1 \in DOMAIN ws.tabs, NEW l, NEW pane,
         Holds(ws.tabs[1], pane), \A q \in ws.tabs[1].panes : q = pane, NEW any,
         NEW p \in restore_pane_granularity(ws, l)
  PROVE  Promised(any, pane, p)
<1> DEFINE tab   == ws.tabs[1]
           alone == [tab EXCEPT !.layout = Leaf(pane, @[PathOf(@, pane)].cwd)]
           live_panes == {x.id : x \in {q \in l.panes : q.tab = tab.tab_id}}
           c(x) == split_beside(tab, pane, x, live_panes)
           shell == ws_shell(ws, alone)
<1>1. \/ \E x \in live_panes : p = <<c(x)>>
      \/ ~TabAlive(tab, l) /\ p = restore_tab_granularity(shell, l)
  <2>1. (CHOOSE x \in tab.panes : TRUE) = pane
    BY DEF Holds
  <2>2. QED
    BY <2>1 DEF restore_pane_granularity
<1>2. IsTabSnap(tab) /\ pane \in tab.panes /\ pane \in PaneIds(tab.layout)
  BY DEF IsWorkspaceSnap, Range, Holds
<1>3. CASE \E x \in live_panes : p = <<c(x)>>
  <2>1. PICK x \in live_panes : p = <<c(x)>>
    BY <1>3
  <2>2. c(x).call = "pane.split" /\ c(x).pane = pane
    BY DEF split_beside
  <2> HIDE DEF c
  <2>3. Range(<<c(x)>>) = {c(x)}
    BY OneIsSeq
  <2>4. QED
    BY <2>1, <2>2, <2>3 DEF Promised, Promises
<1>4. CASE ~TabAlive(tab, l) /\ p = restore_tab_granularity(shell, l)
  <2> HIDE DEF tab
  <2>1. /\ TabAlive(alone, l) => TabAlive(tab, l)
        /\ alone.panes = tab.panes /\ pane \in PaneIds(alone.layout)
    <3> DEFINE cwd  == tab.layout[PathOf(tab.layout, pane)].cwd
               leaf == Leaf(pane, cwd)
    <3>1. cwd \in leaf_cwds(tab.layout)
      BY <1>2, PathIsLeaf DEF leaf_cwds
    <3>2. leaf_cwds(leaf) \subseteq {cwd} /\ pane \in PaneIds(leaf)
      <4>1. \A p2 \in DOMAIN leaf : leaf[p2].cwd = cwd
        BY DEF Leaf, Pane
      <4>2. leaf_cwds(leaf) \subseteq {cwd}
        BY <4>1 DEF leaf_cwds, Leaves
      <4>3. QED
        BY <4>2, LeafIsLayout
    <3>3. alone = [tab EXCEPT !.layout = leaf]
      OBVIOUS
    <3> HIDE DEF alone, leaf, cwd
    <3>4. /\ alone.tab_id = tab.tab_id /\ alone.label = tab.label /\ alone.panes = tab.panes
          /\ alone.layout = leaf
      BY <1>2, <3>3 DEF IsTabSnap
    <3>5. leaf_cwds(alone.layout) \subseteq leaf_cwds(tab.layout)
      BY <3>1, <3>2, <3>4
    <3>6. TabAlive(alone, l) => TabAlive(tab, l)
      BY <3>4, <3>5, PartIsAlive
    <3>7. QED
      BY <3>2, <3>4, <3>6
  <2>2. IsTabSnap(alone)
    <3> DEFINE leaf == Leaf(pane, tab.layout[PathOf(tab.layout, pane)].cwd)
    <3>1. HasPanes(leaf)
      BY LeafHasPanes
    <3>2. alone = [tab EXCEPT !.layout = leaf]
      OBVIOUS
    <3> HIDE DEF leaf
    <3>3. QED
      BY <1>2, <3>1, <3>2, TabSnapFields
  <2> HIDE DEF alone
  <2>3. IsWorkspaceSnap(shell) /\ 1 \in DOMAIN shell.tabs
    BY <2>2, ShellOfOne
  <2>4. shell.tabs[1] = alone
    BY DEF ws_shell, IsWorkspaceSnap
  <2> HIDE DEF shell
  <2>5. Holds(shell.tabs[1], pane)
    BY <1>2, <2>1, <2>4 DEF Holds
  <2>6. TabAlive(alone, l) \/ Promised(any, pane, restore_tab_granularity(shell, l))
    BY <2>3, <2>4, <2>5, TabPromises
  <2>7. QED
    BY <1>4, <2>1, <2>6
<1>5. QED
  BY <1>1, <1>3, <1>4


LEMMA AliveIsTaken ==
  ASSUME NEW tab, NEW l, TabAlive(tab, l)
  PROVE  \E t \in l.tabs : /\ t.id = tab.tab_id
                           /\ \/ t.label = tab.label
                              \/ \E p \in l.panes : p.tab = t.id /\ p.cwd \in leaf_cwds(tab.layout)
<1>1. PICK t \in l.tabs : /\ t.id = tab.tab_id
                          /\ same_container(tab.label, leaf_cwds(tab.layout), t.label,
                                            {p.cwd : p \in {q \in l.panes : q.tab = t.id}})
  BY DEF TabAlive
<1>2. \/ t.label = tab.label
      \/ \E p \in l.panes : p.tab = t.id /\ p.cwd \in leaf_cwds(tab.layout)
  BY <1>1 DEF same_container
<1>3. QED
  BY <1>1, <1>2

LEMMA EachPromises ==
  ASSUME entry.granularity # "pane", NEW left, NEW ws \in left, NEW tab \in Range(ws.tabs),
         NEW pane
  PROVE  Promised(tab, pane, RestoreEach(left))
<1> DEFINE c == [call |-> "restore_workspace", left |-> left]
<1>1. RestoreEach(left) = <<c>>
  BY DEF RestoreEach
<1>2. c.call = "restore_workspace" /\ c.left = left
  OBVIOUS
<1> HIDE DEF c
<1>3. Range(<<c>>) = {c}
  BY OneIsSeq
<1>4. QED
  BY <1>1, <1>2, <1>3 DEF Promised, Promises

LEMMA PlansPromise ==
  ASSUME EntryInv, Remembered, NEW l, NEW p \in Plans(l), NEW ws \in entry.workspaces,
         NEW tab \in Range(ws.tabs), NEW pane \in tab.panes
  PROVE  Promised(tab, pane, p) \/ (entry.granularity # "pane" /\ TabAlive(tab, l))
<1>1. Holds(tab, pane) /\ IsWorkspaceSnap(ws)
  BY DEF Remembered, EntryInv
<1>2. CASE entry.granularity = "pane"
  <2>1. /\ p \in restore_pane_granularity(ws, l) /\ 1 \in DOMAIN ws.tabs /\ tab = ws.tabs[1]
        /\ \A q \in ws.tabs[1].panes : q = pane
    BY <1>2 DEF Plans, Remembered, EntryInv
  <2>2. QED
    BY <1>1, <2>1, PanePromises
<1>3. CASE entry.granularity = "tab"
  <2>1. p = restore_tab_granularity(ws, l) /\ 1 \in DOMAIN ws.tabs /\ tab = ws.tabs[1]
    BY <1>3 DEF Plans, Remembered, EntryInv
  <2>2. QED
    BY <1>1, <1>3, <2>1, TabPromises
<1>4. CASE entry.granularity \notin {"pane", "tab"}
  <2>1. p = RestoreEach(entry.workspaces)
    BY <1>4 DEF Plans
  <2>2. QED
    BY <1>4, <2>1, EachPromises
<1>5. QED
  BY <1>2, <1>3, <1>4

LEMMA InitRemembered ==
  ASSUME WorkspacesClose \/ TabCloses \/ PaneCloses
  PROVE  Remembered
<1> DEFINE Whole(ws) == \A tab \in Range(ws.tabs) : tab.panes = PaneIds(tab.layout)
<1>1. ASSUME NEW i \in DOMAIN Session PROVE IsWorkspaceSnap(WorkspaceSnap(i)) /\ Whole(WorkspaceSnap(i))
  <2>1. Whole(WorkspaceSnap(i))
    <3> DEFINE w    == Session[i]
               tabs == [j \in DOMAIN w.tabs |-> TabSnap(w, j)]
    <3>1. WorkspaceSnap(i).tabs = tabs
      BY DEF WorkspaceSnap
    <3>2. ASSUME NEW j \in DOMAIN w.tabs PROVE TabSnap(w, j).panes = PaneIds(TabSnap(w, j).layout)
      BY DEF TabSnap
    <3> HIDE DEF w
    <3>3. ASSUME NEW tab \in Range(tabs) PROVE tab.panes = PaneIds(tab.layout)
      BY <3>2 DEF Range
    <3>4. QED
      BY <3>1, <3>3
  <2>2. QED
    BY <2>1, SnapsOfSession
<1>2. ASSUME NEW ws, NEW tab, ws.tabs = <<tab>>, NEW granularity, NEW S, S = {ws},
             entry = Entry(granularity, S), \A pane \in tab.panes : Holds(tab, pane),
             granularity = "pane" => \A p, q \in tab.panes : p = q
      PROVE  Remembered
  <2>1. Range(ws.tabs) = {tab} /\ ws.tabs[1] = tab
    BY <1>2, OneIsSeq
  <2>2. entry.workspaces = S /\ entry.granularity = granularity /\ \A v \in S : v = ws
    BY <1>2 DEF Entry
  <2>3. QED
    BY <1>2, <2>1, <2>2 DEF Remembered
<1>3. CASE WorkspacesClose
  <2>1. PICK S \in SUBSET DOMAIN Session :
          entry = Entry(IF Cardinality(S) = 1 THEN "workspace" ELSE "workspace_group",
                        {WorkspaceSnap(i) : i \in S})
    BY <1>3 DEF WorkspacesClose
  <2>2. /\ entry.workspaces = {WorkspaceSnap(i) : i \in S}
        /\ entry.granularity \in {"workspace", "workspace_group"}
    BY <2>1 DEF Entry
  <2>3. \A ws \in entry.workspaces : Whole(ws)
    BY <1>1, <2>2
  <2>4. QED
    BY <2>2, <2>3 DEF Remembered, Holds
<1>4. CASE TabCloses
  <2>1. PICK i \in DOMAIN Session : \E tab \in Range(WorkspaceSnap(i).tabs) :
               entry = Entry("tab", {ws_shell(WorkspaceSnap(i), tab)})
    BY <1>4 DEF TabCloses
  <2> DEFINE snap == WorkspaceSnap(i)
  <2>2. IsWorkspaceSnap(snap) /\ Whole(snap)
    BY <1>1
  <2> HIDE DEF snap
  <2>3. PICK tab \in Range(snap.tabs) : entry = Entry("tab", {ws_shell(snap, tab)})
    BY <2>1 DEF snap
  <2> DEFINE ws == ws_shell(snap, tab)
             S  == {ws}
  <2>4. ws.tabs = <<tab>>
    BY <2>2 DEF ws_shell, IsWorkspaceSnap
  <2>5. entry = Entry("tab", S) /\ \A pane \in tab.panes : Holds(tab, pane)
    BY <2>2, <2>3 DEF Holds
  <2>6. S = {ws}
    OBVIOUS
  <2> HIDE DEF ws, S
  <2>7. QED
    BY <1>2, <2>4, <2>5, <2>6
<1>5. CASE PaneCloses
  <2>1. PICK i \in DOMAIN Session :
          \E tab \in Range(WorkspaceSnap(i).tabs) : \E pane \in tab.panes :
            \/ entry = Entry("pane", {ws_shell(WorkspaceSnap(i), [tab EXCEPT !.panes = {pane}])})
            \/ entry = Entry("pane", {Hydrated(WorkspaceSnap(i), tab, pane)})
    BY <1>5 DEF PaneCloses
  <2> DEFINE snap == WorkspaceSnap(i)
  <2>2. IsWorkspaceSnap(snap) /\ Whole(snap)
    BY <1>1
  <2> HIDE DEF snap
  <2>13. PICK tab \in Range(snap.tabs) : \E pane \in tab.panes :
            \/ entry = Entry("pane", {ws_shell(snap, [tab EXCEPT !.panes = {pane}])})
            \/ entry = Entry("pane", {Hydrated(snap, tab, pane)})
    BY <2>1 DEF snap
  <2>3. PICK pane \in tab.panes :
            \/ entry = Entry("pane", {ws_shell(snap, [tab EXCEPT !.panes = {pane}])})
            \/ entry = Entry("pane", {Hydrated(snap, tab, pane)})
    BY <2>13
  <2>4. IsTabSnap(tab) /\ pane \in PaneIds(tab.layout)
    BY <2>2 DEF IsWorkspaceSnap
  <2> DEFINE panes == {pane}
             cwd   == tab.layout[PathOf(tab.layout, pane)].cwd
             leaf  == Leaf(pane, cwd)
             one   == [tab EXCEPT !.panes = panes]
             lost  == [tab EXCEPT !.label = None, !.index = 0, !.focused_pane_id = None,
                                  !.panes = panes, !.layout = leaf]
             a     == ws_shell(snap, one)
             b     == [ws_shell(snap, lost) EXCEPT !.index = 0, !.cwd = cwd, !.active_tab_id = None]
             A     == {a}
             B     == {b}
  <2>5. entry = Entry("pane", A) \/ entry = Entry("pane", B)
    BY <2>3 DEF Hydrated
  <2>6. pane \in PaneIds(leaf) /\ \A q \in panes : q = pane
    BY LeafIsLayout
  <2>7. A = {a} /\ B = {b} /\ a.tabs = <<one>> /\ b.tabs = <<lost>>
    <3>1. A = {a} /\ B = {b}
      OBVIOUS
    <3>2. a.tabs = <<one>>
      BY <2>2 DEF ws_shell, IsWorkspaceSnap
    <3> HIDE DEF lost
    <3>3. b.tabs = <<lost>>
      BY <2>2 DEF ws_shell, IsWorkspaceSnap
    <3>4. QED
      BY <3>1, <3>2, <3>3
  <2> HIDE DEF leaf, panes, a, b, A, B
  <2>8. one.panes = panes /\ one.layout = tab.layout
    BY <2>4 DEF IsTabSnap
  <2>9. lost.panes = panes /\ lost.layout = leaf
    BY <2>4 DEF IsTabSnap
  <2> HIDE DEF one, lost
  <2>10. CASE entry = Entry("pane", A)
    BY <1>2, <2>4, <2>6, <2>7, <2>8, <2>10 DEF Holds
  <2>11. CASE entry = Entry("pane", B)
    BY <1>2, <2>6, <2>7, <2>9, <2>11 DEF Holds
  <2>12. QED
    BY <2>5, <2>10, <2>11
<1>6. QED
  BY <1>3, <1>4, <1>5

LEMMA HeadOrTail ==
  ASSUME NEW s, IsSeq(s), s # << >>, NEW c \in Range(s)
  PROVE  c = Head(s) \/ c \in Range(Tail(s))
<1>1. s \in Seq(Range(s)) /\ Len(s) \in Nat /\ DOMAIN s = 1 .. Len(s)
  BY DEF IsSeq
<1>2. PICK k \in 1 .. Len(s) : c = s[k]
  BY <1>1 DEF Range
<1>3. /\ Head(s) = s[1] /\ Tail(s) \in Seq(Range(s)) /\ Len(Tail(s)) = Len(s) - 1
      /\ \A j \in 1 .. Len(Tail(s)) : Tail(s)[j] = s[j + 1]
  BY <1>1, HeadTailProperties
<1>4. CASE k = 1
  BY <1>2, <1>3, <1>4
<1>5. CASE k # 1
  <2>1. k - 1 \in 1 .. Len(s) - 1 /\ (k - 1) + 1 = k
    BY <1>1, <1>2, <1>5
  <2>2. k - 1 \in DOMAIN Tail(s) /\ Tail(s)[k - 1] = c
    <3>1. DOMAIN Tail(s) = 1 .. Len(s) - 1
      BY <1>3
    <3>2. QED
      BY <1>2, <1>3, <2>1, <3>1
  <2>3. QED
    BY <2>2 DEF Range
<1>6. QED
  BY <1>4, <1>5

LEMMA ConcatHas ==
  ASSUME NEW r, IsSeq(r), NEW s, IsSeq(s)
  PROVE  Range(r) \subseteq Range(r \o s) /\ Range(s) \subseteq Range(r \o s)
<1> DEFINE S == Range(r) \cup Range(s)
           t == r \o s
<1>1. r \in Seq(S) /\ s \in Seq(S)
  BY DEF IsSeq
<1> HIDE DEF S
<1>2. /\ t \in Seq(S) /\ Len(t) = Len(r) + Len(s) /\ Len(r) \in Nat /\ Len(s) \in Nat
      /\ \A k \in 1 .. Len(r) : t[k] = r[k]
      /\ \A k \in 1 .. Len(s) : t[Len(r) + k] = s[k]
      /\ DOMAIN r = 1 .. Len(r) /\ DOMAIN s = 1 .. Len(s)
  BY <1>1, ConcatAt
<1>3. DOMAIN t = 1 .. Len(t)
  BY <1>2
<1> HIDE DEF t
<1>4. ASSUME NEW c \in Range(r) PROVE c \in Range(t)
  <2>1. PICK k \in 1 .. Len(r) : c = r[k]
    BY <1>2 DEF Range
  <2>2. k \in DOMAIN t /\ t[k] = c
    BY <1>2, <1>3, <2>1
  <2>3. QED
    BY <2>2 DEF Range
<1>5. ASSUME NEW c \in Range(s) PROVE c \in Range(t)
  <2>1. PICK k \in 1 .. Len(s) : c = s[k]
    BY <1>2 DEF Range
  <2>2. Len(r) + k \in DOMAIN t /\ t[Len(r) + k] = c
    BY <1>2, <1>3, <2>1
  <2>3. QED
    BY <2>2 DEF Range
<1>6. QED
  BY <1>4, <1>5 DEF t

\* What has been promised stays so when the first call is made, if what it promises
\* is then done or promised by the calls that follow it.
LEMMA PromiseStep ==
  ASSUME ReopenInv, PromiseInv, pc = "calling", pc' # "over", calls # << >>,
         UNCHANGED <<entry, live>>, occupied \subseteq occupied',
         NEW more, IsSeq(more), calls' = more \o Tail(calls),
         ~report'.failed => ~report.failed,
         \A ws \in entry.workspaces : \A tab \in Range(ws.tabs) : \A pane \in tab.panes :
           ~report'.failed /\ Promises(Head(calls), tab, pane) =>
             IsBack(pane)' \/ TakenForOpen(tab) \/ Promised(tab, pane, more)
  PROVE  PromiseInv'
<1>1. Remembered'
  BY DEF PromiseInv, Remembered
<1>2. NothingSilentlyMissing'
  BY DEF NothingSilentlyMissing
<1>3. ASSUME ~report'.failed, NEW ws \in entry.workspaces, NEW tab \in Range(ws.tabs),
             NEW pane \in tab.panes
      PROVE  IsBack(pane)' \/ TakenForOpen(tab) \/ Promised(tab, pane, calls')
  <2>1. IsSeq(calls) /\ IsSeq(Tail(calls))
    BY TailIsSeq DEF ReopenInv, CallsInv
  <2>2. Range(more) \subseteq Range(calls') /\ Range(Tail(calls)) \subseteq Range(calls')
    BY <2>1, ConcatHas
  <2>3. IsBack(pane) \/ TakenForOpen(tab) \/ Promised(tab, pane, calls)
    BY <1>3 DEF PromiseInv, OnItsWay
  <2>4. CASE IsBack(pane)
    BY <2>4 DEF IsBack
  <2>5. CASE Promised(tab, pane, calls)
    <3>1. PICK c \in Range(calls) : Promises(c, tab, pane)
      BY <2>5 DEF Promised
    <3>2. CASE c \in Range(Tail(calls))
      BY <2>2, <3>1, <3>2 DEF Promised
    <3>3. CASE c = Head(calls)
      <4>1. IsBack(pane)' \/ TakenForOpen(tab) \/ Promised(tab, pane, more)
        BY <1>3, <3>1, <3>3
      <4>2. QED
        BY <2>2, <4>1 DEF Promised
    <3>4. QED
      BY <2>1, <3>2, <3>3, HeadOrTail
  <2>6. QED
    BY <2>3, <2>4, <2>5
<1>4. ~report'.failed => OnItsWay'
  <2>1. \A tab : TakenForOpen(tab) => TakenForOpen(tab)'
    BY DEF TakenForOpen
  <2>2. \A tab, pane : Promised(tab, pane, calls') => Promised(tab, pane, calls)'
    BY DEF Promised, Promises
  <2>3. QED
    BY <1>3, <2>1, <2>2 DEF OnItsWay
<1>5. QED
  BY <1>1, <1>2, <1>4 DEF PromiseInv

\* The pane at each position of the remembered layout is matched to a new one.
LEMMA PanesMatched ==
  ASSUME NEW layout, IsLayout(layout), NEW n \in Nat, NEW pane \in PaneIds(layout)
  PROVE  \E m \in map_pane_ids(layout, Filled(strip_pane_ids(layout), n)) : m[1] = pane
<1> DEFINE root == strip_pane_ids(layout)
           full == Filled(root, n)
<1>1. IsLayout(root) /\ Leaves(root) = Leaves(layout)
  BY StripIsLayout
<1> HIDE DEF root
<1>2. IsLayout(full) /\ Leaves(full) = Leaves(layout)
  BY <1>1, FilledIsLayout
<1> HIDE DEF full
<1>3. DOMAIN leaves(full) = DOMAIN leaves(layout)
  BY <1>2, LeavesAreListed
<1>4. PICK p \in Leaves(layout) : layout[p].pane_id = pane
  BY DEF PaneIds
<1>5. PICK k \in DOMAIN leaves(layout) : leaves(layout)[k] = p
  BY LeavesAreListed
<1>6. leaf_pane_ids(layout)[k] = pane
  BY <1>4, <1>5 DEF leaf_pane_ids
<1> DEFINE m == <<leaf_pane_ids(layout)[k], leaf_pane_ids(full)[k]>>
<1>7. m \in map_pane_ids(layout, full) /\ m[1] = pane
  BY <1>3, <1>5, <1>6 DEF map_pane_ids
<1>8. QED
  BY <1>7 DEF full, root


LEMMA AppendHas ==
  ASSUME NEW s, IsSeq(s), NEW e
  PROVE  Range(s) \subseteq Range(Append(s, e))
<1> DEFINE S == Range(s) \cup {e}
           t == Append(s, e)
<1>1. s \in Seq(S) /\ e \in S
  BY SeqWithRange DEF IsSeq
<1> HIDE DEF S
<1>2. /\ t \in Seq(S) /\ Len(t) = Len(s) + 1 /\ Len(s) \in Nat
      /\ \A k \in 1 .. Len(s) : t[k] = s[k]
      /\ DOMAIN s = 1 .. Len(s)
  BY <1>1, AppendProperties
<1>3. DOMAIN t = 1 .. Len(t)
  BY <1>2
<1> HIDE DEF t
<1>4. ASSUME NEW c \in Range(s) PROVE c \in Range(t)
  <2>1. PICK k \in 1 .. Len(s) : c = s[k]
    BY <1>2 DEF Range
  <2>2. k \in DOMAIN t /\ t[k] = c
    BY <1>2, <1>3, <2>1
  <2>3. QED
    BY <2>2 DEF Range
<1>5. QED
  BY <1>4 DEF t

LEMMA FollowHas ==
  ASSUME NEW c, NEW root
  PROVE  finish_tab(c.tab, root) \in Range(Follow(c, root))
<1> DEFINE fill  == finish_tab(c.tab, root)
           name  == [call |-> "tab.rename", tab |-> next, label |-> c.tab.label]
           place == [call |-> "tab.move", tab |-> next,
                     index |-> insert_index(c.tab.index, c.live_count)]
           focus == [call |-> "tab.focus", tab |-> next]
           a == IF c.placeholder # None /\ effective_tab_label(c.tab.label) # None
                THEN <<name>> ELSE << >>
           b == IF FocusOnReopen THEN <<focus>> ELSE << >>
           two == <<place, fill>>
<1>1. Follow(c, root) = IF c.live_count = None THEN a \o <<fill>> ELSE two \o b
  BY DEF Follow
<1> HIDE DEF fill, name, place, focus
<1>2. IsSeq(a) /\ IsSeq(b) /\ IsSeq(<<fill>>) /\ Range(<<fill>>) = {fill}
  BY OneIsSeq, EmptyIsSeq
<1>3. IsSeq(two) /\ fill \in Range(two)
  <2>1. two \in Seq({place, fill}) /\ 2 \in DOMAIN two /\ two[2] = fill
    OBVIOUS
  <2>2. IsSeq(two)
    BY <2>1, SeqWithRange
  <2> HIDE DEF two
  <2>3. QED
    BY <2>1, <2>2 DEF Range
<1> HIDE DEF a, b, two
<1>4. fill \in Range(a \o <<fill>>)
  BY <1>2, ConcatHas
<1>5. fill \in Range(two \o b)
  BY <1>2, <1>3, ConcatHas
<1>6. QED
  BY <1>1, <1>4, <1>5 DEF fill

\* A request that was not answered is reported as failed.
LEMMA MadeReport ==
  ASSUME ReopenInv, NEW outcome, NEW after, NEW ids, NEW gone,
         NEW kind, kind \in {"workspaces", "tabs", "panes"}, NEW head,
         Make(outcome, after, ids, gone, kind, head)
  PROVE  /\ outcome = "answered" => report'.failed = report.failed
         /\ outcome # "answered" => report'.failed
<1>1. report = [workspaces |-> report.workspaces, tabs |-> report.tabs,
                panes |-> report.panes, failed |-> report.failed]
  BY DEF ReopenInv, ReportInv
<1>2. CASE outcome = "answered"
  <2>1. report' = [report EXCEPT ![kind] = @ \cup {head}]
    BY <1>2 DEF Make
  <2>2. QED
    BY <1>1, <1>2, <2>1
<1>3. CASE outcome # "answered"
  <2>1. report' = [report EXCEPT !.failed = TRUE]
    BY <1>3 DEF Make, Fail
  <2>2. QED
    BY <1>1, <1>3, <2>1
<1>4. QED
  BY <1>2, <1>3

(***************************************************************************)
(* The promise, step by step.                                              *)
(***************************************************************************)
LEMMA BeforePromising ==
  ASSUME PromiseInv, Pop \/ FetchWorkspaces \/ FetchTabs \/ Kill
  PROVE  PromiseInv'
<1>1. UNCHANGED entry /\ pc' \in {"workspaces", "tabs", "panes", "dead"}
  BY DEF Pop, FetchWorkspaces, FetchTabs, Kill
<1>2. Remembered'
  BY <1>1 DEF PromiseInv, Remembered
<1>3. pc' # "calling" /\ pc' # "over"
  BY <1>1
<1>4. QED
  BY <1>2, <1>3 DEF PromiseInv, NothingSilentlyMissing

LEMMA PlanPromises ==
  ASSUME ReopenInv, PromiseInv, FetchPanes
  PROVE  PromiseInv'
<1>1. /\ UNCHANGED <<entry, occupied>> /\ pc' = "calling"
      /\ IF Plans(live') = {} THEN report' = [report EXCEPT !.failed = TRUE]
                              ELSE calls' \in Plans(live')
  BY DEF FetchPanes, Fail
<1>2. Remembered' /\ Remembered /\ EntryInv
  BY <1>1 DEF PromiseInv, Remembered, ReopenInv, CallsInv
<1>3. NothingSilentlyMissing'
  BY <1>1 DEF NothingSilentlyMissing
<1>4. ASSUME ~report'.failed, NEW ws \in entry.workspaces, NEW tab \in Range(ws.tabs),
             NEW pane \in tab.panes
      PROVE  TakenForOpen(tab)' \/ Promised(tab, pane, calls)'
  <2>1. calls' \in Plans(live')
    <3>1. report = [workspaces |-> report.workspaces, tabs |-> report.tabs,
                    panes |-> report.panes, failed |-> report.failed]
      BY DEF ReopenInv, ReportInv
    <3>2. [report EXCEPT !.failed = TRUE].failed = TRUE
      BY <3>1
    <3>3. QED
      BY <1>1, <1>4, <3>2
  <2>2. Promised(tab, pane, calls') \/ (entry.granularity # "pane" /\ TabAlive(tab, live'))
    BY <1>2, <2>1, PlansPromise
  <2>3. CASE entry.granularity # "pane" /\ TabAlive(tab, live')
    <3>1. \E t \in live'.tabs :
            /\ t.id = tab.tab_id
            /\ \/ t.label = tab.label
               \/ \E p \in live'.panes : p.tab = t.id /\ p.cwd \in leaf_cwds(tab.layout)
      BY <2>3, AliveIsTaken
    <3>2. QED
      BY <1>1, <2>3, <3>1 DEF TakenForOpen
  <2>4. CASE Promised(tab, pane, calls')
    BY <1>1, <2>4 DEF Promised, Promises
  <2>5. QED
    BY <2>2, <2>3, <2>4
<1>5. ~report'.failed => OnItsWay'
  BY <1>1, <1>4 DEF OnItsWay
<1>6. QED
  BY <1>2, <1>3, <1>5 DEF PromiseInv

LEMMA WorkspaceKeepsPromise ==
  ASSUME ReopenInv, PromiseInv, RestoreWorkspace
  PROVE  PromiseInv'
<1>1. Due("restore_workspace") /\ UNCHANGED <<entry, pc, live, occupied, report>>
  BY DEF RestoreWorkspace, reply
<1>2. PICK first \in Head(calls).left :
        calls' = restore_workspace(first, live) \o RestoreEach(Head(calls).left \ {first})
                   \o Tail(calls)
  BY DEF RestoreWorkspace, Then
<1>3. /\ pc = "calling" /\ calls # << >> /\ IsCall(Head(calls), recorded)
      /\ Head(calls).call = "restore_workspace"
  BY <1>1, FirstCall DEF ReopenInv
<1>4. \A v \in Head(calls).left : IsWorkspaceSnap(v)
  BY <1>3 DEF IsCall, IsPlanned
<1> DEFINE rest == Head(calls).left \ {first}
           one  == restore_workspace(first, live)
           each == RestoreEach(rest)
           more == one \o each
<1>5. IsSeq(one) /\ IsSeq(each)
  BY <1>4, WorkspacePlan, EachPlan DEF IsPlan
<1>6. ASSUME NEW ws \in entry.workspaces, NEW tab \in Range(ws.tabs), NEW pane \in tab.panes,
             Promises(Head(calls), tab, pane)
      PROVE  TakenForOpen(tab) \/ Promised(tab, pane, one) \/ Promised(tab, pane, each)
  <2>1. entry.granularity # "pane" /\ \E v \in Head(calls).left : tab \in Range(v.tabs)
    BY <1>3, <1>6 DEF Promises
  <2>2. PICK v \in Head(calls).left : tab \in Range(v.tabs)
    BY <2>1
  <2>3. CASE v = first
    <3>1. Holds(tab, pane)
      BY DEF PromiseInv, Remembered
    <3>2. TabAlive(tab, live) \/ Promised(tab, pane, one)
      BY <1>4, <2>2, <2>3, <3>1, WorkspacePromises
    <3>3. TabAlive(tab, live) => TakenForOpen(tab)
      BY <2>1, AliveIsTaken DEF TakenForOpen
    <3>4. QED
      BY <3>2, <3>3
  <2>4. CASE v # first
    <3>1. v \in rest
      BY <2>4
    <3> HIDE DEF rest
    <3>2. Promised(tab, pane, each)
      BY <2>1, <2>2, <3>1, EachPromises
    <3>3. QED
      BY <3>2
  <2>5. QED
    BY <2>3, <2>4
<1>7. calls' = more \o Tail(calls)
  BY <1>2
<1> HIDE DEF one, each
<1>8. /\ IsSeq(more) /\ Range(one) \subseteq Range(more) /\ Range(each) \subseteq Range(more)
  BY <1>5, ConcatIsSeq, ConcatHas
<1> HIDE DEF more
<1>9. \A ws \in entry.workspaces : \A tab \in Range(ws.tabs) : \A pane \in tab.panes :
        Promises(Head(calls), tab, pane) => TakenForOpen(tab) \/ Promised(tab, pane, more)
  BY <1>6, <1>8 DEF Promised
<1>10. pc' # "over"
  BY <1>1, <1>3
<1>11. QED
  BY <1>1, <1>3, <1>7, <1>8, <1>9, <1>10, PromiseStep


LEMMA CreateKeepsPromise ==
  ASSUME ReopenInv, PromiseInv, CreateWorkspace
  PROVE  PromiseInv'
<1>1. Due("workspace.create") /\ UNCHANGED <<entry, pc, live, occupied>>
  BY DEF CreateWorkspace
<1>2. /\ pc = "calling" /\ calls # << >> /\ IsCall(Head(calls), recorded)
      /\ Head(calls).call = "workspace.create"
  BY <1>1, FirstCall DEF ReopenInv
<1> DEFINE ws  == Head(calls).ws
           add(j) == Apply(next, IF j = 1 THEN next + 1 ELSE None,
                           IF j = 1 THEN None ELSE effective_tab_label(ws.tabs[j].label),
                           ws.tabs[j])
           tabs == [j \in DOMAIN ws.tabs |-> add(j)]
           last == [call |-> "arrange", ws |-> ws]
           tab  == Tab(next + 1, None, next + 2, Leaf(next + 2, ws.cwd))
           after == WithWorkspace(herdr, next, effective_ws_label(ws.label, ws.cwd), ws.cwd, tab)
           ids  == next .. next + 2
<1>3. PICK outcome \in {"answered", "refused", "lost"} :
        /\ Make(outcome, after, ids, {}, "workspaces", next)
        /\ Then(IF outcome = "answered" THEN Append(tabs, last) ELSE << >>)
  BY DEF CreateWorkspace
<1>4. IsWorkspaceSnap(ws)
  BY <1>2 DEF IsCall, IsPlanned
<1> HIDE DEF after, ids, last
<1>5. /\ outcome = "answered" => report'.failed = report.failed
      /\ outcome # "answered" => report'.failed
  BY <1>3, MadeReport
<1> DEFINE more == IF outcome = "answered" THEN Append(tabs, last) ELSE << >>
<1>6. calls' = more \o Tail(calls)
  BY <1>3 DEF Then
<1>7. IsSeq(tabs)
  BY <1>4, MapIsSeq DEF IsWorkspaceSnap
<1>8. ASSUME outcome = "answered", NEW any, NEW pane, Promises(Head(calls), any, pane)
      PROVE  Promised(any, pane, more)
  <2>1. PICK j \in DOMAIN ws.tabs : Holds(ws.tabs[j], pane)
    BY <1>2, <1>8 DEF Promises, Range
  <2>2. add(j).call = "layout.apply" /\ add(j).tab = ws.tabs[j]
    BY DEF Apply
  <2>3. tabs[j] = add(j) /\ j \in DOMAIN tabs
    BY <2>1
  <2> HIDE DEF add
  <2>4. add(j) \in Range(tabs)
    BY <2>3 DEF Range
  <2> HIDE DEF tabs
  <2>5. add(j) \in Range(more)
    BY <1>7, <1>8, <2>4, AppendHas
  <2> HIDE DEF more
  <2>6. QED
    BY <2>1, <2>2, <2>5 DEF Promised, Promises
<1>9. IsSeq(more)
  <2> HIDE DEF tabs
  <2>1. QED
    BY <1>7, AppendIsSeq, EmptyIsSeq
<1> HIDE DEF more
<1>10. pc' # "over"
  BY <1>1, <1>2
<1>11. QED
  BY <1>1, <1>2, <1>5, <1>6, <1>8, <1>9, <1>10, PromiseStep

LEMMA LayoutKeepsPromise ==
  ASSUME ReopenInv, PromiseInv, ApplyLayout
  PROVE  PromiseInv'
<1>1. Due("layout.apply") /\ UNCHANGED <<entry, pc, live, occupied>>
  BY DEF ApplyLayout
<1>2. /\ pc = "calling" /\ calls # << >> /\ IsCall(Head(calls), recorded)
      /\ Head(calls).call = "layout.apply"
  BY <1>1, FirstCall DEF ReopenInv
<1> DEFINE c    == Head(calls)
           root == strip_pane_ids(c.tab.layout)
           full == Filled(root, next + 1)
           fill == finish_tab(c.tab, full)
<1>3. PICK outcome, after, ids, gone :
        /\ Make(outcome, after, ids, gone, "tabs", next)
        /\ Then(IF outcome = "answered" THEN Follow(c, full) ELSE << >>)
  BY DEF ApplyLayout
<1>4. /\ outcome = "answered" => report'.failed = report.failed
      /\ outcome # "answered" => report'.failed
  BY <1>3, MadeReport
<1>5. next \in Nat /\ IsLayout(c.tab.layout)
  BY <1>2, HerdrIs DEF ReopenInv, HerdrInv, IsCall, IsPlanned, IsTabSnap, HasPanes
<1> DEFINE more == IF outcome = "answered" THEN Follow(c, full) ELSE << >>
<1>6. calls' = more \o Tail(calls)
  BY <1>3 DEF Then
<1>7. ASSUME outcome = "answered", NEW any, NEW pane, Promises(c, any, pane)
      PROVE  Promised(any, pane, more)
  <2>1. pane \in c.tab.panes /\ pane \in PaneIds(c.tab.layout)
    BY <1>2, <1>7 DEF Promises, Holds
  <2>2. PICK m \in map_pane_ids(c.tab.layout, full) : m[1] = pane
    <3>1. next + 1 \in Nat
      BY <1>5
    <3>2. QED
      BY <1>5, <2>1, <3>1, PanesMatched
  <2>3. fill.call = "restore_occupant" /\ m \in fill.pairs
    BY <2>1, <2>2 DEF finish_tab
  <2>4. fill \in Range(more)
    BY <1>7, FollowHas
  <2> HIDE DEF fill, more
  <2>5. QED
    BY <2>2, <2>3, <2>4 DEF Promised, Promises
<1>8. IsSeq(more)
  <2>1. PaneIds(full) \subseteq {0} \cup PaneIds(full) /\ {0} \cup PaneIds(full) # {}
    OBVIOUS
  <2>2. IsSeq(Follow(c, full))
    BY <2>1, FollowUp
  <2>3. QED
    BY <2>2, EmptyIsSeq
<1>9. pc' # "over"
  BY <1>1, <1>2
<1> HIDE DEF more, full, root
<1>10. QED
  BY <1>1, <1>2, <1>4, <1>6, <1>7, <1>8, <1>9, PromiseStep

LEMMA SplitKeepsPromise ==
  ASSUME ReopenInv, PromiseInv, SplitPane
  PROVE  PromiseInv'
<1>1. Due("pane.split") /\ UNCHANGED <<entry, pc, live, occupied>>
  BY DEF SplitPane
<1>2. pc = "calling" /\ calls # << >> /\ Head(calls).call = "pane.split"
  BY <1>1, FirstCall DEF ReopenInv
<1> DEFINE c     == Head(calls)
           swap  == [call |-> "pane.swap", source |-> next, target |-> c.target]
           pair  == <<c.pane, next>>
           fill  == [call |-> "restore_occupant", panes |-> {next},
                     pairs |-> {pair}, focus |-> next]
           swaps == IF c.swap THEN <<swap>> ELSE << >>
           done  == swaps \o <<fill>>
<1>3. PICK outcome, after, ids :
        /\ Make(outcome, after, ids, {}, "panes", next)
        /\ calls' = (IF outcome # "answered" THEN << >> ELSE done) \o Tail(calls)
  BY DEF SplitPane, Then
<1>4. /\ outcome = "answered" => report'.failed = report.failed
      /\ outcome # "answered" => report'.failed
  BY <1>3, MadeReport
<1>5. fill.call = "restore_occupant" /\ pair \in fill.pairs /\ pair[1] = c.pane
  OBVIOUS
<1> HIDE DEF fill, swap
<1>6. IsSeq(swaps) /\ IsSeq(<<fill>>) /\ Range(<<fill>>) = {fill}
  BY OneIsSeq, EmptyIsSeq
<1> HIDE DEF swaps
<1>7. IsSeq(done) /\ fill \in Range(done)
  BY <1>6, ConcatIsSeq, ConcatHas
<1> HIDE DEF done, pair
<1> DEFINE more == IF outcome # "answered" THEN << >> ELSE done
<1>8. calls' = more \o Tail(calls) /\ IsSeq(more)
  BY <1>3, <1>7, EmptyIsSeq
<1>9. ASSUME outcome = "answered", NEW any, NEW pane, Promises(c, any, pane)
      PROVE  Promised(any, pane, more)
  <2>1. c.pane = pane
    BY <1>2, <1>9 DEF Promises
  <2>2. Promises(fill, any, pane)
    BY <1>5, <2>1 DEF Promises
  <2>3. QED
    BY <1>7, <1>9, <2>2 DEF Promised
<1>10. pc' # "over"
  BY <1>1, <1>2
<1> HIDE DEF more
<1>11. QED
  BY <1>1, <1>2, <1>4, <1>8, <1>9, <1>10, PromiseStep

LEMMA OccupantsKeepPromise ==
  ASSUME ReopenInv, PromiseInv, RestoreOccupants
  PROVE  PromiseInv'
<1>1. /\ Due("restore_occupant") /\ UNCHANGED <<entry, pc, live>>
      /\ occupied' = occupied \cup Head(calls).pairs
  BY DEF RestoreOccupants
<1>2. pc = "calling" /\ calls # << >> /\ Head(calls).call = "restore_occupant"
  BY <1>1, FirstCall DEF ReopenInv
<1> DEFINE c     == Head(calls)
           focus == [call |-> "pane.focus", pane |-> c.focus]
           more  == IF FocusOnReopen /\ c.focus # None THEN <<focus>> ELSE << >>
<1>3. PICK failed \in BOOLEAN :
        report' = [report EXCEPT !.panes = @ \cup c.panes, !.failed = @ \/ failed]
  BY DEF RestoreOccupants
<1>4. ~report'.failed => ~report.failed
  <2>1. report = [workspaces |-> report.workspaces, tabs |-> report.tabs,
                  panes |-> report.panes, failed |-> report.failed]
    BY DEF ReopenInv, ReportInv
  <2>2. report'.failed = (report.failed \/ failed)
    BY <1>3, <2>1
  <2>3. QED
    BY <2>2
<1>5. calls' = more \o Tail(calls)
  BY DEF RestoreOccupants, Then
<1>6. IsSeq(more)
  BY OneIsSeq, EmptyIsSeq
<1> HIDE DEF more
<1>7. \A any, pane : Promises(c, any, pane) => IsBack(pane)'
  BY <1>1, <1>2 DEF Promises, IsBack
<1>8. pc' # "over"
  BY <1>1, <1>2
<1>9. QED
  BY <1>1, <1>2, <1>4, <1>5, <1>6, <1>7, <1>8, PromiseStep

LEMMA ArrangeKeepsPromise ==
  ASSUME ReopenInv, PromiseInv, Arrange
  PROVE  PromiseInv'
<1>1. /\ Due("arrange") /\ UNCHANGED <<entry, pc, live, occupied, report>>
  BY DEF Arrange, reply
<1>2. pc = "calling" /\ calls # << >> /\ Head(calls).call = "arrange"
  BY <1>1, FirstCall DEF ReopenInv
<1>3. PICK more : IsSeq(more) /\ calls' = more \o Tail(calls)
  BY ArrangeFollows
<1>4. \A any, pane : ~Promises(Head(calls), any, pane)
  BY <1>2 DEF Promises
<1>5. pc' # "over"
  BY <1>1, <1>2
<1>6. QED
  BY <1>1, <1>2, <1>3, <1>4, <1>5, PromiseStep

LEMMA TriesKeepPromise ==
  ASSUME ReopenInv, PromiseInv, RenameTab \/ MoveTab \/ FocusTab \/ FocusPane \/ SwapPanes
  PROVE  PromiseInv'
<1> DEFINE names == {"tab.rename", "tab.move", "tab.focus", "pane.focus", "pane.swap"}
           more  == << >>
<1>1. PICK name \in names : \E after : Try(name, after)
  BY DEF RenameTab, MoveTab, FocusTab, FocusPane, SwapPanes
<1>2. /\ Due(name) /\ calls' = more \o Tail(calls)
      /\ UNCHANGED <<entry, pc, live, occupied, report>>
  BY <1>1 DEF Try, Then, reply
<1>3. pc = "calling" /\ calls # << >> /\ Head(calls).call \in names
  BY <1>1, <1>2, FirstCall DEF ReopenInv
<1>4. \A any, pane : ~Promises(Head(calls), any, pane)
  BY <1>3 DEF Promises
<1>5. pc' # "over" /\ IsSeq(more)
  BY <1>2, <1>3, EmptyIsSeq
<1> HIDE DEF more
<1>6. QED
  BY <1>2, <1>3, <1>4, <1>5, PromiseStep

LEMMA EndKeepsPromise ==
  ASSUME PromiseInv, End
  PROVE  PromiseInv'
<1>1. /\ pc = "calling" /\ calls = << >> /\ pc' = "over"
      /\ UNCHANGED <<entry, live, occupied, report>>
  BY DEF End, reply
<1>2. Remembered'
  BY <1>1 DEF PromiseInv, Remembered
<1>3. ASSUME ~report.failed, NEW ws \in entry.workspaces, NEW tab \in Range(ws.tabs),
             NEW pane \in tab.panes
      PROVE  IsBack(pane) \/ TakenForOpen(tab)
  <2>1. IsBack(pane) \/ TakenForOpen(tab) \/ Promised(tab, pane, calls)
    BY <1>1, <1>3 DEF PromiseInv, OnItsWay
  <2>2. ~Promised(tab, pane, calls)
    BY <1>1, EmptyIsSeq DEF Promised
  <2>3. QED
    BY <2>1, <2>2
<1>4. NothingSilentlyMissing'
  <2>1. \A tab : TakenForOpen(tab) => TakenForOpen(tab)'
    BY <1>1 DEF TakenForOpen
  <2>2. QED
    BY <1>1, <1>3, <2>1 DEF NothingSilentlyMissing, IsBack
<1>5. QED
  BY <1>1, <1>2, <1>4 DEF PromiseInv

LEMMA OthersKeepPromise ==
  ASSUME PromiseInv, UserCloses \/ UserOpens \/ UserSplits \/ UNCHANGED vars
  PROVE  PromiseInv'
<1>1. UNCHANGED <<entry, pc, live, calls, occupied, report>>
  BY DEF UserCloses, UserOpens, UserSplits, Meanwhile, vars, reply
<1>2. Remembered' /\ (NothingSilentlyMissing => NothingSilentlyMissing')
  <2>1. \A tab : TakenForOpen(tab) => TakenForOpen(tab)'
    BY <1>1 DEF TakenForOpen
  <2>2. QED
    BY <1>1, <2>1 DEF PromiseInv, Remembered, NothingSilentlyMissing
<1>3. OnItsWay => OnItsWay'
  <2>1. /\ \A tab : TakenForOpen(tab) => TakenForOpen(tab)'
        /\ \A tab, pane : Promised(tab, pane, calls) => Promised(tab, pane, calls)'
        /\ \A pane : IsBack(pane) => IsBack(pane)'
    BY <1>1 DEF TakenForOpen, Promised, Promises, IsBack
  <2>2. QED
    BY <1>1, <2>1 DEF OnItsWay
<1>4. QED
  BY <1>1, <1>2, <1>3 DEF PromiseInv

\* A reopen that reports no failure has brought back every pane of its entry, for any
\* session, whatever the user closes and opens meanwhile; the one exception is a whole
\* tab that a listed one of its id and label, or id and directory, stood in for
\* (restore.rs run, restore_workspace, finish_tab; same_container).
THEOREM NothingIsSilentlyMissing == Spec => []NothingSilentlyMissing
<1>1. Init => PromiseInv
  <2> SUFFICES ASSUME Init PROVE PromiseInv
    OBVIOUS
  <2>1. Remembered /\ pc = "idle"
    BY InitRemembered DEF Init
  <2>2. QED
    BY <2>1 DEF PromiseInv, NothingSilentlyMissing
<1>2. ASSUME ReopenInv, PromiseInv, [Next]_vars PROVE PromiseInv'
  <2>1. CASE Pop \/ FetchWorkspaces \/ FetchTabs \/ Kill
    BY <1>2, <2>1, BeforePromising
  <2>2. CASE FetchPanes
    BY <1>2, <2>2, PlanPromises
  <2>3. CASE RestoreWorkspace
    BY <1>2, <2>3, WorkspaceKeepsPromise
  <2>4. CASE CreateWorkspace
    BY <1>2, <2>4, CreateKeepsPromise
  <2>5. CASE ApplyLayout
    BY <1>2, <2>5, LayoutKeepsPromise
  <2>6. CASE SplitPane
    BY <1>2, <2>6, SplitKeepsPromise
  <2>7. CASE RestoreOccupants
    BY <1>2, <2>7, OccupantsKeepPromise
  <2>8. CASE Arrange
    BY <1>2, <2>8, ArrangeKeepsPromise
  <2>9. CASE RenameTab \/ MoveTab \/ FocusTab \/ FocusPane \/ SwapPanes
    BY <1>2, <2>9, TriesKeepPromise
  <2>10. CASE End
    BY <1>2, <2>10, EndKeepsPromise
  <2>11. CASE UserCloses \/ UserOpens \/ UserSplits \/ UNCHANGED vars
    BY <1>2, <2>11, OthersKeepPromise
  <2>12. QED
    BY <1>2, <2>1, <2>2, <2>3, <2>4, <2>5, <2>6, <2>7, <2>8, <2>9, <2>10, <2>11
       DEF Next, ReopenStep
<1>3. PromiseInv => NothingSilentlyMissing
  BY DEF PromiseInv
<1>4. QED
  BY <1>1, <1>2, <1>3, ReopenInvariant, PTL DEF Spec

==============================================================================
