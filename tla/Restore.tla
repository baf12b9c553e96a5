------------------------------- MODULE Restore -------------------------------
(***************************************************************************)
(* `reopen`: main.rs cmd_reopen takes one entry off the undo stack and     *)
(* src/restore.rs turns it into calls to herdr.  What to call is decided   *)
(* once, from three lists read before the first call; by the time a call   *)
(* is made the user may have closed what it names, or opened a container   *)
(* to which herdr gave a closed one's id.                                  *)
(*                                                                         *)
(* The session is a sequence of workspaces [id, label, cwd, active, tabs], *)
(* a tab is [id, label, focused, layout].  Ids are numbers, and herdr      *)
(* numbers what it makes from FirstNew on.  A directory is written as its  *)
(* last component.  The undo stack is the one entry: Store and Capture     *)
(* have the rest of it, AgentStart what happens inside a rebuilt pane.     *)
(***************************************************************************)
EXTENDS LayoutTree, Ordered, SequencesExt

CONSTANTS
  Session,        \* what is open before the close that the entry records
  AutoLabels,     \* the labels herdr numbers tabs with, in order
  FirstNew,       \* ids below it are those of Session
  FocusOnReopen,  \* the configuration's focus_on_reopen
  Labels, Cwds,   \* labels and directories of what the user opens meanwhile
  MaxDisturbances \* bound: faults and what the user does after the close, together

ASSUME FaultAssumption == MaxDisturbances \in Nat
ASSUME IdAssumption == FirstNew \in Nat /\ None \notin Nat
ASSUME FocusAssumption == FocusOnReopen \in BOOLEAN

Old == 0 .. FirstNew - 1

Tab(id, label, focused, layout) ==
  [id |-> id, label |-> label, focused |-> focused, layout |-> layout]

Workspace(id, label, cwd, active, tabs) ==
  [id |-> id, label |-> label, cwd |-> cwd, active |-> active, tabs |-> tabs]

IdsIn(seq) == {seq[i].id : i \in DOMAIN seq}
DistinctIds(seq) == \A i, j \in DOMAIN seq : seq[i].id = seq[j].id => i = j

ASSUME SessionAssumption ==
  /\ Session \in Seq(Range(Session)) /\ DistinctIds(Session)
  /\ \A w \in Range(Session) :
       /\ w = Workspace(w.id, w.label, w.cwd, w.active, w.tabs)
       /\ w.id \in Old /\ w.tabs \in Seq(Range(w.tabs)) /\ DistinctIds(w.tabs)
       /\ w.active \in IdsIn(w.tabs)
       /\ \A t \in Range(w.tabs) :
            /\ t = Tab(t.id, t.label, t.focused, t.layout)
            /\ t.id \in Old /\ PaneIds(t.layout) \subseteq Old /\ t.focused \in PaneIds(t.layout)
            /\ IsLayout(t.layout) /\ PanesApart(t.layout)

\* No id is open twice, a layout is a whole tree, and herdr has a number for every tab
\* and one to spare for the placeholder of a new workspace.
ASSUME ApartAssumption ==
  \A v, w \in Range(Session) : \A s \in Range(v.tabs), t \in Range(w.tabs) :
    s.id = t.id \/ PaneIds(s.layout) \cap PaneIds(t.layout) # {} => v = w /\ s = t
ASSUME TreeAssumption == \A w \in Range(Session) : \A t \in Range(w.tabs) : IsBinary(t.layout)
ASSUME LabelAssumption ==
  /\ AutoLabels \in Seq(Range(AutoLabels))
  /\ \A w \in Range(Session) : Len(w.tabs) < Len(AutoLabels)

VARIABLES
  herdr,      \* what is open
  next,       \* the id herdr gives next
  entry,      \* the closed entry: [granularity, workspaces]
  stacked,    \* the entry is on the undo stack
  pc,         \* what the reopen does next
  live,       \* restore.rs Live: the lists read so far
  calls,      \* the calls still to make
  created,    \* created_tabs of the workspace being rebuilt
  report,     \* [workspaces, tabs, panes, failed]
  recorded,   \* ids handed to record_self_created
  occupied,   \* history: <<remembered pane, pane it was restored in>>
  made,       \* history: ids herdr made for the restore
  replaced,   \* history: ids herdr destroyed for the restore
  given,      \* history: every <<workspace, tab, pane>> that was ever open
  theirs,     \* history: ids of the tabs and panes the user opened meanwhile
  faults, changes

reply == <<created, report, recorded, made, replaced, given, theirs, next>>
vars == <<herdr, entry, stacked, pc, live, calls, occupied, reply, faults, changes>>

(***************************************************************************)
(* Containers.                                                             *)
(***************************************************************************)
TabsIn(h) == UNION {Range(h[i].tabs) : i \in DOMAIN h}
PanesIn(h) == UNION {PaneIds(t.layout) : t \in TabsIn(h)}

Homes(h) ==
  UNION {UNION {{<<w.id, t.id, pane>> : pane \in PaneIds(t.layout)} : t \in Range(w.tabs)} :
         w \in Range(h)}

WorkspaceRows(h) == {[id |-> w.id, label |-> w.label] : w \in Range(h)}
TabRows(h) ==
  UNION {{[id |-> t.id, label |-> t.label, workspace |-> w.id] : t \in Range(w.tabs)} :
         w \in Range(h)}
PaneRows(h) ==
  UNION {UNION {{[id |-> t.layout[p].pane_id, cwd |-> t.layout[p].cwd,
                  tab |-> t.id, workspace |-> w.id] : p \in Leaves(t.layout)} :
                t \in Range(w.tabs)} : w \in Range(h)}

\* herdr recycles ids: a matching one is believed if label or a directory agrees.
same_container_by_id(label, cwds, live_label, live_cwds) == TRUE

same_container(label, cwds, live_label, live_cwds) ==
  label = live_label \/ cwds \cap live_cwds # {}

insert_index_last(index, count) == count

insert_index(index, count) == IF index <= count THEN index ELSE count

effective_tab_label(label) == IF label \in Range(AutoLabels) THEN None ELSE label
effective_ws_label(label, cwd) == IF label = cwd THEN None ELSE label

(***************************************************************************)
(* herdr.  Each operator is the session after one request; a request that  *)
(* names something gone changes nothing.                                   *)
(***************************************************************************)
EachTab(h, f) ==
  [i \in DOMAIN h |-> [h[i] EXCEPT !.tabs = [j \in DOMAIN @ |-> f[@[j]]]]]

\* herdr tidies up: a tab without panes and a workspace without tabs go, and
\* what was focused moves to the first that is left.
Tidy(h) ==
  LET Full(w)  == {j \in DOMAIN w.tabs : w.tabs[j].layout # << >>}
      Kept(w)  == [w EXCEPT !.tabs = Keep(@, Full(w))]
      Seen(w)  == IF w.active \in IdsIn(w.tabs) THEN w ELSE [w EXCEPT !.active = w.tabs[1].id]
      open     == Keep(h, {i \in DOMAIN h : Full(h[i]) # {}})
      seen     == [i \in DOMAIN open |-> Seen(Kept(open[i]))]
  IN  EachTab(seen, [t \in TabsIn(seen) |->
                       IF t.focused \in PaneIds(t.layout) THEN t
                       ELSE [t EXCEPT !.focused = leaf_pane_ids(t.layout)[1]]])

WithoutPane(h, pane) ==
  Tidy(EachTab(h, [t \in TabsIn(h) |->
    IF pane \notin PaneIds(t.layout) THEN t
    ELSE [t EXCEPT !.layout = IF PaneIds(@) = {pane} THEN << >> ELSE Closed(@, pane)]]))

WithoutTab(h, tab) ==
  Tidy(EachTab(h, [t \in TabsIn(h) |-> IF t.id = tab THEN [t EXCEPT !.layout = << >>] ELSE t]))

WithTab(h, ws, tab) ==
  [i \in DOMAIN h |->
     IF h[i].id # ws THEN h[i]
     ELSE [h[i] EXCEPT !.tabs = Append(@, [tab EXCEPT !.label =
             IF @ = None THEN AutoLabels[Len(h[i].tabs) + 1] ELSE @])]]

Leaf(pane, cwd) == [path \in {<< >>} |-> Pane(pane, cwd)]
WithWorkspace(h, id, label, cwd, tab) ==
  WithTab(Append(h, Workspace(id, IF label = None THEN cwd ELSE label, cwd, tab.id, << >>)),
          id, tab)

\* layout.apply: in place of a tab, or beside the tabs of a workspace.
Applied(h, ws, placeholder, label, root) ==
  WithoutTab(WithTab(h, ws, Tab(next, label, next + 1, Filled(root, next + 1))), placeholder)

Renamed(h, tab, label) ==
  EachTab(h, [t \in TabsIn(h) |-> IF t.id = tab THEN [t EXCEPT !.label = label] ELSE t])

Moved(h, tab, index) ==
  LET Place(tabs) ==
        LET rest == Keep(tabs, {j \in DOMAIN tabs : tabs[j].id # tab})
            at   == IF index \in 0 .. Len(rest) THEN index ELSE Len(rest)
        IN  InsertAt(rest, at + 1, tabs[CHOOSE j \in DOMAIN tabs : tabs[j].id = tab])
  IN  [i \in DOMAIN h |->
         IF tab \in IdsIn(h[i].tabs) THEN [h[i] EXCEPT !.tabs = Place(@)] ELSE h[i]]

TabFocused(h, tab) ==
  [i \in DOMAIN h |-> IF tab \in IdsIn(h[i].tabs) THEN [h[i] EXCEPT !.active = tab] ELSE h[i]]

PaneFocused(h, pane) ==
  EachTab(h, [t \in TabsIn(h) |->
    IF pane \in PaneIds(t.layout) THEN [t EXCEPT !.focused = pane] ELSE t])

PaneSplit(h, target, direction, ratio, pane) ==
  EachTab(h, [t \in TabsIn(h) |->
    IF target \in PaneIds(t.layout)
    THEN [t EXCEPT !.layout = SplitAt(@, target, direction, ratio, pane)] ELSE t])

PanesSwapped(h, a, b) ==
  EachTab(h, [t \in TabsIn(h) |->
    IF {a, b} \subseteq PaneIds(t.layout) THEN [t EXCEPT !.layout = Swapped(@, a, b)] ELSE t])

(***************************************************************************)
(* The entry: what the shadow had of the closed panes, as close.rs keeps   *)
(* it.  `panes` are those that the entry is to bring back.                 *)
(***************************************************************************)
TabSnap(w, j) ==
  [tab_id |-> w.tabs[j].id, label |-> w.tabs[j].label, index |-> j - 1,
   layout |-> w.tabs[j].layout, focused_pane_id |-> w.tabs[j].focused,
   panes |-> PaneIds(w.tabs[j].layout)]

WorkspaceSnap(i) ==
  LET w == Session[i]
  IN  [workspace_id |-> w.id, label |-> w.label, index |-> i - 1, cwd |-> w.cwd,
       active_tab_id |-> w.active, tabs |-> [j \in DOMAIN w.tabs |-> TabSnap(w, j)]]

ws_shell(ws, tab) == [ws EXCEPT !.tabs = <<tab>>]

\* What is left of a pane no snapshot knows: the context of its pane.exited.
Hydrated(ws, tab, pane) ==
  [ws_shell(ws, [tab EXCEPT !.label = None, !.index = 0, !.focused_pane_id = None, !.panes = {pane},
                            !.layout = Leaf(pane, @[PathOf(@, pane)].cwd)])
     EXCEPT !.index = 0, !.cwd = tab.layout[PathOf(tab.layout, pane)].cwd, !.active_tab_id = None]

Entry(granularity, workspaces) == [granularity |-> granularity, workspaces |-> workspaces]

\* The closes of one gesture, each reported at its coarsest: whole workspaces,
\* a tab beside others, a pane beside others.  The burst knows what it closed whole,
\* or, of a single pane, nothing: frozen copies that know part of it, and workspaces
\* hydrated without tabs, are left out.
WorkspacesClose ==
  \E S \in SUBSET DOMAIN Session \ {{}} :
    /\ entry = Entry(IF Cardinality(S) = 1 THEN "workspace" ELSE "workspace_group",
                     {WorkspaceSnap(i) : i \in S})
    /\ herdr = Keep(Session, DOMAIN Session \ S)

TabCloses ==
  \E i \in DOMAIN Session : \E tab \in Range(WorkspaceSnap(i).tabs) :
    /\ Len(Session[i].tabs) > 1
    /\ entry = Entry("tab", {ws_shell(WorkspaceSnap(i), tab)})
    /\ herdr = WithoutTab(Session, tab.tab_id)

PaneCloses ==
  \E i \in DOMAIN Session : \E tab \in Range(WorkspaceSnap(i).tabs) : \E pane \in tab.panes :
    /\ Cardinality(tab.panes) > 1
    /\ \/ entry = Entry("pane", {ws_shell(WorkspaceSnap(i), [tab EXCEPT !.panes = {pane}])})
       \/ entry = Entry("pane", {Hydrated(WorkspaceSnap(i), tab, pane)})
    /\ herdr = WithoutPane(Session, pane)

(***************************************************************************)
(* What to call, decided from the entry and the lists l alone.             *)
(***************************************************************************)
WorkspaceAlive(ws, cwds, l) ==
  \E w \in l.workspaces :
    /\ w.id = ws.workspace_id
    /\ same_container(ws.label, cwds, w.label,
                      {p.cwd : p \in {q \in l.panes : q.workspace = w.id}})

TabAlive(tab, l) ==
  \E t \in l.tabs :
    /\ t.id = tab.tab_id
    /\ same_container(tab.label, leaf_cwds(tab.layout), t.label,
                      {p.cwd : p \in {q \in l.panes : q.tab = t.id}})

Apply(into, placeholder, label, tab) ==
  [call |-> "layout.apply", into |-> into, placeholder |-> placeholder, label |-> label,
   tab |-> tab, live_count |-> None]

create_tab_from_layout_in_place(into, tab, l) ==
  [Apply(into, tab.tab_id, effective_tab_label(tab.label), tab) EXCEPT
     !.live_count = Cardinality({t \in l.tabs : t.workspace = into}) + 1]

\* `live_count` counts the tabs listed and the one that is being added.
create_tab_from_layout(into, tab, l) ==
  [Apply(into, None, effective_tab_label(tab.label), tab) EXCEPT
     !.live_count = Cardinality({t \in l.tabs : t.workspace = into}) + 1]

restore_workspace(ws, l) ==
  LET cwds    == UNION {leaf_cwds(ws.tabs[j].layout) : j \in DOMAIN ws.tabs} \cup {ws.cwd}
      missing == Keep(ws.tabs, {j \in DOMAIN ws.tabs : ~TabAlive(ws.tabs[j], l)})
  IN  IF WorkspaceAlive(ws, cwds, l)
      THEN [j \in DOMAIN missing |-> create_tab_from_layout(ws.workspace_id, missing[j], l)]
      ELSE <<[call |-> "workspace.create", ws |-> ws]>>

restore_tab_granularity(ws, l) ==
  LET tab == ws.tabs[1]
  IN  CASE ~WorkspaceAlive(ws, leaf_cwds(tab.layout), l) -> restore_workspace(ws, l)
        [] OTHER -> IF TabAlive(tab, l) THEN << >>
                    ELSE <<create_tab_from_layout(ws.workspace_id, tab, l)>>

\* The pane goes beside what is left of its sibling, else beside the tab's first pane.
split_beside(tab, pane, first_pane, live_panes) ==
  LET found    == locate(tab.layout, pane)
      place    == IF found = {}
                  THEN [direction |-> "right", ratio |-> 5, side |-> Second, sibling |-> << >>]
                  ELSE CHOOSE f \in found : TRUE
      siblings == leaf_pane_ids(place.sibling)
      there    == Keep(siblings, {k \in DOMAIN siblings : siblings[k] \in live_panes})
      anchor   == IF there = << >> THEN first_pane ELSE there[1]
      single   == siblings = <<anchor>>
  IN  [call |-> "pane.split", target |-> anchor, direction |-> place.direction,
       ratio |-> IF place.side = First /\ ~single THEN Complement(place.ratio) ELSE place.ratio,
       pane |-> pane, cwd |-> tab.layout[PathOf(tab.layout, pane)].cwd,
       swap |-> place.side = First /\ single]

\* None is possible when the tab is listed and its panes are not.
restore_pane_granularity(ws, l) ==
  LET tab        == ws.tabs[1]
      pane       == CHOOSE p \in tab.panes : TRUE
      alone      == [tab EXCEPT !.layout = Leaf(pane, @[PathOf(@, pane)].cwd)]
      live_panes == {p.id : p \in {q \in l.panes : q.tab = tab.tab_id}}
  IN  IF TabAlive(tab, l)
      THEN {<<split_beside(tab, pane, first_pane, live_panes)>> : first_pane \in live_panes}
      ELSE {restore_tab_granularity(ws_shell(ws, alone), l)}

RestoreEach(left) ==
  IF left = {} THEN << >> ELSE <<[call |-> "restore_workspace", left |-> left]>>

Plans(l) ==
  CASE entry.granularity = "pane" -> UNION {restore_pane_granularity(ws, l) : ws \in entry.workspaces}
    [] entry.granularity = "tab" -> {restore_tab_granularity(ws, l) : ws \in entry.workspaces}
    [] OTHER -> {RestoreEach(entry.workspaces)}

(***************************************************************************)
(* The reopen command.                                                     *)
(***************************************************************************)
Fault == faults + changes < MaxDisturbances /\ faults' = faults + 1
Fail == report' = [report EXCEPT !.failed = TRUE]
Due(call) == pc = "calling" /\ calls # << >> /\ Head(calls).call = call
Then(more) == calls' = more \o Tail(calls)

created_nothing_but_workspaces(r) == r.tabs = {} /\ r.panes = {}

created_nothing(r) == r.workspaces = {} /\ r.tabs = {} /\ r.panes = {}

Pop ==
  /\ pc = "idle" /\ stacked
  /\ stacked' = FALSE
  /\ pc' = "workspaces"
  /\ UNCHANGED <<herdr, entry, live, calls, occupied, reply, faults, changes>>

\* A list that cannot be read counts as empty.
Fetch(kind, rows) ==
  /\ pc = kind
  /\ \/ live' = [live EXCEPT ![kind] = rows] /\ UNCHANGED faults
     \/ live' = live /\ Fault

FetchWorkspaces ==
  /\ Fetch("workspaces", WorkspaceRows(herdr))
  /\ pc' = "tabs"
  /\ UNCHANGED <<herdr, entry, stacked, calls, occupied, reply, changes>>

FetchTabs ==
  /\ Fetch("tabs", TabRows(herdr))
  /\ pc' = "panes"
  /\ UNCHANGED <<herdr, entry, stacked, calls, occupied, reply, changes>>

FetchPanes ==
  /\ Fetch("panes", PaneRows(herdr))
  /\ pc' = "calling"
  /\ IF Plans(live') = {} THEN Fail /\ UNCHANGED calls
                          ELSE calls' \in Plans(live') /\ UNCHANGED report
  /\ UNCHANGED <<herdr, entry, stacked, occupied, next, created, recorded, made, replaced,
                 given, theirs, changes>>

\* What the code knows of a request that makes something: it was answered, it was
\* refused, or herdr did it and the answer was lost (rpc.rs, a transport timeout).
Outcome(possible, outcome) ==
  CASE ~possible -> outcome = "refused" /\ UNCHANGED faults
    [] outcome = "answered" -> UNCHANGED faults
    [] OTHER -> Fault

record_created_first(ids) == recorded' = recorded \cup {CHOOSE id \in ids : ids \subseteq id .. next'}

record_created(ids) == recorded' = recorded \cup ids

\* `ids` are what herdr makes, `gone` what it destroys, `kind` where the report puts `head`.
Make(outcome, after, ids, gone, kind, head) ==
  /\ IF outcome = "refused"
     THEN UNCHANGED <<herdr, next, made, replaced, given>>
     ELSE /\ herdr' = after
          /\ next' = next + Cardinality(ids)
          /\ made' = made \cup ids
          /\ replaced' = replaced \cup gone
          /\ given' = given \cup Homes(after)
  /\ IF outcome = "answered"
     THEN /\ record_created(ids)
          /\ report' = [report EXCEPT ![kind] = @ \cup {head}]
     ELSE UNCHANGED recorded /\ Fail
  /\ UNCHANGED theirs

\* The remembered workspaces by their index.
RestoreWorkspace ==
  /\ Due("restore_workspace")
  /\ LET left == Head(calls).left
     IN  \E ws \in left : /\ \A v \in left : ws.index <= v.index
                          /\ Then(restore_workspace(ws, live) \o RestoreEach(left \ {ws}))
  /\ UNCHANGED <<herdr, entry, stacked, pc, live, occupied, reply, faults, changes>>

CreateWorkspace ==
  /\ Due("workspace.create")
  /\ \E outcome \in {"answered", "refused", "lost"} :
       LET ws   == Head(calls).ws
           tabs == [j \in DOMAIN ws.tabs |->
                      Apply(next, IF j = 1 THEN next + 1 ELSE None,
                            IF j = 1 THEN None ELSE effective_tab_label(ws.tabs[j].label),
                            ws.tabs[j])]
       IN  /\ Outcome(TRUE, outcome)
           /\ Make(outcome,
                   WithWorkspace(herdr, next, effective_ws_label(ws.label, ws.cwd), ws.cwd,
                                 Tab(next + 1, None, next + 2, Leaf(next + 2, ws.cwd))),
                   next .. next + 2, {}, "workspaces", next)
           /\ Then(IF outcome = "answered"
                   THEN Append(tabs, [call |-> "arrange", ws |-> ws]) ELSE << >>)
  /\ created' = << >>
  /\ UNCHANGED <<entry, stacked, pc, live, occupied, changes>>

\* The pane that stands for an old one, if there is one.
NewId(mapping, old) ==
  IF \E m \in mapping : m[1] = old THEN (CHOOSE m \in mapping : m[1] = old)[2] ELSE None

finish_tab_remembered(tab, root) ==
  LET mapping == map_pane_ids(tab.layout, root)
  IN  [call |-> "restore_occupant", panes |-> tab.panes,
       pairs |-> {m \in mapping : m[1] \in tab.panes},
       focus |-> NewId(mapping, tab.focused_pane_id)]

\* finish_tab: the new panes, by position, and the remembered focus among them.
finish_tab(tab, root) ==
  LET mapping == map_pane_ids(tab.layout, root)
  IN  [call |-> "restore_occupant", panes |-> PaneIds(root),
       pairs |-> {m \in mapping : m[1] \in tab.panes},
       focus |-> NewId(mapping, tab.focused_pane_id)]

\* After the answer: the tab is named or put in its place, and its panes are filled.
Follow(c, root) ==
  IF c.live_count = None
  THEN (IF c.placeholder # None /\ effective_tab_label(c.tab.label) # None
        THEN <<[call |-> "tab.rename", tab |-> next, label |-> c.tab.label]>> ELSE << >>)
         \o <<finish_tab(c.tab, root)>>
  ELSE <<[call |-> "tab.move", tab |-> next, index |-> insert_index(c.tab.index, c.live_count)],
         finish_tab(c.tab, root)>>
         \o (IF FocusOnReopen THEN <<[call |-> "tab.focus", tab |-> next]>> ELSE << >>)

ApplyLayout ==
  /\ Due("layout.apply")
  /\ \E outcome \in {"answered", "refused", "lost"} :
       LET c     == Head(calls)
           root  == strip_pane_ids(c.tab.layout)
           tabs  == UNION {Range(w.tabs) : w \in {v \in Range(herdr) : v.id = c.into}}
           old   == {t \in tabs : t.id = c.placeholder}
       IN  /\ Outcome(tabs # {} /\ (c.placeholder = None \/ old # {}), outcome)
           /\ Make(outcome, Applied(herdr, c.into, c.placeholder, c.label, root),
                   next .. next + Cardinality(Leaves(root)),
                   UNION {{t.id} \cup PaneIds(t.layout) : t \in old}, "tabs", next)
           /\ created' = IF outcome = "answered" /\ c.live_count = None
                         THEN Append(created, next) ELSE created
           /\ Then(IF outcome = "answered" THEN Follow(c, Filled(root, next + 1)) ELSE << >>)
  /\ UNCHANGED <<entry, stacked, pc, live, occupied, changes>>

SplitPane ==
  /\ Due("pane.split")
  /\ \E outcome \in {"answered", "refused", "lost"} :
       LET c == Head(calls)
       IN  /\ Outcome(c.target \in PanesIn(herdr), outcome)
           /\ Make(outcome,
                   PaneSplit(herdr, c.target, c.direction, c.ratio, Pane(next, c.cwd)),
                   {next}, {}, "panes", next)
           /\ Then(IF outcome # "answered" THEN << >>
                   ELSE (IF c.swap THEN <<[call |-> "pane.swap", source |-> next,
                                           target |-> c.target]>> ELSE << >>)
                          \o <<[call |-> "restore_occupant", panes |-> {next},
                                pairs |-> {<<c.pane, next>>}, focus |-> next]>>)
  /\ UNCHANGED <<entry, stacked, pc, live, created, occupied, changes>>

\* The agents and commands of the remembered panes; one of them may fail to start.
RestoreOccupants ==
  /\ Due("restore_occupant")
  /\ LET c == Head(calls)
     IN  /\ occupied' = occupied \cup c.pairs
         /\ \E failed \in BOOLEAN :
              /\ IF failed THEN Fault ELSE UNCHANGED faults
              /\ report' = [report EXCEPT !.panes = @ \cup c.panes, !.failed = @ \/ failed]
         /\ Then(IF FocusOnReopen /\ c.focus # None
                 THEN <<[call |-> "pane.focus", pane |-> c.focus]>> ELSE << >>)
  /\ UNCHANGED <<herdr, next, entry, stacked, pc, live, created, recorded, made, replaced,
                 given, theirs, changes>>

\* The ascending pass over the rebuilt tabs, then the remembered active one by its
\* position among them.
Arrange ==
  /\ Due("arrange")
  /\ LET ws     == Head(calls).ws
         moves  == [j \in DOMAIN created |->
                      [call |-> "tab.move", tab |-> created[j], index |-> j - 1]]
         active == {j \in DOMAIN ws.tabs : ws.tabs[j].tab_id = ws.active_tab_id}
         focus  == {[call |-> "tab.focus", tab |-> created[j]] : j \in active \cap DOMAIN created}
     IN  Then(moves \o (IF FocusOnReopen THEN SetToSeq(focus) ELSE << >>))
  /\ UNCHANGED <<herdr, entry, stacked, pc, live, occupied, reply, faults, changes>>

\* A request whose answer is not looked at.
Try(call, after) ==
  /\ Due(call)
  /\ \/ herdr' = after /\ UNCHANGED faults
     \/ herdr' = herdr /\ Fault
  /\ Then(<< >>)
  /\ UNCHANGED <<entry, stacked, pc, live, occupied, reply, changes>>

RenameTab == Try("tab.rename", Renamed(herdr, Head(calls).tab, Head(calls).label))
MoveTab   == Try("tab.move", Moved(herdr, Head(calls).tab, Head(calls).index))
FocusTab  == Try("tab.focus", TabFocused(herdr, Head(calls).tab))
FocusPane == Try("pane.focus", PaneFocused(herdr, Head(calls).pane))
SwapPanes == Try("pane.swap", PanesSwapped(herdr, Head(calls).source, Head(calls).target))

\* A restore that made nothing it knows of gives the entry back.
End ==
  /\ pc = "calling" /\ calls = << >>
  /\ stacked' = created_nothing(report)
  /\ pc' = "over"
  /\ UNCHANGED <<herdr, entry, live, calls, occupied, reply, faults, changes>>

(***************************************************************************)
(* The environment.                                                        *)
(***************************************************************************)
Kill ==
  /\ pc \notin {"idle", "over", "dead"} /\ Fault
  /\ pc' = "dead"
  /\ UNCHANGED <<herdr, entry, stacked, live, calls, occupied, reply, changes>>

Change ==
  /\ pc \notin {"over", "dead"}
  /\ faults + changes < MaxDisturbances /\ changes' = changes + 1

UserCloses ==
  /\ Change
  /\ \E pane \in PanesIn(herdr) : herdr' = WithoutPane(herdr, pane)
  /\ UNCHANGED <<entry, stacked, pc, live, calls, occupied, reply, faults>>

\* What herdr may call a new tab and its pane: new ids, or any that are free again.
\* The id of a tab names its workspace.
FreeHomes == given \cup {<<ws, next + 1, next + 2>> : ws \in IdsIn(herdr) \cup {next}}

Meanwhile(after, ids) ==
  /\ herdr' = after
  /\ next' = next + 3
  /\ given' = given \cup Homes(after)
  /\ theirs' = theirs \cup ids
  /\ UNCHANGED <<entry, stacked, pc, live, calls, occupied, created, report, recorded, made,
                 replaced, faults>>

\* The user opens a tab, in a new workspace if there is none of that id.
UserOpens ==
  /\ Change
  /\ \E home \in FreeHomes, label \in Labels, cwd \in Cwds :
       LET ws   == home[1]
           tab  == home[2]
           leaf == Leaf(home[3], cwd)
       IN  /\ tab \notin {t.id : t \in TabsIn(herdr)} /\ home[3] \notin PanesIn(herdr)
           /\ Meanwhile(IF ws \in IdsIn(herdr)
                        THEN WithTab(herdr, ws, Tab(tab, label, home[3], leaf))
                        ELSE WithWorkspace(herdr, ws, label, cwd,
                                           Tab(tab, None, home[3], leaf)),
                        {tab, home[3]})

\* The user splits a pane; the new one gets a new id or one that is free again.
UserSplits ==
  /\ Change
  /\ \E home \in Homes(herdr), cwd \in Cwds :
       \E pane \in {next} \cup {other[3] : other \in {g \in given : g[1] = home[1]}} :
         /\ pane \notin PanesIn(herdr)
         /\ Meanwhile(PaneSplit(herdr, home[3], "right", 5, Pane(pane, cwd)), {pane})

Init ==
  /\ WorkspacesClose \/ TabCloses \/ PaneCloses
  /\ next = FirstNew /\ stacked = TRUE /\ pc = "idle"
  /\ live = [workspaces |-> {}, tabs |-> {}, panes |-> {}]
  /\ calls = << >> /\ created = << >>
  /\ report = [workspaces |-> {}, tabs |-> {}, panes |-> {}, failed |-> FALSE]
  /\ recorded = {} /\ occupied = {} /\ made = {} /\ replaced = {}
  /\ given = Homes(Session) /\ theirs = {}
  /\ faults = 0 /\ changes = 0

ReopenStep ==
  \/ Pop \/ FetchWorkspaces \/ FetchTabs \/ FetchPanes
  \/ RestoreWorkspace \/ CreateWorkspace \/ ApplyLayout \/ SplitPane \/ RestoreOccupants
  \/ Arrange \/ RenameTab \/ MoveTab \/ FocusTab \/ FocusPane \/ SwapPanes \/ End

Next == ReopenStep \/ Kill \/ UserCloses \/ UserOpens \/ UserSplits

Spec == Init /\ [][Next]_vars

(***************************************************************************)
(* Type invariant.                                                         *)
(***************************************************************************)
\* The ids of everything open are those of the session or were given out since,
\* none of them twice; of its own the restore has only what herdr made for it.
TypeOK ==
  LET tabs == UNION {Range(w.tabs) : w \in Range(herdr)}
  IN  /\ next >= FirstNew
      /\ faults \in Nat /\ changes \in Nat /\ faults + changes <= MaxDisturbances
      /\ stacked \in BOOLEAN /\ report.failed \in BOOLEAN
      /\ pc \in {"idle", "workspaces", "tabs", "panes", "calling", "over", "dead"}
      /\ DistinctIds(herdr)
      /\ \A w \in Range(herdr) : DistinctIds(w.tabs) /\ w.active \in IdsIn(w.tabs)
      /\ \A t \in tabs : /\ IsLayout(t.layout) /\ PanesApart(t.layout)
                         /\ t.focused \in PaneIds(t.layout)
                         /\ \A p \in PaneIds(t.layout) : p < next
      /\ UNION {recorded, report.workspaces, report.tabs, report.panes} \subseteq made
      /\ made \subseteq FirstNew .. next - 1

(***************************************************************************)
(* What a reopen promises.                                                 *)
(***************************************************************************)
Undisturbed == pc = "over" /\ faults = 0 /\ changes = 0

\* The remembered panes with a place in the remembered layout that pane.split can
\* give back: those of whole tabs, and a pane whose sibling was one pane.
HasPlace ==
  entry.granularity = "pane" =>
    \A ws \in entry.workspaces : \A pane \in ws.tabs[1].panes :
      \E f \in locate(ws.tabs[1].layout, pane) : DOMAIN f.sibling = {<< >>}

Look(w) ==
  [label |-> effective_ws_label(w.label, w.cwd),
   tabs  |-> [j \in DOMAIN w.tabs |-> [label  |-> effective_tab_label(w.tabs[j].label),
                                       layout |-> strip_pane_ids(w.tabs[j].layout)]]]

\* A close and its reopen, with nothing in between, leave the session as it was but
\* for the ids: every split with its ratio and sides, every tab in its place under
\* its own name; a workspace comes back after those that stayed (restore.rs run).
RoundTrip ==
  Undisturbed /\ HasPlace =>
    LET stayed == {i \in DOMAIN Session : Session[i].id \in IdsIn(herdr)}
        wanted == Keep(Session, stayed) \o Keep(Session, DOMAIN Session \ stayed)
    IN  [i \in DOMAIN herdr |-> Look(herdr[i])] = [i \in DOMAIN wanted |-> Look(wanted[i])]

\* The pane that had the focus in a tab has it again, under its new id, and the tab
\* that was active in a rebuilt workspace, or that the entry is about, is active
\* (finish_tab and restore_workspace map both by position).
FocusComesBack ==
  Undisturbed /\ FocusOnReopen =>
    \A ws \in entry.workspaces : \A tab \in Range(ws.tabs) :
      tab.focused_pane_id \in tab.panes =>
        \E w \in Range(herdr) : \E t \in Range(w.tabs) :
          /\ <<tab.focused_pane_id, t.focused>> \in occupied
          /\ entry.granularity = "tab" \/ tab.tab_id = ws.active_tab_id => w.active = t.id

\* A listed tab of the closed tab's id has its label or one of its directories. A pane
\* that closed alone is split into such a tab; a whole tab counts as still open.
TakenForOpen(tab) ==
  /\ entry.granularity # "pane"
  /\ \E t \in live.tabs :
       /\ t.id = tab.tab_id
       /\ \/ t.label = tab.label
          \/ \E p \in live.panes : p.tab = t.id /\ p.cwd \in leaf_cwds(tab.layout)

\* A reopen that reports no failure brought back every pane of its entry, or, if whole
\* tabs were closed, took the tab for still open because a listed tab of that id has its
\* label or one of its directories: a stranger with a recycled id alone does not swallow
\* a pane (same_container), and no list or call fails unreported.
NothingSilentlyMissing ==
  pc = "over" /\ ~report.failed =>
    \A ws \in entry.workspaces : \A tab \in Range(ws.tabs) : \A pane \in tab.panes :
      (\E pair \in occupied : pair[1] = pane) \/ TakenForOpen(tab)

\* main.rs gives the entry back exactly when nothing it knows of was made: an entry is
\* never on the stack when the restore has something of it on record, not even an empty
\* workspace, and an attempt that came to nothing does not cost the entry
\* (created_nothing).  What was made for a request whose answer was lost is not on record.
GivenBackIfNothingMade ==
  pc = "over" => (stacked <=> recorded = {})

\* What the restore makes herdr destroy, the placeholder of a new workspace, is on
\* record first, so that the close hooks know these closes for its own; only what the
\* user opened under its id or split off in it may not be.
OwnClosesAreRecorded == replaced \subseteq recorded \cup theirs

\* The request at hand replaces tab t.
Replaces(t) ==
  calls # << >> /\ Head(calls).call = "layout.apply" /\ Head(calls).placeholder = t.id

\* A reopen only adds, whichever ids herdr has given away meanwhile: the one tab that a
\* request of it may remove is the tab that layout.apply replaces, and that tab's id is
\* one that herdr answered to workspace.create (record_created).  It is the placeholder,
\* unless herdr has given its id to another of the user's by then.  No tab and no pane
\* besides is lost to a request, and none of a tab that it built itself.
OnlyAdds ==
  [][changes' = changes =>
       \A t \in TabsIn(herdr) :
         \/ t.id \in recorded /\ Replaces(t)
         \/ \E s \in TabsIn(herdr') : s.id = t.id /\ PaneIds(t.layout) \subseteq PaneIds(s.layout)]_vars

(***************************************************************************)
(* What a comment says and the code does not do.                           *)
(***************************************************************************)
\* rpc.rs: a request that timed out may still be executing, so the caller must not
\* assume that it failed.
GivenBackOnlyIfNothingMade ==
  pc = "over" /\ stacked => made = {}
==============================================================================
