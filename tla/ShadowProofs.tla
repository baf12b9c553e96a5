----------------------------- MODULE ShadowProofs -----------------------------
(***************************************************************************)
(* What the shadow knew stays known until the close hook has read it, and  *)
(* a slow refresh never covers a newer one, for any number of refreshers,  *)
(* hooks, panes and failures.                                              *)
(***************************************************************************)
EXTENDS Shadow, TLAPS

(***************************************************************************)
(* Snapshots.                                                              *)
(***************************************************************************)
\* The tabs of workspace w hold panes that herdr has in them.
TabsPlaced(w, tabs) ==
  \A t \in DOMAIN tabs :
    /\ t \in TabsOf(Panes) /\ WorkspaceOf[t] = w
    /\ \A p \in tabs[t] : p \in Panes /\ Home[p].tab = t

\* Every workspace occurs once and every pane and tab is where herdr has it.
Placed(workspaces) ==
  /\ \A v, w \in workspaces : v.workspace_id = w.workspace_id => v = w
  /\ \A w \in workspaces :
       w.workspace_id \in WorkspacesOf(Panes) /\ TabsPlaced(w.workspace_id, w.tabs)

IsSnapshot(snap) ==
  /\ snap = [taken_at_ms |-> snap.taken_at_ms, workspaces |-> snap.workspaces]
  /\ snap.taken_at_ms \in Nat
  /\ Placed(snap.workspaces)

LEMMA HomeOfTab ==
  ASSUME NEW p \in Panes
  PROVE  /\ Home[p].tab \in TabsOf(Panes) /\ Home[p].workspace \in WorkspacesOf(Panes)
         /\ WorkspaceOf[Home[p].tab] = Home[p].workspace
         /\ p # None /\ Home[p].tab # None
<1>1. Home[p].tab \in TabsOf(Panes) /\ Home[p].workspace \in WorkspacesOf(Panes)
  BY DEF TabsOf, WorkspacesOf
<1> DEFINE places == {Home[q] : q \in Panes}
           chosen == CHOOSE h \in places : h.tab = Home[p].tab
<1>2. chosen \in places /\ chosen.tab = Home[p].tab
  OBVIOUS
<1>3. WorkspaceOf[Home[p].tab] = chosen.workspace
  BY <1>1 DEF WorkspaceOf
<1> HIDE DEF chosen
<1>4. PICK q \in Panes : chosen = Home[q]
  BY <1>2
<1>5. chosen = Home[p]
  BY <1>2, <1>4, HomeAssumption
<1>6. QED
  BY <1>1, <1>3, <1>5, HomeAssumption

LEMMA PanesOfSnapshot ==
  ASSUME NEW snap, NEW p
  PROVE  p \in AllPanes(snap) <=> \E w \in snap.workspaces : \E t \in DOMAIN w.tabs : p \in w.tabs[t]
  BY DEF AllPanes, PanesOf

LEMMA PanesArePlaced ==
  ASSUME NEW snap, Placed(snap.workspaces)
  PROVE  AllPanes(snap) \subseteq Panes
<1> SUFFICES ASSUME NEW p \in AllPanes(snap) PROVE p \in Panes
  OBVIOUS
<1>1. PICK w \in snap.workspaces : \E t \in DOMAIN w.tabs : p \in w.tabs[t]
  BY PanesOfSnapshot
<1>2. QED
  BY <1>1 DEF Placed, TabsPlaced

\* A snapshot assembled from lists that came from herdr, whenever that was.
LEMMA AssembleIsPlaced ==
  ASSUME NEW ws \in SUBSET WorkspacesOf(Panes), NEW ts \in SUBSET TabsOf(Panes),
         NEW ps \in SUBSET Panes, NEW at \in Nat
  PROVE  IsSnapshot(assemble(ws, ts, ps, at)) /\ assemble(ws, ts, ps, at).taken_at_ms = at
<1> DEFINE Row(w) == [workspace_id |-> w,
                      tabs |-> [t \in {x \in ts : WorkspaceOf[x] = w} |->
                                  {p \in ps : Home[p].tab = t}]]
           rows == {Row(w) : w \in ws}
<1>1. assemble(ws, ts, ps, at) = [taken_at_ms |-> at, workspaces |-> rows]
  BY DEF assemble
<1>2. \A w \in ws : Row(w).workspace_id = w /\ TabsPlaced(w, Row(w).tabs)
  BY DEF TabsPlaced
<1> HIDE DEF Row
<1>3. Placed(rows)
  BY <1>2 DEF Placed
<1> HIDE DEF rows
<1>4. QED
  BY <1>1, <1>3 DEF IsSnapshot

\* One assembled from lists of one moment has exactly the panes of that moment.
LEMMA AssembleIsExact ==
  ASSUME NEW ps \in SUBSET Panes, NEW at
  PROVE  AllPanes(assemble(WorkspacesOf(ps), TabsOf(ps), ps, at)) = ps
<1> DEFINE ws == WorkspacesOf(ps)
           ts == TabsOf(ps)
           Row(w) == [workspace_id |-> w,
                      tabs |-> [t \in {x \in ts : WorkspaceOf[x] = w} |->
                                  {p \in ps : Home[p].tab = t}]]
           snap == assemble(ws, ts, ps, at)
<1>1. snap.workspaces = {Row(w) : w \in ws}
  BY DEF assemble
<1>2. ASSUME NEW p \in ps PROVE p \in AllPanes(snap)
  <2> DEFINE w == Home[p].workspace
             t == Home[p].tab
  <2>1. w \in ws /\ t \in ts /\ WorkspaceOf[t] = w
    BY HomeOfTab DEF WorkspacesOf, TabsOf
  <2>2. Row(w) \in snap.workspaces /\ t \in DOMAIN Row(w).tabs /\ p \in Row(w).tabs[t]
    BY <1>1, <2>1
  <2> HIDE DEF Row, w, t, snap
  <2>3. QED
    BY <2>2, PanesOfSnapshot
<1>3. ASSUME NEW p \in AllPanes(snap) PROVE p \in ps
  <2>1. PICK x \in snap.workspaces : \E t \in DOMAIN x.tabs : p \in x.tabs[t]
    BY PanesOfSnapshot
  <2>2. PICK w \in ws : x = Row(w)
    BY <1>1, <2>1
  <2>3. QED
    BY <2>1, <2>2
<1>4. QED
  BY <1>2, <1>3

\* What the snapshot has for one workspace.
LEMMA TabsInIs ==
  ASSUME NEW snap, Placed(snap.workspaces), NEW w
  PROVE  /\ \A x \in snap.workspaces : x.workspace_id = w => TabsIn(snap, w) = x.tabs
         /\ w \notin AllWorkspaces(snap) => DOMAIN TabsIn(snap, w) = {}
         /\ TabsPlaced(w, TabsIn(snap, w))
<1>1. ASSUME NEW x \in snap.workspaces, x.workspace_id = w
      PROVE  TabsIn(snap, w) = x.tabs /\ TabsPlaced(w, TabsIn(snap, w))
  <2> DEFINE chosen == CHOOSE y \in snap.workspaces : y.workspace_id = w
  <2>1. chosen \in snap.workspaces /\ chosen.workspace_id = w
    BY <1>1
  <2>2. TabsIn(snap, w) = chosen.tabs
    BY <1>1 DEF TabsIn, AllWorkspaces
  <2> HIDE DEF chosen
  <2>3. chosen = x
    BY <1>1, <2>1 DEF Placed
  <2>4. QED
    BY <1>1, <2>2, <2>3 DEF Placed
<1>2. ASSUME w \notin AllWorkspaces(snap)
      PROVE  DOMAIN TabsIn(snap, w) = {} /\ TabsPlaced(w, TabsIn(snap, w))
  <2>1. TabsIn(snap, w) = << >>
    BY <1>2 DEF TabsIn
  <2>2. QED
    BY <2>1 DEF TabsPlaced
<1>3. w \in AllWorkspaces(snap) => \E x \in snap.workspaces : x.workspace_id = w
  BY DEF AllWorkspaces
<1>4. QED
  BY <1>1, <1>2, <1>3

\* Tabs put in the place of those of workspace w, none of which they lack.
LEMMA WithTabsGrows ==
  ASSUME NEW snap, IsSnapshot(snap), NEW w \in WorkspacesOf(Panes), NEW tabs,
         TabsPlaced(w, tabs), NEW P,
         \A t \in DOMAIN TabsIn(snap, w) : t \in DOMAIN tabs /\ TabsIn(snap, w)[t] \subseteq tabs[t],
         \A t \in DOMAIN tabs : \A p \in tabs[t] :
           p \in P \/ (t \in DOMAIN TabsIn(snap, w) /\ p \in TabsIn(snap, w)[t])
  PROVE  LET new == WithTabs(snap, w, tabs)
         IN  /\ IsSnapshot(new) /\ new.taken_at_ms = snap.taken_at_ms
             /\ AllPanes(snap) \subseteq AllPanes(new)
             /\ AllPanes(new) \subseteq AllPanes(snap) \cup P
<1> DEFINE new == WithTabs(snap, w, tabs)
           row == [workspace_id |-> w, tabs |-> tabs]
<1>1. /\ new.taken_at_ms = snap.taken_at_ms
      /\ new.workspaces = {x \in snap.workspaces : x.workspace_id # w} \cup {row}
      /\ new = [taken_at_ms |-> new.taken_at_ms, workspaces |-> new.workspaces]
  BY DEF WithTabs, IsSnapshot
<1>2. row.workspace_id = w /\ row.tabs = tabs
  OBVIOUS
<1> HIDE DEF row, new
<1>3. Placed(new.workspaces)
  BY <1>1, <1>2 DEF Placed, IsSnapshot
<1>4. ASSUME NEW p \in AllPanes(snap) PROVE p \in AllPanes(new)
  <2>1. PICK x \in snap.workspaces : \E t \in DOMAIN x.tabs : p \in x.tabs[t]
    BY PanesOfSnapshot
  <2>2. CASE x.workspace_id = w
    <3>1. TabsIn(snap, w) = x.tabs
      BY <2>2, TabsInIs DEF IsSnapshot
    <3>2. row \in new.workspaces /\ \E t \in DOMAIN row.tabs : p \in row.tabs[t]
      BY <1>1, <1>2, <2>1, <3>1
    <3>3. QED
      BY <3>2, PanesOfSnapshot
  <2>3. CASE x.workspace_id # w
    BY <1>1, <2>1, <2>3, PanesOfSnapshot
  <2>4. QED
    BY <2>2, <2>3
<1>5. ASSUME NEW p \in AllPanes(new) PROVE p \in AllPanes(snap) \cup P
  <2>1. PICK x \in new.workspaces : \E t \in DOMAIN x.tabs : p \in x.tabs[t]
    BY PanesOfSnapshot
  <2>2. CASE x \in snap.workspaces
    BY <2>1, <2>2, PanesOfSnapshot
  <2>3. CASE x = row
    <3>1. PICK t \in DOMAIN tabs : p \in tabs[t]
      BY <1>2, <2>1, <2>3
    <3>2. CASE t \in DOMAIN TabsIn(snap, w) /\ p \in TabsIn(snap, w)[t]
      <4>1. w \in AllWorkspaces(snap)
        BY <3>2, TabsInIs DEF IsSnapshot
      <4>2. PICK y \in snap.workspaces : y.workspace_id = w
        BY <4>1 DEF AllWorkspaces
      <4>3. TabsIn(snap, w) = y.tabs
        BY <4>2, TabsInIs DEF IsSnapshot
      <4>4. QED
        BY <3>2, <4>2, <4>3, PanesOfSnapshot
    <3>3. QED
      BY <3>1, <3>2
  <2>4. QED
    BY <1>1, <2>1, <2>2, <2>3
<1>6. QED
  BY <1>1, <1>3, <1>4, <1>5 DEF IsSnapshot, new

\* What a create event may name.
IsCreate(e) ==
  \/ e.kind = "pane" /\ e.id \in Panes
  \/ e.kind = "tab" /\ e.id \in TabsOf(Panes)
  \/ e.kind = "workspace" /\ e.id \in WorkspacesOf(Panes)

\* A merge forgets nothing and adds the pane it is about.
LEMMA MergeGrows ==
  ASSUME NEW e, IsCreate(e), IsSnapshot(snapshot)
  PROVE  /\ IsSnapshot(Merge(e)) /\ Merge(e).taken_at_ms = snapshot.taken_at_ms
         /\ AllPanes(snapshot) \subseteq AllPanes(Merge(e))
         /\ AllPanes(Merge(e)) \subseteq AllPanes(snapshot) \cup (IF e.kind = "pane" THEN {e.id} ELSE {})
<1>1. ASSUME NEW tabs, NEW t, NEW w, NEW P, TabsPlaced(w, tabs),
             t \in TabsOf(Panes), WorkspaceOf[t] = w,
             \A p \in P : p \in Panes /\ Home[p].tab = t
      PROVE  /\ TabsPlaced(w, AddPane(tabs, t, P))
             /\ \A x \in DOMAIN tabs : x \in DOMAIN AddPane(tabs, t, P)
                                      /\ tabs[x] \subseteq AddPane(tabs, t, P)[x]
             /\ \A x \in DOMAIN AddPane(tabs, t, P) : \A p \in AddPane(tabs, t, P)[x] :
                  p \in P \/ (x \in DOMAIN tabs /\ p \in tabs[x])
  <2> DEFINE new == AddPane(tabs, t, P)
  <2>1. DOMAIN new = DOMAIN tabs \cup {t}
    BY DEF AddPane
  <2>2. \A x \in DOMAIN new : new[x] = (IF x \in DOMAIN tabs THEN tabs[x] ELSE {})
                                        \cup (IF x = t THEN P ELSE {})
    BY DEF AddPane
  <2> HIDE DEF new
  <2>3. QED
    BY <1>1, <2>1, <2>2 DEF TabsPlaced, new
<1>2. CASE e.kind = "pane"
  <2> DEFINE t == Home[e.id].tab
             w == Home[e.id].workspace
             P == {e.id}
             tabs == AddPane(TabsIn(snapshot, w), t, P)
  <2>0. e.id \in Panes
    BY <1>2 DEF IsCreate
  <2>1. Merge(e) = WithTabs(snapshot, w, tabs)
    BY <1>2 DEF Merge, merge_pane_created
  <2>2. t \in TabsOf(Panes) /\ w \in WorkspacesOf(Panes) /\ WorkspaceOf[t] = w
        /\ TabsPlaced(w, TabsIn(snapshot, w))
    BY <2>0, HomeOfTab, TabsInIs DEF IsSnapshot
  <2>3. \A p \in P : p \in Panes /\ Home[p].tab = t
    BY <2>0
  <2> HIDE DEF t, w, P
  <2>4. /\ TabsPlaced(w, tabs)
        /\ \A x \in DOMAIN TabsIn(snapshot, w) :
             x \in DOMAIN tabs /\ TabsIn(snapshot, w)[x] \subseteq tabs[x]
        /\ \A x \in DOMAIN tabs : \A p \in tabs[x] :
             p \in P \/ (x \in DOMAIN TabsIn(snapshot, w) /\ p \in TabsIn(snapshot, w)[x])
    BY <1>1, <2>2, <2>3
  <2> HIDE DEF tabs
  <2>5. /\ IsSnapshot(WithTabs(snapshot, w, tabs))
        /\ WithTabs(snapshot, w, tabs).taken_at_ms = snapshot.taken_at_ms
        /\ AllPanes(snapshot) \subseteq AllPanes(WithTabs(snapshot, w, tabs))
        /\ AllPanes(WithTabs(snapshot, w, tabs)) \subseteq AllPanes(snapshot) \cup P
    BY <2>2, <2>4, WithTabsGrows
  <2>6. QED
    BY <1>2, <2>1, <2>5 DEF P
<1>3. CASE e.kind = "tab"
  <2> DEFINE w == WorkspaceOf[e.id]
             tabs == AddPane(TabsIn(snapshot, w), e.id, {})
  <2>0. e.id \in TabsOf(Panes)
    BY <1>3 DEF IsCreate
  <2>1. CASE w \in AllWorkspaces(snapshot)
    <3>1. Merge(e) = WithTabs(snapshot, w, tabs)
      BY <1>3, <2>1 DEF Merge, merge_tab_created
    <3>2. w \in WorkspacesOf(Panes) /\ TabsPlaced(w, TabsIn(snapshot, w))
      BY <2>1, TabsInIs DEF IsSnapshot, Placed, AllWorkspaces
    <3>3. /\ TabsPlaced(w, tabs)
          /\ \A x \in DOMAIN TabsIn(snapshot, w) :
               x \in DOMAIN tabs /\ TabsIn(snapshot, w)[x] \subseteq tabs[x]
          /\ \A x \in DOMAIN tabs : \A p \in tabs[x] :
               p \in {} \/ (x \in DOMAIN TabsIn(snapshot, w) /\ p \in TabsIn(snapshot, w)[x])
      BY <1>1, <2>0, <3>2
    <3> HIDE DEF tabs, w
    <3>4. QED
      BY <1>3, <3>1, <3>2, <3>3, WithTabsGrows
  <2>2. CASE w \notin AllWorkspaces(snapshot)
    <3>1. Merge(e) = snapshot
      BY <1>3, <2>2 DEF Merge, merge_tab_created
    <3>2. QED
      BY <1>3, <3>1
  <2>3. QED
    BY <2>1, <2>2
<1>4. CASE e.kind = "workspace"
  <2> DEFINE w == e.id
             tabs == TabsIn(snapshot, w)
  <2>1. Merge(e) = WithTabs(snapshot, w, tabs) /\ w \in WorkspacesOf(Panes)
    BY <1>4 DEF Merge, merge_workspace_created, IsCreate
  <2>2. TabsPlaced(w, tabs)
    BY TabsInIs DEF IsSnapshot
  <2>3. /\ \A x \in DOMAIN TabsIn(snapshot, w) :
             x \in DOMAIN tabs /\ TabsIn(snapshot, w)[x] \subseteq tabs[x]
        /\ \A x \in DOMAIN tabs : \A p \in tabs[x] :
             p \in {} \/ (x \in DOMAIN TabsIn(snapshot, w) /\ p \in TabsIn(snapshot, w)[x])
    OBVIOUS
  <2> HIDE DEF w, tabs
  <2>4. /\ IsSnapshot(WithTabs(snapshot, w, tabs))
        /\ WithTabs(snapshot, w, tabs).taken_at_ms = snapshot.taken_at_ms
        /\ AllPanes(snapshot) \subseteq AllPanes(WithTabs(snapshot, w, tabs))
        /\ AllPanes(WithTabs(snapshot, w, tabs)) \subseteq AllPanes(snapshot) \cup {}
    BY <2>1, <2>2, <2>3, WithTabsGrows
  <2>5. e.kind # "pane"
    BY <1>4
  <2>6. QED
    BY <2>1, <2>4, <2>5
<1>5. QED
  BY <1>2, <1>3, <1>4 DEF IsCreate

(***************************************************************************)
(* The inductive invariant.                                                *)
(***************************************************************************)
Steps == {"idle", "workspaces", "tabs", "panes", "sample", "replace", "write", "done"}

Lists == [taken_at_ms : Nat, workspaces : SUBSET WorkspacesOf(Panes),
          tabs : SUBSET TabsOf(Panes), panes : SUBSET Panes,
          hint : BOOLEAN, failed : BOOLEAN]

IsClose(ev) ==
  /\ ev = [name |-> ev.name, pane |-> ev.pane, tab |-> ev.tab, workspace |-> ev.workspace,
           known |-> ev.known, losses |-> ev.losses]
  /\ ev.name \in CLOSE_EVENTS /\ ev.pane \in Panes \cup {None}
  /\ ev.known \in BOOLEAN /\ ev.losses \in 0 .. 2
  /\ ev.name = "pane.closed" => ev.pane \in Panes /\ ev.tab = None

HerdrInv ==
  /\ now \in Nat /\ changed \in Nat /\ changed <= now
  /\ live \subseteq Panes /\ unborn \subseteq Panes \ live
  /\ \A e \in created : IsCreate(e)

CacheInv ==
  /\ IsSnapshot(snapshot) /\ snapshot.taken_at_ms <= now
  /\ IsSnapshot(prev) /\ prev.taken_at_ms <= now

RefreshInv ==
  /\ pc \in [Refreshers -> Steps]
  /\ seen \in [Refreshers -> Lists]
  /\ \A r \in Refreshers : seen[r].taken_at_ms <= now

\* Between the two writes of a refresh both files hold what it is about to drop.
LockInv ==
  /\ lock \in Refreshers \cup {None}
  /\ \A r \in Refreshers : pc[r] = "write" => lock = r
  /\ lock \in Refreshers =>
       /\ pc[lock] = "write" /\ prev = snapshot
       /\ snapshot.taken_at_ms <= seen[lock].taken_at_ms
       /\ \A ev \in closes : ev.losses >= 1

\* The panes one of which a snapshot must have in order to remember the event.
Named(ev) == IF ev.pane # None THEN {ev.pane} ELSE {p \in Panes : Home[p].tab = ev.tab}

Has(snap, ev) == Named(ev) \cap AllPanes(snap) # {}

\* What was known is in the snapshot, and in the previous one after one loss.
CloseInv ==
  \A ev \in closes :
    /\ IsClose(ev)
    /\ ev.known = TRUE /\ ev.losses = 0 => Has(snapshot, ev)
    /\ ev.known = TRUE /\ ev.losses = 1 => Has(snapshot, ev) \/ Has(prev, ev)

\* What r has listed so far is what is there, if herdr has not changed since it began.
Accurate(r) ==
  seen[r].failed = FALSE /\ seen[r].taken_at_ms > changed =>
    /\ pc[r] \in {"tabs", "panes", "sample", "replace", "write"} =>
         seen[r].workspaces = WorkspacesOf(live)
    /\ pc[r] \in {"panes", "sample", "replace", "write"} => seen[r].tabs = TabsOf(live)
    /\ pc[r] \in {"sample", "replace", "write"} => seen[r].panes = live

FreshInv ==
  /\ newest = snapshot.taken_at_ms
  /\ \A r \in Refreshers : Accurate(r)
  /\ partial = FALSE /\ newest > changed =>
       live \subseteq AllPanes(snapshot) /\ AllPanes(snapshot) \subseteq live \cup merged

ShadowInv ==
  HerdrInv /\ CacheInv /\ RefreshInv /\ LockInv /\ CloseInv /\ FreshInv
(***************************************************************************)
(* Events and what the files have of them.                                 *)
(***************************************************************************)
LEMMA RemembersIsHas ==
  ASSUME NEW snap, IsSnapshot(snap), NEW ev, ev.pane \in Panes \cup {None}
  PROVE  Remembers(snap.workspaces, ev) <=> Has(snap, ev)
<1>1. CASE ev.pane # None
  <2>1. Remembers(snap.workspaces, ev) <=> \E w \in snap.workspaces : ev.pane \in PanesOf(w)
    BY <1>1 DEF Remembers, HasPane
  <2>2. Has(snap, ev) <=> ev.pane \in AllPanes(snap)
    BY <1>1 DEF Has, Named
  <2>3. QED
    BY <2>1, <2>2 DEF AllPanes
<1>2. CASE ev.pane = None
  <2>1. Remembers(snap.workspaces, ev)
        <=> \E w \in snap.workspaces : ev.tab \in DOMAIN w.tabs /\ w.tabs[ev.tab] # {}
    BY <1>2 DEF Remembers
  <2>2. Has(snap, ev) <=> \E p \in AllPanes(snap) : p \in Panes /\ Home[p].tab = ev.tab
    BY <1>2 DEF Has, Named
  <2>3. \A w \in snap.workspaces : \A t \in DOMAIN w.tabs : \A p \in w.tabs[t] :
          p \in Panes /\ Home[p].tab = t
    BY DEF IsSnapshot, Placed, TabsPlaced
  <2>4. QED
    BY <2>1, <2>2, <2>3, PanesOfSnapshot
<1>3. QED
  BY <1>1, <1>2

\* An event herdr sends now.
Reported(ev) ==
  /\ IsClose(ev)
  /\ ev.known = TRUE => Has(snapshot, ev)
  /\ ev.losses = IF lock = None THEN 0 ELSE 1

LEMMA ReportIs ==
  ASSUME ShadowInv, NEW name \in CLOSE_EVENTS, NEW p \in Panes \cup {None}, NEW t, NEW w,
         name = "pane.closed" => p \in Panes /\ t = None
  PROVE  Reported(Report(name, p, t, w))
<1> DEFINE ev == [name |-> name, pane |-> p, tab |-> t, workspace |-> w]
           report == Report(name, p, t, w)
           known == Remembers(snapshot.workspaces, ev)
           losses == IF lock = None THEN 0 ELSE 1
<1>1. report = [name |-> name, pane |-> p, tab |-> t, workspace |-> w,
                known |-> known, losses |-> losses]
  BY DEF Report
<1>2. known \in BOOLEAN
  BY DEF Remembers, HasPane
<1>3. losses \in 0 .. 2
  OBVIOUS
<1>4. ev.pane = p /\ ev.tab = t
  OBVIOUS
<1> HIDE DEF known, losses, ev, report
<1>5. /\ report.name = name /\ report.pane = p /\ report.tab = t /\ report.workspace = w
      /\ report.known = known /\ report.losses = losses
  BY <1>1
<1>6. IsClose(report)
  BY <1>1, <1>2, <1>3, <1>5 DEF IsClose
<1>7. known <=> Has(snapshot, ev)
  BY <1>4, RemembersIsHas DEF known, ShadowInv, CacheInv
<1>8. Has(snapshot, ev) <=> Has(snapshot, report)
  BY <1>4, <1>5 DEF Has, Named
<1>9. QED
  BY <1>5, <1>6, <1>7, <1>8 DEF Reported, report, losses

(***************************************************************************)
(* The user.                                                               *)
(***************************************************************************)
LEMMA ShadowInitially == Init => ShadowInv
<1> SUFFICES ASSUME Init PROVE ShadowInv
  OBVIOUS
<1>1. AtStart \subseteq Panes
  BY HomeAssumption
<1>2. HerdrInv
  BY <1>1 DEF Init, HerdrInv
<1>3. IsSnapshot(EmptySnapshot) /\ EmptySnapshot.taken_at_ms = 0
  BY DEF EmptySnapshot, IsSnapshot, Placed
<1>4. /\ IsSnapshot(assemble(WorkspacesOf(AtStart), TabsOf(AtStart), AtStart, 1))
      /\ assemble(WorkspacesOf(AtStart), TabsOf(AtStart), AtStart, 1).taken_at_ms = 1
  BY <1>1, AssembleIsPlaced DEF WorkspacesOf, TabsOf
<1>5. CacheInv /\ snapshot.taken_at_ms \in {0, 1}
  BY <1>3, <1>4 DEF Init, CacheInv
<1>6. Nothing \in Lists /\ Nothing.taken_at_ms = 0
  BY DEF Nothing, Lists
<1>7. RefreshInv
  BY <1>6 DEF Init, RefreshInv, Steps
<1>8. LockInv
  BY RefresherAssumption DEF Init, LockInv
<1>9. CloseInv
  BY DEF Init, CloseInv
<1>10. FreshInv
  <2>1. \A r \in Refreshers : Accurate(r)
    BY DEF Init, Accurate
  <2>2. QED
    BY <1>5, <2>1 DEF Init, FreshInv
<1>11. QED
  BY <1>2, <1>5, <1>7, <1>8, <1>9, <1>10 DEF ShadowInv

\* What herdr and its user do leaves the files and the refreshes alone, and
\* makes everything older than now.
LEMMA ChangeIsSafe ==
  ASSUME ShadowInv, Change, UNCHANGED <<now, cache, lock, pc, seen, history>>
  PROVE  CacheInv' /\ RefreshInv' /\ FreshInv' /\ changed' \in Nat /\ changed' <= now'
<1>1. CacheInv'
  BY DEF ShadowInv, CacheInv, cache
<1>2. RefreshInv'
  BY DEF ShadowInv, RefreshInv
<1>3. changed' = now /\ now' = now /\ now \in Nat
  BY DEF Change, ShadowInv, HerdrInv
<1>4. FreshInv'
  <2>1. \A r \in Refreshers : seen[r].taken_at_ms \in Nat /\ seen[r].taken_at_ms <= now
    BY DEF ShadowInv, RefreshInv, Lists
  <2>2. \A r \in Refreshers : Accurate(r)'
    BY <1>3, <2>1 DEF Accurate
  <2>3. newest' = snapshot'.taken_at_ms /\ ~(newest' > changed')
    BY <1>3 DEF ShadowInv, FreshInv, CacheInv, IsSnapshot, cache, history
  <2>4. QED
    BY <2>2, <2>3 DEF FreshInv
<1>5. QED
  BY <1>1, <1>2, <1>3, <1>4

LEMMA OpenIsSafe == ASSUME ShadowInv, NEW p \in Panes, Open(p) PROVE ShadowInv'
<1>1. CacheInv' /\ RefreshInv' /\ FreshInv' /\ changed' \in Nat /\ changed' <= now'
  BY ChangeIsSafe DEF Open
<1>2. \A e \in created' : IsCreate(e)
  <2>1. /\ IsCreate(CreateEvent("pane", p))
        /\ IsCreate(CreateEvent("tab", Home[p].tab))
        /\ IsCreate(CreateEvent("workspace", Home[p].workspace))
    BY HomeOfTab DEF IsCreate, CreateEvent
  <2>2. \A e \in created : IsCreate(e)
    BY DEF ShadowInv, HerdrInv
  <2>3. \A e \in created' : \/ e \in created \/ e = CreateEvent("pane", p)
                            \/ e = CreateEvent("tab", Home[p].tab)
                            \/ e = CreateEvent("workspace", Home[p].workspace)
    BY DEF Open
  <2>4. QED
    BY <2>1, <2>2, <2>3
<1>3. HerdrInv'
  <2>1. live' = live \cup {p} /\ unborn' = unborn \ {p} /\ now' = now
    BY DEF Open
  <2>2. QED
    BY <1>1, <1>2, <2>1 DEF ShadowInv, HerdrInv
<1>4. LockInv'
  BY DEF Open, cache, ShadowInv, LockInv
<1>5. CloseInv'
  BY DEF Open, cache, ShadowInv, CloseInv, Has
<1>6. QED
  BY <1>1, <1>3, <1>4, <1>5 DEF ShadowInv

LEMMA CloseIsSafe ==
  ASSUME ShadowInv, NEW P, NEW E, Close(P, E), \A ev \in E : Reported(ev)
  PROVE  ShadowInv'
<1>1. CacheInv' /\ RefreshInv' /\ FreshInv' /\ changed' \in Nat /\ changed' <= now'
  BY ChangeIsSafe DEF Close
<1>2. HerdrInv'
  BY <1>1 DEF Close, ShadowInv, HerdrInv
<1>3. closes' = closes \cup E /\ UNCHANGED <<lock, pc, seen, snapshot, prev>>
  BY DEF Close, cache
<1>4. LockInv'
  <2>1. lock # None => \A ev \in E : ev.losses >= 1
    BY DEF Reported
  <2>2. QED
    BY <1>3, <2>1, RefresherAssumption DEF ShadowInv, LockInv
<1>5. CloseInv'
  BY <1>3 DEF ShadowInv, CloseInv, Reported, Has
<1>6. QED
  BY <1>1, <1>2, <1>4, <1>5 DEF ShadowInv

LEMMA UserIsSafe == ASSUME ShadowInv, User PROVE ShadowInv'
<1>0. live \subseteq Panes
  BY DEF ShadowInv, HerdrInv
<1>1. ASSUME NEW p \in Panes, Open(p) PROVE ShadowInv'
  BY <1>1, OpenIsSafe
<1>2. ASSUME NEW p \in Panes PROVE \A ev \in Emptied(p) : Reported(ev)
  BY <1>2, ReportIs DEF Emptied, CLOSE_EVENTS
<1>3. ASSUME NEW p \in Panes, ClosePane(p) PROVE ShadowInv'
  <2>1. Reported(Report("pane.closed", p, None, Home[p].workspace))
    BY ReportIs DEF CLOSE_EVENTS
  <2>2. QED
    BY <1>2, <1>3, <2>1, CloseIsSafe DEF ClosePane
<1>4. ASSUME NEW p \in Panes, ExitPane(p) PROVE ShadowInv'
  <2>1. Reported(Report("pane.exited", p, Home[p].tab, Home[p].workspace))
    BY ReportIs DEF CLOSE_EVENTS
  <2>2. QED
    BY <1>2, <1>4, <2>1, CloseIsSafe DEF ExitPane
<1>5. ASSUME NEW t, CloseTab(t) PROVE ShadowInv'
  <2>1. Reported(Report("tab.closed", None, t, WorkspaceOf[t]))
    BY ReportIs DEF CLOSE_EVENTS
  <2>2. QED
    BY <1>5, <2>1, CloseIsSafe DEF CloseTab
<1>6. ASSUME NEW t, CloseWorkspace(t) PROVE ShadowInv'
  <2>1. Reported(Report("workspace.closed", None, t, WorkspaceOf[t]))
    BY ReportIs DEF CLOSE_EVENTS
  <2>2. QED
    BY <1>6, <2>1, CloseIsSafe DEF CloseWorkspace
<1>7. QED
  BY <1>1, <1>3, <1>4, <1>5, <1>6 DEF User

(***************************************************************************)
(* The hooks.                                                              *)
(***************************************************************************)
LEMMA SeedIsSafe == ASSUME ShadowInv, NEW e \in created, seed_from_event(e) PROVE ShadowInv'
<1>1. /\ snapshot' = Merge(e) /\ created' = created \ {e} /\ lock = None
      /\ merged' = merged \cup (IF e.kind = "pane" THEN {e.id} ELSE {})
      /\ UNCHANGED <<now, live, unborn, prev, lock, pc, seen, closes, changed, newest, partial>>
  BY DEF seed_from_event, Unlocked
<1>2. IsCreate(e) /\ IsSnapshot(snapshot)
  BY DEF ShadowInv, HerdrInv, CacheInv
<1>3. /\ IsSnapshot(snapshot') /\ snapshot'.taken_at_ms = snapshot.taken_at_ms
      /\ AllPanes(snapshot) \subseteq AllPanes(snapshot')
      /\ AllPanes(snapshot') \subseteq AllPanes(snapshot) \cup (IF e.kind = "pane" THEN {e.id} ELSE {})
  BY <1>1, <1>2, MergeGrows
<1>4. HerdrInv'
  BY <1>1 DEF ShadowInv, HerdrInv
<1>5. CacheInv'
  BY <1>1, <1>3 DEF ShadowInv, CacheInv
<1>6. RefreshInv'
  BY <1>1 DEF ShadowInv, RefreshInv
<1>7. LockInv'
  BY <1>1, RefresherAssumption DEF ShadowInv, LockInv
<1>8. CloseInv'
  BY <1>1, <1>3 DEF ShadowInv, CloseInv, Has
<1>9. FreshInv'
  <2>1. \A r \in Refreshers : Accurate(r)'
    BY <1>1 DEF ShadowInv, FreshInv, Accurate
  <2>2. newest' = snapshot'.taken_at_ms
    BY <1>1, <1>3 DEF ShadowInv, FreshInv
  <2>3. partial' = FALSE /\ newest' > changed' =>
          live \subseteq AllPanes(snapshot) /\ AllPanes(snapshot) \subseteq live \cup merged
    BY <1>1 DEF ShadowInv, FreshInv
  <2>4. QED
    BY <1>1, <1>3, <2>1, <2>2, <2>3 DEF FreshInv
<1>10. QED
  BY <1>4, <1>5, <1>6, <1>7, <1>8, <1>9 DEF ShadowInv

LEMMA CloseHookIsSafe == ASSUME ShadowInv, NEW ev \in closes, CloseHook(ev) PROVE ShadowInv'
<1>1. closes' = closes \ {ev} /\ lock' = lock /\ UNCHANGED <<now, herdr, cache, pc, seen, history>>
  BY DEF CloseHook, Unlocked
<1>2. HerdrInv' /\ CacheInv' /\ RefreshInv'
  BY <1>1 DEF ShadowInv, HerdrInv, CacheInv, RefreshInv, herdr, cache
<1>3. LockInv' /\ CloseInv'
  BY <1>1 DEF ShadowInv, LockInv, CloseInv, Has, cache
<1>4. FreshInv'
  BY <1>1 DEF ShadowInv, FreshInv, Accurate, herdr, cache, history
<1>5. QED
  BY <1>2, <1>3, <1>4 DEF ShadowInv

(***************************************************************************)
(* A refresh.                                                              *)
(***************************************************************************)
\* The steps that only bring refresher r further: to is where, is what it has.
LEMMA StepIsSafe ==
  ASSUME ShadowInv, NEW r \in Refreshers, NEW to \in Steps, NEW is \in Lists,
         is.taken_at_ms <= now,
         pc' = [pc EXCEPT ![r] = to], seen' = [seen EXCEPT ![r] = is],
         pc[r] # "write", to # "write", Accurate(r)',
         UNCHANGED <<now, herdr, cache, lock, closes, history>>
  PROVE  ShadowInv'
<1>1. /\ pc' \in [Refreshers -> Steps] /\ pc'[r] = to
      /\ \A s \in Refreshers \ {r} : pc'[s] = pc[s]
  BY DEF ShadowInv, RefreshInv
<1>2. /\ seen' \in [Refreshers -> Lists] /\ seen'[r] = is
      /\ \A s \in Refreshers \ {r} : seen'[s] = seen[s]
  BY DEF ShadowInv, RefreshInv
<1>3. HerdrInv' /\ CacheInv'
  BY DEF ShadowInv, HerdrInv, CacheInv, herdr, cache
<1>4. RefreshInv'
  BY <1>1, <1>2 DEF ShadowInv, RefreshInv
<1>5. lock # r
  BY DEF ShadowInv, LockInv
<1>6. LockInv'
  BY <1>1, <1>2, <1>5 DEF ShadowInv, LockInv, cache
<1>7. CloseInv'
  BY DEF ShadowInv, CloseInv, Has, cache
<1>8. FreshInv'
  <2>1. ASSUME NEW s \in Refreshers \ {r} PROVE Accurate(s)'
    BY <1>1, <1>2, <2>1 DEF ShadowInv, FreshInv, Accurate, herdr
  <2>2. QED
    BY <2>1 DEF ShadowInv, FreshInv, herdr, cache, history
<1>9. QED
  BY <1>3, <1>4, <1>6, <1>7, <1>8 DEF ShadowInv

LEMMA NothingIs == Nothing \in Lists /\ Nothing.taken_at_ms = 0
  BY DEF Nothing, Lists

LEMMA StartIsSafe ==
  ASSUME ShadowInv, NEW r \in Refreshers, refresh_if_stale(r) \/ StartRefresh(r)
  PROVE  ShadowInv'
<1>1. pc[r] = "idle" /\ seen[r] \in Lists /\ seen[r].taken_at_ms <= now /\ now \in Nat
      /\ pc \in [Refreshers -> Steps] /\ seen \in [Refreshers -> Lists]
  BY DEF refresh_if_stale, StartRefresh, ShadowInv, RefreshInv, HerdrInv
<1>2. CASE refresh_if_stale(r)
  <2>1. seen' = [seen EXCEPT ![r] = seen[r]] /\ pc' = [pc EXCEPT ![r] = "done"]
        /\ UNCHANGED <<now, herdr, cache, lock, closes, history>>
    BY <1>1, <1>2 DEF refresh_if_stale, Goto
  <2>2. Accurate(r)'
    BY <1>1, <2>1 DEF Accurate
  <2>3. QED
    BY <1>1, <2>1, <2>2, StepIsSafe DEF Steps
<1>3. CASE StartRefresh(r)
  <2> DEFINE is == [seen[r] EXCEPT !.taken_at_ms = now]
  <2>1. seen' = [seen EXCEPT ![r] = is] /\ pc' = [pc EXCEPT ![r] = "workspaces"]
        /\ UNCHANGED <<now, herdr, cache, lock, closes, history>>
    BY <1>1, <1>3 DEF StartRefresh, Goto
  <2>2. is \in Lists /\ is.taken_at_ms <= now
    BY <1>1 DEF Lists
  <2> HIDE DEF is
  <2>3. Accurate(r)'
    BY <1>1, <2>1 DEF Accurate
  <2>4. QED
    BY <1>1, <2>1, <2>2, <2>3, StepIsSafe DEF Steps
<1>4. QED
  BY <1>2, <1>3

LEMMA FailedListIsSafe ==
  ASSUME ShadowInv, NEW r \in Refreshers, NEW to \in Steps, to # "write", pc[r] # "write",
         seen' = [seen EXCEPT ![r].failed = TRUE], Goto(r, to),
         UNCHANGED <<now, herdr, cache, lock, closes, history>>
  PROVE  ShadowInv'
<1> DEFINE is == [seen[r] EXCEPT !.failed = TRUE]
<1>1. seen[r] \in Lists /\ seen[r].taken_at_ms <= now /\ seen \in [Refreshers -> Lists]
  BY DEF ShadowInv, RefreshInv
<1>2. is \in Lists /\ is.taken_at_ms = seen[r].taken_at_ms /\ is.failed = TRUE
  BY <1>1 DEF Lists
<1>3. seen' = [seen EXCEPT ![r] = is] /\ seen'[r] = is
  BY <1>1
<1> HIDE DEF is
<1>4. Accurate(r)'
  BY <1>2, <1>3 DEF Accurate
<1>5. QED
  BY <1>1, <1>2, <1>3, <1>4, StepIsSafe DEF Goto

LEMMA ListWorkspacesIsSafe ==
  ASSUME ShadowInv, NEW r \in Refreshers, ListWorkspaces(r) PROVE ShadowInv'
<1>1. /\ pc[r] = "workspaces" /\ Goto(r, "tabs")
      /\ UNCHANGED <<now, herdr, cache, lock, closes, history>>
      /\ \/ seen' = [seen EXCEPT ![r]["workspaces"] = WorkspacesOf(live)]
         \/ seen' = [seen EXCEPT ![r].failed = TRUE]
  BY DEF ListWorkspaces, List
<1>2. CASE seen' = [seen EXCEPT ![r].failed = TRUE]
  BY <1>1, <1>2, FailedListIsSafe DEF Steps
<1>3. CASE seen' = [seen EXCEPT ![r]["workspaces"] = WorkspacesOf(live)]
  <2> DEFINE is == [seen[r] EXCEPT !["workspaces"] = WorkspacesOf(live)]
  <2>1. seen[r] \in Lists /\ seen[r].taken_at_ms <= now /\ seen \in [Refreshers -> Lists]
        /\ pc \in [Refreshers -> Steps] /\ live \subseteq Panes
    BY DEF ShadowInv, RefreshInv, HerdrInv
  <2>2. WorkspacesOf(live) \in SUBSET WorkspacesOf(Panes)
    BY <2>1 DEF WorkspacesOf
  <2>3. is \in Lists /\ is.taken_at_ms = seen[r].taken_at_ms /\ is.workspaces = WorkspacesOf(live)
    BY <2>1, <2>2 DEF Lists
  <2>4. seen' = [seen EXCEPT ![r] = is] /\ seen'[r] = is
    BY <1>3, <2>1
  <2> HIDE DEF is
  <2>5. pc' = [pc EXCEPT ![r] = "tabs"] /\ pc'[r] = "tabs" /\ live' = live
    BY <1>1, <2>1 DEF Goto, herdr
  <2>6. Accurate(r)'
    BY <2>3, <2>4, <2>5 DEF Accurate
  <2>7. QED
    BY <1>1, <2>1, <2>3, <2>4, <2>5, <2>6, StepIsSafe DEF Steps
<1>4. QED
  BY <1>1, <1>2, <1>3

LEMMA ListTabsIsSafe ==
  ASSUME ShadowInv, NEW r \in Refreshers, ListTabs(r) PROVE ShadowInv'
<1>1. /\ pc[r] = "tabs" /\ Goto(r, "panes")
      /\ UNCHANGED <<now, herdr, cache, lock, closes, history>>
      /\ \/ seen' = [seen EXCEPT ![r]["tabs"] = TabsOf(live)]
         \/ seen' = [seen EXCEPT ![r].failed = TRUE]
  BY DEF ListTabs, List
<1>2. CASE seen' = [seen EXCEPT ![r].failed = TRUE]
  BY <1>1, <1>2, FailedListIsSafe DEF Steps
<1>3. CASE seen' = [seen EXCEPT ![r]["tabs"] = TabsOf(live)]
  <2> DEFINE is == [seen[r] EXCEPT !["tabs"] = TabsOf(live)]
  <2>1. seen[r] \in Lists /\ seen[r].taken_at_ms <= now /\ seen \in [Refreshers -> Lists]
        /\ pc \in [Refreshers -> Steps] /\ live \subseteq Panes /\ Accurate(r)
    BY DEF ShadowInv, RefreshInv, HerdrInv, FreshInv
  <2>2. TabsOf(live) \in SUBSET TabsOf(Panes)
    BY <2>1 DEF TabsOf
  <2>3. /\ is \in Lists /\ is.taken_at_ms = seen[r].taken_at_ms /\ is.tabs = TabsOf(live)
        /\ is.workspaces = seen[r].workspaces /\ is.failed = seen[r].failed
    BY <2>1, <2>2 DEF Lists
  <2>4. seen' = [seen EXCEPT ![r] = is] /\ seen'[r] = is
    BY <1>3, <2>1
  <2> HIDE DEF is
  <2>5. /\ pc' = [pc EXCEPT ![r] = "panes"] /\ pc'[r] = "panes"
        /\ live' = live /\ changed' = changed
    BY <1>1, <2>1 DEF Goto, herdr
  <2>6. Accurate(r)'
    BY <1>1, <2>1, <2>3, <2>4, <2>5 DEF Accurate
  <2>7. QED
    BY <1>1, <2>1, <2>3, <2>4, <2>5, <2>6, StepIsSafe DEF Steps
<1>4. QED
  BY <1>1, <1>2, <1>3

LEMMA ListPanesIsSafe ==
  ASSUME ShadowInv, NEW r \in Refreshers, ListPanes(r) PROVE ShadowInv'
<1>1. /\ pc[r] = "panes" /\ Goto(r, "sample")
      /\ UNCHANGED <<now, herdr, cache, lock, closes, history>>
      /\ \/ seen' = [seen EXCEPT ![r]["panes"] = live]
         \/ seen' = [seen EXCEPT ![r].failed = TRUE]
  BY DEF ListPanes, List
<1>2. CASE seen' = [seen EXCEPT ![r].failed = TRUE]
  BY <1>1, <1>2, FailedListIsSafe DEF Steps
<1>3. CASE seen' = [seen EXCEPT ![r]["panes"] = live]
  <2> DEFINE is == [seen[r] EXCEPT !["panes"] = live]
  <2>1. seen[r] \in Lists /\ seen[r].taken_at_ms <= now /\ seen \in [Refreshers -> Lists]
        /\ pc \in [Refreshers -> Steps] /\ live \subseteq Panes /\ Accurate(r)
    BY DEF ShadowInv, RefreshInv, HerdrInv, FreshInv
  <2>2. /\ is \in Lists /\ is.taken_at_ms = seen[r].taken_at_ms /\ is.panes = live
        /\ is.workspaces = seen[r].workspaces /\ is.tabs = seen[r].tabs
        /\ is.failed = seen[r].failed
    BY <2>1 DEF Lists
  <2>3. seen' = [seen EXCEPT ![r] = is] /\ seen'[r] = is
    BY <1>3, <2>1
  <2> HIDE DEF is
  <2>4. /\ pc' = [pc EXCEPT ![r] = "sample"] /\ pc'[r] = "sample"
        /\ live' = live /\ changed' = changed
    BY <1>1, <2>1 DEF Goto, herdr
  <2>5. Accurate(r)'
    BY <1>1, <2>1, <2>2, <2>3, <2>4 DEF Accurate
  <2>6. QED
    BY <1>1, <2>1, <2>2, <2>3, <2>4, <2>5, StepIsSafe DEF Steps
<1>4. QED
  BY <1>1, <1>2, <1>3

LEMMA ReadHintIsSafe ==
  ASSUME ShadowInv, NEW r \in Refreshers, ReadHint(r) PROVE ShadowInv'
<1> DEFINE hint == Loses(r)
           is == [seen[r] EXCEPT !.hint = hint]
<1>1. /\ pc[r] = "sample" /\ Goto(r, "replace") /\ seen' = [seen EXCEPT ![r].hint = hint]
      /\ UNCHANGED <<now, herdr, cache, lock, closes, history>>
  BY DEF ReadHint
<1>2. hint \in BOOLEAN
  BY DEF Loses, lost_containers
<1> HIDE DEF hint
<1>3. seen[r] \in Lists /\ seen[r].taken_at_ms <= now /\ seen \in [Refreshers -> Lists]
      /\ pc \in [Refreshers -> Steps] /\ Accurate(r)
  BY DEF ShadowInv, RefreshInv, FreshInv
<1>4. /\ is \in Lists /\ is.taken_at_ms = seen[r].taken_at_ms /\ is.panes = seen[r].panes
      /\ is.workspaces = seen[r].workspaces /\ is.tabs = seen[r].tabs
      /\ is.failed = seen[r].failed
  BY <1>2, <1>3 DEF Lists
<1>5. seen' = [seen EXCEPT ![r] = is] /\ seen'[r] = is
  BY <1>1, <1>3
<1> HIDE DEF is
<1>6. /\ pc' = [pc EXCEPT ![r] = "replace"] /\ pc'[r] = "replace"
      /\ live' = live /\ changed' = changed
  BY <1>1, <1>3 DEF Goto, herdr
<1>7. Accurate(r)'
  BY <1>1, <1>3, <1>4, <1>5, <1>6 DEF Accurate
<1>8. QED
  BY <1>1, <1>3, <1>4, <1>5, <1>6, <1>7, StepIsSafe DEF Steps

LEMMA GiveWayIsSafe ==
  ASSUME ShadowInv, NEW r \in Refreshers, GiveWay(r) PROVE ShadowInv'
<1>1. /\ pc[r] = "replace" /\ pc' = [pc EXCEPT ![r] = "done"]
      /\ seen' = [seen EXCEPT ![r] = Nothing] /\ lock' = lock
      /\ UNCHANGED <<now, herdr, cache, closes, history>>
  BY DEF GiveWay, Unlocked, Goto
<1>2. pc \in [Refreshers -> Steps] /\ now \in Nat
  BY DEF ShadowInv, RefreshInv, HerdrInv
<1>3. Accurate(r)'
  BY <1>1, <1>2 DEF Accurate
<1>4. Nothing \in Lists /\ Nothing.taken_at_ms <= now
  BY <1>2, NothingIs
<1>5. UNCHANGED <<now, herdr, cache, lock, closes, history>>
  BY <1>1
<1>6. pc[r] # "write" /\ "done" \in Steps /\ "done" # "write"
  BY <1>1 DEF Steps
<1>7. QED
  BY <1>1, <1>3, <1>4, <1>5, <1>6, StepIsSafe

\* What refresher r is about to write.
LEMMA MineIs ==
  ASSUME ShadowInv, NEW r \in Refreshers
  PROVE  /\ IsSnapshot(Mine(r)) /\ Mine(r).taken_at_ms = seen[r].taken_at_ms
         /\ ~Loses(r) => AllPanes(snapshot) \subseteq AllPanes(Mine(r))
<1>1. seen[r] \in Lists
  BY DEF ShadowInv, RefreshInv
<1>2. /\ seen[r].workspaces \in SUBSET WorkspacesOf(Panes) /\ seen[r].tabs \in SUBSET TabsOf(Panes)
      /\ seen[r].panes \in SUBSET Panes /\ seen[r].taken_at_ms \in Nat
  BY <1>1 DEF Lists
<1>3. IsSnapshot(Mine(r)) /\ Mine(r).taken_at_ms = seen[r].taken_at_ms
  BY <1>2, AssembleIsPlaced DEF Mine
<1>4. ~Loses(r) => AllPanes(snapshot) \subseteq AllPanes(Mine(r))
  <2>1. snapshot.workspaces = {} => AllPanes(snapshot) = {}
    BY DEF AllPanes
  <2>2. QED
    BY <2>1 DEF Loses, lost_containers
<1>5. QED
  BY <1>3, <1>4

\* The old snapshot is put by before anything of it is dropped.
LEMMA KeepPreviousIsSafe ==
  ASSUME ShadowInv, NEW r \in Refreshers, KeepPrevious(r) PROVE ShadowInv'
<1> DEFINE More(ev) == [ev EXCEPT !.losses = IF @ < 2 THEN @ + 1 ELSE @]
<1>1. /\ pc[r] = "replace" /\ lock = None /\ lock' = r /\ prev' = snapshot
      /\ closes' = {More(ev) : ev \in closes} /\ pc' = [pc EXCEPT ![r] = "write"]
      /\ UNCHANGED <<now, herdr, snapshot, seen, history>>
  BY DEF KeepPrevious, Goto
<1>2. snapshot.taken_at_ms <= seen[r].taken_at_ms
  <2>1. ~(snapshot.taken_at_ms > seen[r].taken_at_ms)
    BY MineIs DEF KeepPrevious, NewerWon
  <2>2. snapshot.taken_at_ms \in Nat /\ seen[r].taken_at_ms \in Nat
    BY DEF ShadowInv, CacheInv, IsSnapshot, RefreshInv, Lists
  <2>3. QED
    BY <2>1, <2>2
<1>3. ASSUME NEW ev \in closes
      PROVE  /\ IsClose(More(ev)) /\ More(ev).known = ev.known
             /\ More(ev).losses = IF ev.losses < 2 THEN ev.losses + 1 ELSE ev.losses
             /\ More(ev).pane = ev.pane /\ More(ev).tab = ev.tab
  <2> DEFINE losses == IF ev.losses < 2 THEN ev.losses + 1 ELSE ev.losses
             more == [name |-> ev.name, pane |-> ev.pane, tab |-> ev.tab,
                      workspace |-> ev.workspace, known |-> ev.known, losses |-> losses]
  <2>1. IsClose(ev)
    BY DEF ShadowInv, CloseInv
  <2>2. losses \in 0 .. 2
    BY <2>1 DEF IsClose
  <2>3. More(ev) = more
    BY <2>1 DEF IsClose
  <2> HIDE DEF losses, More
  <2>4. /\ more.name = ev.name /\ more.pane = ev.pane /\ more.tab = ev.tab
        /\ more.workspace = ev.workspace /\ more.known = ev.known /\ more.losses = losses
    OBVIOUS
  <2> HIDE DEF more
  <2>5. IsClose(more)
    BY <2>1, <2>2, <2>4 DEF IsClose, more
  <2>6. QED
    BY <2>3, <2>4, <2>5 DEF losses
<1> HIDE DEF More
<1>4. ASSUME NEW new \in closes'
      PROVE  \E ev \in closes : /\ IsClose(new) /\ new.known = ev.known
                                /\ new.losses = IF ev.losses < 2 THEN ev.losses + 1 ELSE ev.losses
                                /\ Named(new) = Named(ev)
  <2>1. PICK ev \in closes : new = More(ev)
    BY <1>1
  <2>2. Named(new) = Named(ev)
    BY <1>3, <2>1 DEF Named
  <2>3. QED
    BY <1>3, <2>1, <2>2
<1>5. \A ev \in closes : ev.losses \in 0 .. 2
  BY DEF ShadowInv, CloseInv, IsClose
<1>6. /\ pc' \in [Refreshers -> Steps] /\ pc'[r] = "write"
      /\ \A s \in Refreshers \ {r} : pc'[s] = pc[s]
  BY <1>1 DEF ShadowInv, RefreshInv, Steps
<1>7. HerdrInv'
  BY <1>1 DEF ShadowInv, HerdrInv, herdr
<1>8. CacheInv'
  BY <1>1 DEF ShadowInv, CacheInv
<1>9. RefreshInv'
  BY <1>1, <1>6 DEF ShadowInv, RefreshInv
<1>10. LockInv'
  <2>1. \A s \in Refreshers : pc'[s] = "write" => s = r
    BY <1>1, <1>6, RefresherAssumption DEF ShadowInv, LockInv
  <2>2. \A ev \in closes' : ev.losses >= 1
    BY <1>4, <1>5
  <2>3. QED
    BY <1>1, <1>2, <1>6, <2>1, <2>2 DEF LockInv
<1>11. CloseInv'
  <2> SUFFICES ASSUME NEW new \in closes'
               PROVE  /\ IsClose(new)
                      /\ new.known = TRUE /\ new.losses = 0 => Has(snapshot', new)
                      /\ new.known = TRUE /\ new.losses = 1 => Has(snapshot', new) \/ Has(prev', new)
    BY DEF CloseInv
  <2>1. PICK ev \in closes : /\ IsClose(new) /\ new.known = ev.known
                             /\ new.losses = IF ev.losses < 2 THEN ev.losses + 1 ELSE ev.losses
                             /\ Named(new) = Named(ev)
    BY <1>4
  <2>2. new.losses # 0 /\ (new.losses = 1 => ev.losses = 0)
    BY <1>5, <2>1
  <2>3. ev.known = TRUE /\ ev.losses = 0 => Has(snapshot, ev)
    BY DEF ShadowInv, CloseInv
  <2>4. Has(snapshot, ev) => Has(prev', new)
    BY <1>1, <2>1 DEF Has
  <2>5. QED
    BY <2>1, <2>2, <2>3, <2>4
<1>12. FreshInv'
  <2>1. \A s \in Refreshers : Accurate(s)'
    BY <1>1, <1>6 DEF ShadowInv, FreshInv, Accurate, herdr
  <2>2. QED
    BY <1>1, <2>1 DEF ShadowInv, FreshInv, herdr, history
<1>13. QED
  BY <1>7, <1>8, <1>9, <1>10, <1>11, <1>12 DEF ShadowInv

\* The lists of r become the snapshot: at once, or with the old one put by.
LEMMA ReplaceIsSafe ==
  ASSUME ShadowInv, NEW r \in Refreshers, Replace(r) PROVE ShadowInv'
<1>1. /\ \/ pc[r] = "write" /\ lock = r
         \/ pc[r] = "replace" /\ lock = None /\ ~NewerWon(r) /\ ~Loses(r)
      /\ lock' = None /\ snapshot' = Mine(r)
      /\ newest' = IF seen[r].taken_at_ms > newest THEN seen[r].taken_at_ms ELSE newest
      /\ merged' = {} /\ partial' = seen[r].failed /\ pc' = [pc EXCEPT ![r] = "done"]
      /\ seen' = [seen EXCEPT ![r] = Nothing]
      /\ UNCHANGED <<now, herdr, prev, closes>>
  BY DEF Replace, Unlocked, Goto, LosesWhatIsThere
<1>2. /\ IsSnapshot(snapshot') /\ snapshot'.taken_at_ms = seen[r].taken_at_ms
      /\ seen[r].taken_at_ms <= now /\ seen[r].taken_at_ms \in Nat /\ snapshot.taken_at_ms \in Nat
      /\ newest = snapshot.taken_at_ms
  BY <1>1, MineIs DEF ShadowInv, RefreshInv, Lists, CacheInv, IsSnapshot, FreshInv
<1>3. snapshot.taken_at_ms <= seen[r].taken_at_ms
  <2>1. CASE lock = r
    BY <2>1 DEF ShadowInv, LockInv
  <2>2. CASE ~NewerWon(r)
    BY <1>2, <2>2, MineIs DEF NewerWon
  <2>3. QED
    BY <1>1, <2>1, <2>2
<1>4. /\ pc' \in [Refreshers -> Steps] /\ pc'[r] = "done"
      /\ \A s \in Refreshers \ {r} : pc'[s] = pc[s]
  BY <1>1 DEF ShadowInv, RefreshInv, Steps
<1>5. /\ seen' \in [Refreshers -> Lists] /\ seen'[r] = Nothing
      /\ \A s \in Refreshers \ {r} : seen'[s] = seen[s]
  BY <1>1, NothingIs DEF ShadowInv, RefreshInv
<1>6. HerdrInv'
  BY <1>1 DEF ShadowInv, HerdrInv, herdr
<1>7. CacheInv'
  BY <1>1, <1>2 DEF ShadowInv, CacheInv
<1>8. RefreshInv'
  BY <1>1, <1>4, <1>5, NothingIs DEF ShadowInv, RefreshInv, HerdrInv
<1>9. LockInv'
  <2>1. \A s \in Refreshers : pc'[s] # "write"
    BY <1>1, <1>4, RefresherAssumption DEF ShadowInv, LockInv
  <2>2. QED
    BY <1>1, <2>1, RefresherAssumption DEF LockInv
<1>10. CloseInv'
  <2> SUFFICES ASSUME NEW ev \in closes
               PROVE  /\ IsClose(ev)
                      /\ ev.known = TRUE /\ ev.losses = 0 => Has(snapshot', ev)
                      /\ ev.known = TRUE /\ ev.losses = 1 => Has(snapshot', ev) \/ Has(prev', ev)
    BY <1>1 DEF CloseInv
  <2>1. /\ IsClose(ev)
        /\ ev.known = TRUE /\ ev.losses = 0 => Has(snapshot, ev)
        /\ ev.known = TRUE /\ ev.losses = 1 => Has(snapshot, ev) \/ Has(prev, ev)
    BY DEF ShadowInv, CloseInv
  <2>2. CASE lock = r
    <3>1. prev = snapshot /\ ev.losses >= 1
      BY <2>2 DEF ShadowInv, LockInv
    <3>2. QED
      BY <1>1, <2>1, <3>1
  <2>3. CASE ~Loses(r)
    <3>1. Has(snapshot, ev) => Has(snapshot', ev)
      BY <1>1, <2>3, MineIs DEF Has
    <3>2. QED
      BY <1>1, <2>1, <3>1
  <2>4. QED
    BY <1>1, <2>2, <2>3
<1>11. FreshInv'
  <2>1. \A s \in Refreshers : Accurate(s)'
    <3>1. Accurate(r)'
      BY <1>4 DEF Accurate
    <3>2. ASSUME NEW s \in Refreshers \ {r} PROVE Accurate(s)'
      BY <1>1, <1>4, <1>5 DEF ShadowInv, FreshInv, Accurate, herdr
    <3>3. QED
      BY <3>1, <3>2
  <2>2. newest' = snapshot'.taken_at_ms
    BY <1>1, <1>2, <1>3
  <2>3. ASSUME partial' = FALSE, newest' > changed'
        PROVE  AllPanes(snapshot') = live'
    <3>1. seen[r].failed = FALSE /\ seen[r].taken_at_ms > changed /\ live' = live
      BY <1>1, <1>2, <2>2, <2>3 DEF herdr
    <3>2. /\ seen[r].workspaces = WorkspacesOf(live) /\ seen[r].tabs = TabsOf(live)
          /\ seen[r].panes = live
      BY <1>1, <3>1 DEF ShadowInv, FreshInv, Accurate
    <3>3. live \in SUBSET Panes
      BY DEF ShadowInv, HerdrInv
    <3>4. snapshot' = assemble(WorkspacesOf(live), TabsOf(live), live, seen[r].taken_at_ms)
      BY <1>1, <3>2 DEF Mine
    <3>5. QED
      BY <3>1, <3>3, <3>4, AssembleIsExact
  <2>4. QED
    BY <2>1, <2>2, <2>3 DEF FreshInv
<1>12. QED
  BY <1>6, <1>7, <1>8, <1>9, <1>10, <1>11 DEF ShadowInv

LEMMA DieIsSafe == ASSUME ShadowInv, NEW r \in Refreshers, Die(r) PROVE ShadowInv'
<1>1. /\ pc[r] = "write" /\ lock = r /\ lock' = None
      /\ pc' = [pc EXCEPT ![r] = "done"] /\ seen' = [seen EXCEPT ![r] = Nothing]
      /\ UNCHANGED <<now, herdr, cache, closes, history>>
  BY DEF Die, Goto
<1>2. /\ pc' \in [Refreshers -> Steps] /\ pc'[r] = "done"
      /\ \A s \in Refreshers \ {r} : pc'[s] = pc[s]
  BY <1>1 DEF ShadowInv, RefreshInv, Steps
<1>3. /\ seen' \in [Refreshers -> Lists] /\ seen'[r] = Nothing
      /\ \A s \in Refreshers \ {r} : seen'[s] = seen[s]
  BY <1>1, NothingIs DEF ShadowInv, RefreshInv
<1>4. HerdrInv' /\ CacheInv' /\ CloseInv'
  BY <1>1 DEF ShadowInv, HerdrInv, CacheInv, CloseInv, Has, herdr, cache
<1>5. RefreshInv'
  BY <1>1, <1>2, <1>3, NothingIs DEF ShadowInv, RefreshInv, HerdrInv
<1>6. LockInv'
  <2>1. \A s \in Refreshers : pc'[s] # "write"
    BY <1>1, <1>2 DEF ShadowInv, LockInv
  <2>2. QED
    BY <1>1, <2>1, RefresherAssumption DEF LockInv
<1>7. FreshInv'
  <2>1. Accurate(r)'
    BY <1>2 DEF Accurate
  <2>2. ASSUME NEW s \in Refreshers \ {r} PROVE Accurate(s)'
    BY <1>1, <1>2, <1>3 DEF ShadowInv, FreshInv, Accurate, herdr
  <2>3. QED
    BY <1>1, <2>1, <2>2 DEF ShadowInv, FreshInv, herdr, cache, history
<1>8. QED
  BY <1>4, <1>5, <1>6, <1>7 DEF ShadowInv

LEMMA TickIsSafe == ASSUME ShadowInv, Tick PROVE ShadowInv'
<1>1. now' = now + 1 /\ now \in Nat /\ UNCHANGED <<herdr, cache, lock, pc, seen, closes, history>>
  BY DEF Tick, ShadowInv, HerdrInv
<1>2. HerdrInv'
  BY <1>1 DEF ShadowInv, HerdrInv, herdr
<1>3. CacheInv'
  BY <1>1 DEF ShadowInv, CacheInv, IsSnapshot, cache
<1>4. RefreshInv'
  <2>1. \A r \in Refreshers : seen[r].taken_at_ms \in Nat /\ seen[r].taken_at_ms <= now
    BY DEF ShadowInv, RefreshInv, Lists
  <2>2. QED
    BY <1>1, <2>1 DEF ShadowInv, RefreshInv
<1>5. LockInv' /\ CloseInv'
  BY <1>1 DEF ShadowInv, LockInv, CloseInv, Has, cache
<1>6. FreshInv'
  BY <1>1 DEF ShadowInv, FreshInv, Accurate, herdr, cache, history
<1>7. QED
  BY <1>2, <1>3, <1>4, <1>5, <1>6 DEF ShadowInv

LEMMA ShadowStep == ShadowInv /\ [Next]_vars => ShadowInv'
<1> SUFFICES ASSUME ShadowInv, [Next]_vars PROVE ShadowInv'
  OBVIOUS
<1>1. ASSUME NEW r \in Refreshers, refresh(r) PROVE ShadowInv'
  BY <1>1, StartIsSafe, ListWorkspacesIsSafe, ListTabsIsSafe, ListPanesIsSafe,
     ReadHintIsSafe, GiveWayIsSafe, KeepPreviousIsSafe, ReplaceIsSafe DEF refresh
<1>2. CASE UNCHANGED vars
  <2>1. UNCHANGED <<now, live, unborn, created, changed, snapshot, prev, lock, pc, seen,
                    closes, newest, merged, partial>>
    BY <1>2 DEF vars, herdr, cache, history
  <2>2. HerdrInv' /\ CacheInv' /\ RefreshInv' /\ LockInv' /\ CloseInv'
    BY <2>1 DEF ShadowInv, HerdrInv, CacheInv, RefreshInv, LockInv, CloseInv, Has
  <2>3. FreshInv'
    BY <2>1 DEF ShadowInv, FreshInv, Accurate
  <2>4. QED
    BY <2>2, <2>3 DEF ShadowInv
<1>3. QED
  BY <1>1, <1>2, UserIsSafe, SeedIsSafe, CloseHookIsSafe, DieIsSafe, TickIsSafe DEF Next

LEMMA ShadowAlways == Spec => []ShadowInv
<1>1. QED
  BY ShadowInitially, ShadowStep, PTL DEF Spec

(***************************************************************************)
(* What it is for.                                                         *)
(***************************************************************************)
LEMMA WellFormedIs ==
  ASSUME NEW snap, IsSnapshot(snap), snap.taken_at_ms <= now, now \in Nat
  PROVE  WellFormed(snap)
BY DEF IsSnapshot, Placed, TabsPlaced, WellFormed

\* The two files are well-formed whatever hooks and refreshes wrote into them,
\* in whatever order (snapshot.rs: assemble, merge_workspace_created,
\* merge_tab_created, merge_pane_created).
THEOREM ShadowTypeCorrect == Spec => []TypeOK
<1>1. ShadowInv => TypeOK
  <2> SUFFICES ASSUME ShadowInv PROVE TypeOK
    OBVIOUS
  <2>1. live \subseteq Panes /\ unborn \subseteq Panes \ live
    BY DEF ShadowInv, HerdrInv
  <2>2. WellFormed(snapshot) /\ WellFormed(prev)
    BY WellFormedIs DEF ShadowInv, HerdrInv, CacheInv
  <2>3. lock \in Refreshers \cup {None} /\ pc \in [Refreshers -> Steps]
    BY DEF ShadowInv, RefreshInv, LockInv
  <2>4. \A r \in Refreshers : seen[r].panes \subseteq Panes
    BY DEF ShadowInv, RefreshInv, Lists
  <2>5. \A ev \in closes : ev.name \in CLOSE_EVENTS /\ ev.losses \in 0 .. 2
    BY DEF ShadowInv, CloseInv, IsClose
  <2>6. QED
    BY <2>1, <2>2, <2>3, <2>4, <2>5 DEF TypeOK, Steps
<1>2. QED
  BY <1>1, ShadowAlways, PTL

\* A refresh that began before another one's change never covers a newer
\* snapshot, however many overlap and wherever they die (refresh compares
\* taken_at_ms under the lock).
THEOREM FreshSnapshotsAreExact == Spec => []FreshIsExact
<1>1. ShadowInv => FreshIsExact
  <2> SUFFICES ASSUME ShadowInv, newest > changed, ~partial
               PROVE  live \subseteq AllPanes(snapshot) /\ AllPanes(snapshot) \subseteq live \cup merged
    BY DEF FreshIsExact
  <2>1. QED
    BY DEF ShadowInv, FreshInv
<1>2. QED
  BY <1>1, ShadowAlways, PTL

\* The pane a pane.closed event names is in what its hook freezes.
LEMMA FrozenHas ==
  ASSUME NEW ev, ev.pane \in Panes, ev.tab = None,
         HasPane(snapshot.workspaces, ev.pane) \/ HasPane(prev.workspaces, ev.pane)
  PROVE  HasPane(Frozen(ev), ev.pane)
<1> DEFINE best == best_snapshot(snapshot.workspaces, prev.workspaces, ev)
<1>1. ev.pane # None
  BY HomeOfTab
<1>2. \A snap : knows(snap, ev) <=> HasPane(snap, ev.pane)
  BY <1>1 DEF knows, HasTab
<1>3. HasPane(best, ev.pane)
  BY <1>2 DEF best_snapshot
<1> HIDE DEF best
<1>4. PICK w \in best : ev.pane \in PanesOf(w)
  BY <1>3 DEF HasPane
<1>5. w \in freeze_for(best, ev)
  BY <1>1, <1>4 DEF freeze_for, HasPane
<1>6. QED
  BY <1>1, <1>4, <1>5 DEF Frozen, HasPane, best

\* What was known when it was closed survives one loss, and any number of
\* refreshes that lose nothing, in a file its hook will read (refresh's second
\* read under the lock and snapshot.prev.json, best_snapshot in close.rs).
THEOREM ClosedPanesAreRemembered == Spec => []ClosedIsRemembered
<1>1. ShadowInv => ClosedIsRemembered
  <2> SUFFICES ASSUME ShadowInv, NEW ev \in closes, ev.known, ev.losses <= 1
               PROVE  /\ Remembers(snapshot.workspaces, ev) \/ Remembers(prev.workspaces, ev)
                      /\ ev.name = "pane.closed" => HasPane(Frozen(ev), ev.pane)
    BY DEF ClosedIsRemembered
  <2>1. IsClose(ev) /\ IsSnapshot(snapshot) /\ IsSnapshot(prev)
    BY DEF ShadowInv, CloseInv, CacheInv
  <2>2. Has(snapshot, ev) \/ Has(prev, ev)
    <3>1. ev.losses = 0 \/ ev.losses = 1
      BY <2>1 DEF IsClose
    <3>2. ev.known = TRUE
      BY <2>1 DEF IsClose
    <3>3. QED
      BY <3>1, <3>2 DEF ShadowInv, CloseInv
  <2>3. Remembers(snapshot.workspaces, ev) \/ Remembers(prev.workspaces, ev)
    BY <2>1, <2>2, RemembersIsHas DEF IsClose
  <2>4. ASSUME ev.name = "pane.closed" PROVE HasPane(Frozen(ev), ev.pane)
    <3>1. ev.pane \in Panes /\ ev.tab = None /\ ev.pane # None
      BY <2>1, <2>4, HomeOfTab DEF IsClose
    <3>2. HasPane(snapshot.workspaces, ev.pane) \/ HasPane(prev.workspaces, ev.pane)
      BY <2>3, <3>1 DEF Remembers
    <3>3. QED
      BY <3>1, <3>2, FrozenHas
  <2>5. QED
    BY <2>3, <2>4
<1>2. QED
  BY <1>1, ShadowAlways, PTL

============================================================================
