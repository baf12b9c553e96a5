-------------------------------- MODULE Shadow --------------------------------
(***************************************************************************)
(* The shadow cache: snapshot.json and snapshot.prev.json.  A close event  *)
(* names only ids, and the pane is gone when its hook runs, so the hook    *)
(* needs a snapshot taken before.  Refreshes of several processes overlap: *)
(* each lists workspaces, tabs and panes one call after the other, while   *)
(* herdr changes, and then replaces the snapshot under the lock.  Create   *)
(* events are merged into the snapshot by hooks of their own.              *)
(*                                                                         *)
(* Snapshots have the shape Close reads.  What runs in a pane, the layout  *)
(* of a tab and the order of tabs are left out; panes do not move and ids  *)
(* are not used again.                                                     *)
(***************************************************************************)
EXTENDS Close

CONSTANTS
  Home,           \* each pane's [tab, workspace]
  AtStart,        \* the panes that exist in the beginning
  Refreshers,     \* processes that refresh once
  Eager,          \* those of them that do not ask refresh_if_stale first
  StaleAfter,     \* refresh_if_stale's ttl
  Gestures,       \* the names of the close events herdr may send
  MaxNow,         \* bound: the clock
  MaxChanges,     \* bound: what the user does
  MaxFailures,    \* bound: list calls that fail
  MaxDeaths       \* bound: refreshers killed

Panes == DOMAIN Home

ASSUME HomeAssumption ==
  /\ AtStart \subseteq Panes /\ None \notin Panes
  /\ \A p \in Panes : DOMAIN Home[p] = {"tab", "workspace"} /\ None \notin {Home[p].tab, Home[p].workspace}
  /\ \A p, q \in Panes : Home[p].tab = Home[q].tab => Home[p] = Home[q]
ASSUME RefresherAssumption ==
  Eager \subseteq Refreshers /\ None \notin Refreshers /\ Gestures \subseteq CLOSE_EVENTS
ASSUME ShadowBounds ==
  {StaleAfter, MaxNow, MaxChanges, MaxFailures, MaxDeaths} \subseteq Nat

VARIABLES
  now,
  live,        \* the panes that exist in herdr
  unborn,      \* the panes not created yet
  snapshot,    \* snapshot.json: [taken_at_ms, workspaces]
  prev,        \* snapshot.prev.json
  lock,        \* holder of reopen.lock
  pc,          \* where each refresher is
  seen,        \* what each refresher has listed so far
  created,     \* create events whose hook has not run
  closes,      \* close events whose hook has not run, each with its history
  changed,     \* history: when herdr last changed
  newest,      \* history: when the newest refresh written so far began
  merged,      \* history: panes merged since the snapshot was last replaced
  partial,     \* history: a list call failed for the current snapshot
  changes, failures, deaths

herdr == <<live, unborn, created, changed, changes>>
cache == <<snapshot, prev>>
history == <<newest, merged, partial>>
vars == <<now, herdr, cache, lock, pc, seen, closes, history, failures, deaths>>

(***************************************************************************)
(* Snapshots.                                                              *)
(***************************************************************************)
EmptySnapshot == [taken_at_ms |-> 0, workspaces |-> {}]

TabsOf(P) == {Home[p].tab : p \in P}
WorkspacesOf(P) == {Home[p].workspace : p \in P}

\* The workspace each tab belongs to, as tab.list says.
WorkspaceOf ==
  [t \in TabsOf(Panes) |-> (CHOOSE h \in {Home[p] : p \in Panes} : h.tab = t).workspace]

assemble(ws, ts, ps, at) ==
  [taken_at_ms |-> at,
   workspaces  |->
     {[workspace_id |-> w,
       tabs |-> [t \in {x \in ts : WorkspaceOf[x] = w} |->
                   {p \in ps : Home[p].tab = t}]] : w \in ws}]

AllPanes(snap) == UNION {PanesOf(w) : w \in snap.workspaces}
AllWorkspaces(snap) == {w.workspace_id : w \in snap.workspaces}

lost_containers(before, after) ==
  \/ ~(AllPanes(before) \subseteq AllPanes(after))
  \/ ~(AllWorkspaces(before) \subseteq AllWorkspaces(after))

\* The tabs the snapshot has for workspace w, none if it does not know w.
TabsIn(snap, w) ==
  IF w \in AllWorkspaces(snap)
  THEN (CHOOSE x \in snap.workspaces : x.workspace_id = w).tabs
  ELSE << >>

\* A workspace the snapshot knows is added a second time.
WithTabs_twice(snap, w, tabs) ==
  [snap EXCEPT !.workspaces = @ \cup {[workspace_id |-> w, tabs |-> tabs]}]

WithTabs(snap, w, tabs) ==
  [snap EXCEPT !.workspaces =
     {x \in @ : x.workspace_id # w} \cup {[workspace_id |-> w, tabs |-> tabs]}]

AddPane(tabs, t, P) ==
  [x \in DOMAIN tabs \cup {t} |->
     (IF x \in DOMAIN tabs THEN tabs[x] ELSE {}) \cup (IF x = t THEN P ELSE {})]

merge_pane_created(snap, p) ==
  WithTabs(snap, Home[p].workspace,
           AddPane(TabsIn(snap, Home[p].workspace), Home[p].tab, {p}))

merge_tab_created(snap, t) ==
  IF WorkspaceOf[t] \in AllWorkspaces(snap)
  THEN WithTabs(snap, WorkspaceOf[t], AddPane(TabsIn(snap, WorkspaceOf[t]), t, {}))
  ELSE snap

merge_workspace_created(snap, w) == WithTabs(snap, w, TabsIn(snap, w))

(***************************************************************************)
(* herdr and its user.                                                     *)
(***************************************************************************)
Change == changes < MaxChanges /\ changes' = changes + 1 /\ changed' = now

CreateEvent(kind, id) == [kind |-> kind, id |-> id]

Open(p) ==
  /\ p \in unborn /\ Change
  /\ live' = live \cup {p} /\ unborn' = unborn \ {p}
  /\ created' = created
       \cup {CreateEvent("pane", p)}
       \cup {CreateEvent("tab", t) : t \in {Home[p].tab} \ TabsOf(live)}
       \cup {CreateEvent("workspace", w) : w \in {Home[p].workspace} \ WorkspacesOf(live)}
  /\ UNCHANGED <<now, cache, lock, pc, seen, closes, history, failures, deaths>>

\* Is what the event names in the snapshot, with the panes that belong to it?
Remembers(workspaces, ev) ==
  IF ev.pane # None
  THEN HasPane(workspaces, ev.pane)
  ELSE \E w \in workspaces : ev.tab \in DOMAIN w.tabs /\ w.tabs[ev.tab] # {}

Report(name, p, t, w) ==
  LET ev == [name |-> name, pane |-> p, tab |-> t, workspace |-> w]
  IN  [name |-> name, pane |-> p, tab |-> t, workspace |-> w,
       known |-> Remembers(snapshot.workspaces, ev),
       losses |-> IF lock = None THEN 0 ELSE 1]

\* The gesture closes the panes P and herdr sends the events E about it.
Close(P, E) ==
  /\ Change
  /\ live' = live \ P
  /\ closes' = closes \cup E
  /\ UNCHANGED <<now, unborn, created, cache, lock, pc, seen, history, failures, deaths>>

\* A workspace that loses its last pane is reported as well.
Emptied(p) ==
  {Report("workspace.closed", None, Home[p].tab, w) :
     w \in {Home[p].workspace} \ WorkspacesOf(live \ {p})}

ClosePane(p) ==
  /\ p \in live /\ "pane.closed" \in Gestures
  /\ Close({p}, {Report("pane.closed", p, None, Home[p].workspace)} \cup Emptied(p))

ExitPane(p) ==
  /\ p \in live /\ "pane.exited" \in Gestures
  /\ Close({p}, {Report("pane.exited", p, Home[p].tab, Home[p].workspace)} \cup Emptied(p))

CloseTab(t) ==
  /\ t \in TabsOf(live) /\ "tab.closed" \in Gestures
  /\ Close({p \in live : Home[p].tab = t},
           {Report("tab.closed", None, t, WorkspaceOf[t])})

\* The event carries the tab that was active.
CloseWorkspace(t) ==
  /\ t \in TabsOf(live) /\ "workspace.closed" \in Gestures
  /\ Close({p \in live : Home[p].workspace = WorkspaceOf[t]},
           {Report("workspace.closed", None, t, WorkspaceOf[t])})

(***************************************************************************)
(* Hooks.                                                                  *)
(***************************************************************************)
Unlocked == lock = None /\ UNCHANGED lock

Merge(e) ==
  CASE e.kind = "pane" -> merge_pane_created(snapshot, e.id)
    [] e.kind = "tab" -> merge_tab_created(snapshot, e.id)
    [] OTHER -> merge_workspace_created(snapshot, e.id)

seed_from_event(e) ==
  /\ e \in created /\ Unlocked
  /\ snapshot' = Merge(e)
  /\ created' = created \ {e}
  /\ merged' = merged \cup (IF e.kind = "pane" THEN {e.id} ELSE {})
  /\ UNCHANGED <<now, live, unborn, prev, pc, seen, closes, changed, newest,
                 partial, changes, failures, deaths>>

\* What the close hook freezes for its burst, from both files under one lock.
Frozen(ev) == freeze_for(best_snapshot(snapshot.workspaces, prev.workspaces, ev), ev)

CloseHook(ev) ==
  /\ ev \in closes /\ Unlocked
  /\ closes' = closes \ {ev}
  /\ UNCHANGED <<now, herdr, cache, pc, seen, history, failures, deaths>>

(***************************************************************************)
(* refresh, one action per list call and per file.                         *)
(***************************************************************************)
Goto(r, to) == pc' = [pc EXCEPT ![r] = to]

Nothing == [taken_at_ms |-> 0, workspaces |-> {}, tabs |-> {}, panes |-> {},
            hint |-> FALSE, failed |-> FALSE]

refresh_if_stale(r) ==
  /\ pc[r] = "idle"
  /\ r \notin Eager /\ Elapsed(now, snapshot.taken_at_ms) < StaleAfter
  /\ Goto(r, "done")
  /\ UNCHANGED <<now, herdr, cache, lock, seen, closes, history, failures, deaths>>

StartRefresh(r) ==
  /\ pc[r] = "idle"
  /\ r \in Eager \/ Elapsed(now, snapshot.taken_at_ms) >= StaleAfter
  /\ seen' = [seen EXCEPT ![r].taken_at_ms = now]
  /\ Goto(r, "workspaces")
  /\ UNCHANGED <<now, herdr, cache, lock, closes, history, failures, deaths>>

\* One list call: its answer, or nothing at all when it fails.
List(r, what, answer, next) ==
  /\ pc[r] = what
  /\ \/ /\ seen' = [seen EXCEPT ![r][what] = answer]
        /\ UNCHANGED failures
     \/ /\ failures < MaxFailures /\ failures' = failures + 1
        /\ seen' = [seen EXCEPT ![r].failed = TRUE]
  /\ Goto(r, next)
  /\ UNCHANGED <<now, herdr, cache, lock, closes, history, deaths>>

ListWorkspaces(r) == List(r, "workspaces", WorkspacesOf(live), "tabs")
ListTabs(r) == List(r, "tabs", TabsOf(live), "panes")
ListPanes(r) == List(r, "panes", live, "sample")

Mine(r) == assemble(seen[r].workspaces, seen[r].tabs, seen[r].panes, seen[r].taken_at_ms)

Loses(r) == snapshot.workspaces # {} /\ lost_containers(snapshot, Mine(r))

\* The unlocked read of the old snapshot, a hint for the samples; `hint` is
\* what that snapshot would have said about losses.
ReadHint(r) ==
  /\ pc[r] = "sample"
  /\ seen' = [seen EXCEPT ![r].hint = Loses(r)]
  /\ Goto(r, "replace")
  /\ UNCHANGED <<now, herdr, cache, lock, closes, history, failures, deaths>>

NewerWon_never(r) == FALSE

NewerWon(r) == snapshot.taken_at_ms > Mine(r).taken_at_ms

LosesWhatIsThere_hinted(r) == seen[r].hint

\* Decided on the snapshot read again under the lock.
LosesWhatIsThere(r) == Loses(r)

GiveWay(r) ==
  /\ pc[r] = "replace" /\ Unlocked
  /\ NewerWon(r)
  /\ Goto(r, "done")
  /\ seen' = [seen EXCEPT ![r] = Nothing]
  /\ UNCHANGED <<now, herdr, cache, closes, history, failures, deaths>>

KeepPrevious(r) ==
  /\ pc[r] = "replace" /\ lock = None /\ lock' = r
  /\ ~NewerWon(r) /\ LosesWhatIsThere(r)
  /\ prev' = snapshot
  /\ closes' = {[ev EXCEPT !.losses = IF @ < 2 THEN @ + 1 ELSE @] : ev \in closes}
  /\ Goto(r, "write")
  /\ UNCHANGED <<now, herdr, snapshot, seen, history, failures, deaths>>

Replace(r) ==
  /\ \/ pc[r] = "write" /\ lock = r /\ lock' = None
     \/ pc[r] = "replace" /\ Unlocked /\ ~NewerWon(r) /\ ~LosesWhatIsThere(r)
  /\ snapshot' = Mine(r)
  /\ newest' = IF seen[r].taken_at_ms > newest THEN seen[r].taken_at_ms ELSE newest
  /\ merged' = {} /\ partial' = seen[r].failed
  /\ Goto(r, "done")
  /\ seen' = [seen EXCEPT ![r] = Nothing]
  /\ UNCHANGED <<now, herdr, prev, closes, failures, deaths>>

(***************************************************************************)
(* The environment and the specification.                                  *)
(***************************************************************************)
\* A death between the two writes; a death elsewhere is a process that takes no
\* further step, since it holds nothing.
Die(r) ==
  /\ pc[r] = "write" /\ lock = r /\ lock' = None
  /\ deaths < MaxDeaths /\ deaths' = deaths + 1
  /\ seen' = [seen EXCEPT ![r] = Nothing]
  /\ Goto(r, "done")
  /\ UNCHANGED <<now, herdr, cache, closes, history, failures>>

Tick ==
  /\ now < MaxNow /\ now' = now + 1
  /\ UNCHANGED <<herdr, cache, lock, pc, seen, closes, history, failures, deaths>>

\* Nothing was ever written, or a refresh has just seen everything.
Init ==
  /\ now = 1
  /\ live = AtStart /\ unborn = Panes \ AtStart
  /\ snapshot \in {EmptySnapshot,
                   assemble(WorkspacesOf(AtStart), TabsOf(AtStart), AtStart, 1)}
  /\ prev = EmptySnapshot
  /\ lock = None
  /\ pc = [r \in Refreshers |-> "idle"]
  /\ seen = [r \in Refreshers |-> Nothing]
  /\ created = {} /\ closes = {}
  /\ changed = 1 /\ newest = snapshot.taken_at_ms /\ merged = {} /\ partial = FALSE
  /\ changes = 0 /\ failures = 0 /\ deaths = 0

User ==
  \/ \E p \in Panes : Open(p) \/ ClosePane(p) \/ ExitPane(p)
  \/ \E t \in TabsOf(Panes) : CloseTab(t) \/ CloseWorkspace(t)

refresh(r) ==
  \/ refresh_if_stale(r) \/ StartRefresh(r)
  \/ ListWorkspaces(r) \/ ListTabs(r) \/ ListPanes(r) \/ ReadHint(r)
  \/ GiveWay(r) \/ KeepPrevious(r) \/ Replace(r)

Next ==
  \/ User
  \/ \E e \in created : seed_from_event(e)
  \/ \E ev \in closes : CloseHook(ev)
  \/ \E r \in Refreshers : refresh(r) \/ Die(r)
  \/ Tick

Spec == Init /\ [][Next]_vars

(***************************************************************************)
(* Properties.                                                             *)
(***************************************************************************)
\* In a snapshot every workspace occurs once and every pane and tab is where
\* herdr has it, whatever was merged and listed when (assemble and the merges).
WellFormed(snap) ==
  /\ snap.taken_at_ms \in 0 .. now
  /\ \A v, w \in snap.workspaces : v.workspace_id = w.workspace_id => v = w
  /\ \A w \in snap.workspaces :
       /\ w.workspace_id \in WorkspacesOf(Panes)
       /\ \A t \in DOMAIN w.tabs :
            /\ t \in TabsOf(Panes) /\ WorkspaceOf[t] = w.workspace_id
            /\ \A p \in w.tabs[t] : Home[p].tab = t

TypeOK ==
  /\ live \subseteq Panes /\ unborn \subseteq Panes \ live
  /\ WellFormed(snapshot) /\ WellFormed(prev)
  /\ lock \in Refreshers \cup {None}
  /\ pc \in [Refreshers -> {"idle", "workspaces", "tabs", "panes", "sample",
                            "replace", "write", "done"}]
  /\ \A r \in Refreshers : seen[r].panes \subseteq Panes
  /\ \A ev \in closes : ev.name \in CLOSE_EVENTS /\ ev.losses \in 0 .. 2

\* What the shadow knew when it was closed, one of the two files still has when
\* the close hook comes to read it, as long as no two refreshes have dropped
\* something since, and a pane.closed hook picks that file (refresh's second
\* read under the lock, snapshot.prev.json, best_snapshot).
ClosedIsRemembered ==
  \A ev \in closes :
    ev.known /\ ev.losses <= 1 =>
      /\ Remembers(snapshot.workspaces, ev) \/ Remembers(prev.workspaces, ev)
      /\ ev.name = "pane.closed" => HasPane(Frozen(ev), ev.pane)

\* Once a refresh that began after herdr last changed has been written, the
\* snapshot is exact until the next change, but for what late create hooks
\* merge: a slow refresh that began earlier does not put its old lists over it
\* (the taken_at_ms comparison in refresh).
FreshIsExact ==
  newest > changed /\ ~partial =>
    live \subseteq AllPanes(snapshot) /\ AllPanes(snapshot) \subseteq live \cup merged

\* close.rs: the close hook picks the snapshot that still remembers what its
\* event names.
HookFreezesIt ==
  \A ev \in closes :
    ev.known /\ ev.losses <= 1 => Remembers(Frozen(ev), ev)
==============================================================================
