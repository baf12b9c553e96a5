-------------------------------- MODULE Close --------------------------------
(***************************************************************************)
(* The pure part of src/close.rs: which snapshot a close event is read     *)
(* against, how events join the one global burst, and what undo entries a  *)
(* finished burst becomes.                                                 *)
(*                                                                         *)
(* A workspace in a snapshot is [workspace_id, tabs] where tabs maps each  *)
(* tab id to its set of pane ids; a snapshot is a set of workspaces with   *)
(* distinct ids.  An event is [hook, t0, name, pane, tab, workspace] with  *)
(* None for an absent id; `hook` is the process that reported it.          *)
(***************************************************************************)
EXTENDS Store

CONSTANTS
  None,            \* an absent id
  BurstWindow,     \* BURST_WINDOW_MS
  BurstStale,      \* BURST_STALE_MS
  CaptureExited    \* the configuration's capture_exited

ASSUME WindowAssumption == BurstWindow \in Nat /\ BurstStale \in Nat
ASSUME CaptureExitedAssumption == CaptureExited \in BOOLEAN

CLOSE_EVENTS == {"pane.closed", "tab.closed", "workspace.closed", "pane.exited"}

PanesOf(w) == UNION {w.tabs[t] : t \in DOMAIN w.tabs}

HasPane(snap, p) == p # None /\ \E w \in snap : p \in PanesOf(w)
HasTab(snap, t) == t # None /\ \E w \in snap : t \in DOMAIN w.tabs

knows(snap, ev) ==
  \/ HasPane(snap, ev.pane)
  \/ HasTab(snap, ev.tab)
  \/ /\ ev.pane = None /\ ev.tab = None
     /\ \E w \in snap : w.workspace_id = ev.workspace /\ DOMAIN w.tabs # {}

best_snapshot(snap, prev, ev) ==
  IF ~knows(snap, ev) /\ knows(prev, ev) THEN prev ELSE snap

freeze_for(snap, ev) ==
  {w \in snap : \/ w.workspace_id = ev.workspace
                \/ HasPane({w}, ev.pane)
                \/ HasTab({w}, ev.tab)}

(***************************************************************************)
(* The burst.                                                              *)
(***************************************************************************)
NoBurst == [none |-> TRUE]

Expired(burst, t0) ==
  burst # NoBurst /\ Elapsed(t0, burst.last_ms) > BurstWindow

Stale_by_last(burst, t0) ==
  burst # NoBurst /\ ~Expired(burst, t0) /\ Elapsed(t0, burst.last_ms) > BurstStale

Stale(burst, t0) ==
  /\ burst # NoBurst
  /\ ~Expired(burst, t0)
  /\ Elapsed(t0, burst.first_ms) > BurstStale

Joined_never(burst, t0) ==
  [first_ms |-> t0, last_ms |-> t0, last_token |-> None, events |-> << >>, frozen |-> {}]

\* The burst an event joins: the pending one, or a new one that starts with it.
Joined(burst, t0) ==
  IF burst = NoBurst \/ Expired(burst, t0) \/ Stale(burst, t0)
  THEN [first_ms |-> t0, last_ms |-> t0, last_token |-> None,
        events |-> << >>, frozen |-> {}]
  ELSE burst

push_event(burst, ev, token, frozen) ==
  LET b == Joined(burst, ev.t0)
  IN  [first_ms   |-> IF b.first_ms = 0 THEN ev.t0 ELSE b.first_ms,
       last_ms    |-> IF ev.t0 > b.last_ms THEN ev.t0 ELSE b.last_ms,
       last_token |-> token,
       events     |-> Append(b.events, ev),
       frozen     |-> b.frozen \cup
                        {w \in frozen : \A x \in b.frozen :
                                          x.workspace_id # w.workspace_id}]

owns_finalization(burst, token) == burst # NoBurst /\ burst.last_token = token

HooksOf(burst) ==
  IF burst = NoBurst THEN {}
  ELSE {burst.events[i].hook : i \in DOMAIN burst.events}

(***************************************************************************)
(* Inference.  Events are named by their position i in the burst b.        *)
(***************************************************************************)
workspace_of(frozen, ev) ==
  LET byPane == {w \in frozen : HasPane({w}, ev.pane)}
      byTab  == {w \in frozen : HasTab({w}, ev.tab)}
      holder == IF byPane # {} THEN byPane ELSE byTab
  IN  IF ev.workspace # None THEN ev.workspace
      ELSE IF holder # {} THEN (CHOOSE w \in holder : TRUE).workspace_id
      ELSE None

WorkspaceAt(b, i) == workspace_of(b.frozen, b.events[i])

IsWorkspaceClose(b, i) == b.events[i].name = "workspace.closed"

ClosedWorkspaces(b) ==
  {b.events[i].workspace : i \in {j \in DOMAIN b.events : IsWorkspaceClose(b, j)}}

\* Events that are not part of a workspace this burst closed whole.
Remaining(b) ==
  {i \in DOMAIN b.events : /\ ~IsWorkspaceClose(b, i)
                           /\ WorkspaceAt(b, i) \notin ClosedWorkspaces(b) \ {None}}

Partition(b, i) == {j \in Remaining(b) : WorkspaceAt(b, j) = WorkspaceAt(b, i)}

\* The tabs (as sets of panes) the frozen workspaces know under this id.
TabPanes(b, t) == UNION {w.tabs[t] : w \in {x \in b.frozen : t \in DOMAIN x.tabs}}

\* Within one workspace an explicit tab.closed silences the pane closes.
Captures(b, i) ==
  LET ev == b.events[i] IN
  IF \E j \in Partition(b, i) : b.events[j].name = "tab.closed"
  THEN ev.name = "tab.closed" /\ HasTab(b.frozen, ev.tab)
  ELSE /\ ev.pane # None
       /\ ev.name \in {"pane.closed"} \cup (IF CaptureExited THEN {"pane.exited"} ELSE {})

\* The positions that become an entry; the first workspace.closed stands for all.
Capturing(b) ==
  {i \in DOMAIN b.events :
     IF IsWorkspaceClose(b, i)
     THEN \A j \in DOMAIN b.events : IsWorkspaceClose(b, j) => i <= j
     ELSE i \in Remaining(b) /\ Captures(b, i)}

\* The workspace entry first, then each workspace's events in the order in
\* which the workspaces first appear in the burst.
CaptureOrder(b) ==
  LET n == Len(b.events)
      start(i) == IF IsWorkspaceClose(b, i) THEN 0
                  ELSE CHOOSE j \in Partition(b, i) : \A k \in Partition(b, i) : j <= k
  IN  [i \in Capturing(b) |-> start(i) * (n + 1) + i]

ClosedAt(b, i) ==
  IF IsWorkspaceClose(b, i)
  THEN CHOOSE t \in {b.events[j].t0 : j \in DOMAIN b.events} :
         \A j \in DOMAIN b.events : t <= b.events[j].t0
  ELSE b.events[i].t0

\* The panes the captured subtree brings back.  A pane that was alone in its
\* tab brings the tab back; a pane no snapshot knew is hydrated from the event.
CapturedPanes(b, i) ==
  LET ev == b.events[i] IN
  CASE ev.name = "workspace.closed" ->
         UNION {PanesOf(w) : w \in {x \in b.frozen :
                                      x.workspace_id \in ClosedWorkspaces(b)}}
    [] ev.name = "tab.closed" -> TabPanes(b, ev.tab)
    [] OTHER -> {ev.pane}

Granularity(b, i) ==
  LET ev == b.events[i] IN
  CASE ev.name = "workspace.closed" ->
         IF Cardinality(ClosedWorkspaces(b)) = 1 THEN "workspace" ELSE "workspace_group"
    [] ev.name = "tab.closed" -> "tab"
    [] OTHER -> IF \E w \in b.frozen : \E t \in DOMAIN w.tabs : w.tabs[t] = {ev.pane}
                THEN "tab" ELSE "pane"

\* The hooks whose close the entry of position i undoes.
Undoes(b, i) ==
  LET covered ==
        IF IsWorkspaceClose(b, i)
        THEN DOMAIN b.events \ Remaining(b)
        ELSE {i} \cup {j \in Partition(b, i) : /\ b.events[i].name = "tab.closed"
                                               /\ b.events[j].name # "tab.closed"
                                               /\ b.events[j].pane \in CapturedPanes(b, i)}
  IN  {b.events[j].hook : j \in covered}

Entry(b, i, id) ==
  [id           |-> id,
   closed_at_ms |-> ClosedAt(b, i),
   granularity  |-> Granularity(b, i),
   reason       |-> IF b.events[i].name = "pane.exited" THEN "exited" ELSE "closed",
   panes        |-> CapturedPanes(b, i),
   closes       |-> Undoes(b, i)]

\* Consecutive ids from `next` on, in capture order.
infer_entries(b, next) ==
  LET order   == CaptureOrder(b)
      entries == {Entry(b, i, next + Rank(order, i)) : i \in Capturing(b)}
  IN  [k \in 1 .. Cardinality(Capturing(b)) |->
         CHOOSE e \in entries : e.id = next + k - 1]

\* What finalize_locked captures of burst b, and the stack it then writes.
captured(stack, b, now) ==
  infer_entries(b, next_entry_id(prune_entries(stack, now)))

finalize_locked(stack, new, now) ==
  IF new = << >> THEN stack ELSE push_captures(prune_entries(stack, now), new)

==============================================================================
