------------------------------ MODULE MCCapture ------------------------------
(***************************************************************************)
(* Small instances of Capture.                                             *)
(***************************************************************************)
EXTENDS Capture, TLC

CONSTANTS h1, h2, h3, r1, r2, c1, c2

Shadow(id, tabs) == [workspace_id |-> id, tabs |-> tabs]

\* Workspace "w" with a two-pane tab and a one-pane tab; workspace "v".
World ==
  {Shadow("w", [t \in {"w:t1", "w:t2"} |-> IF t = "w:t1" THEN {"w:p1", "w:p2"} ELSE {"w:p3"}]),
   Shadow("v", [t \in {"v:t1"} |-> {"v:p1"}])}

IdsInUse ==
  {"w", "v", "w:t1", "w:t2", "v:t1", "w:p1", "w:p2", "w:p3", "v:p1", "new1", "new2"}

\* The shadow knows everything, or was never filled.
KnownOrBlank == {World, {}}
Known == {World}

PaneClosed(p, w) == [name |-> "pane.closed", pane |-> p, tab |-> None, workspace |-> w]
PaneExited(p, t, w) == [name |-> "pane.exited", pane |-> p, tab |-> t, workspace |-> w]
TabClosed(t, w) == [name |-> "tab.closed", pane |-> None, tab |-> t, workspace |-> w]
WorkspaceClosed(t, w) ==
  [name |-> "workspace.closed", pane |-> None, tab |-> t, workspace |-> w]

\* The last pane of workspace "v", which herdr reports twice, and a pane of "w".
CascadeGestures ==
  (h1 :> PaneClosed("w:p1", "w")) @@ (h2 :> PaneClosed("v:p1", "v"))
    @@ (h3 :> WorkspaceClosed("v:t1", "v"))

\* A pane closed in the tab that stays, and the other tab of the same workspace.
NeighbourGestures ==
  (h1 :> PaneClosed("w:p1", "w")) @@ (h2 :> TabClosed("w:t2", "w"))
    @@ (h3 :> PaneExited("v:p1", "v:t1", "v"))

\* The second hook closes the pane the first reopen rebuilt.
RebuiltGestures ==
  (h1 :> PaneClosed("w:p1", "w")) @@ (h2 :> PaneClosed("new1", "w"))
    @@ (h3 :> PaneClosed("v:p1", "v"))

\* The same, and the others are the two reports of one close.
CascadeRebuiltGestures ==
  (h1 :> PaneClosed("v:p1", "v")) @@ (h2 :> PaneClosed("new1", "w"))
    @@ (h3 :> WorkspaceClosed("v:t1", "v"))

TwoReopens == {r1, r2}
OneReopen == {r1}
OneRecoverer == {c1}
TwoRecoverers == {c1, c2}
RebuiltIds == (r1 :> "new1") @@ (r2 :> "new2")
RebuiltId == (r1 :> "new1")
AllHooks == {h1, h2, h3}
FirstHooks == {h1, h2}
NoReopens == {}
NoRecoverers == {}
NoRebuilt == << >>
==============================================================================
