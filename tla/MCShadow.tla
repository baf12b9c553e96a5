------------------------------- MODULE MCShadow -------------------------------
(***************************************************************************)
(* Small instances of Shadow.                                              *)
(***************************************************************************)
EXTENDS Shadow, TLC

CONSTANTS r1, r2

Place(t, w) == [tab |-> t, workspace |-> w]

\* A tab with two panes and, from some moment on, a workspace of its own.
ThreePanes ==
  ("p1" :> Place("t1", "w")) @@ ("p2" :> Place("t1", "w")) @@ ("p3" :> Place("t2", "v"))

TwoAtStart == {"p1", "p2"}

\* Two tabs of one workspace.
TwoPanes == ("p1" :> Place("t1", "w")) @@ ("p2" :> Place("t2", "w"))

OneAtStart == {"p1"}
TwoRefreshers == {r1, r2}
NoneIsEager == {}
EitherRefresher == Permutations(TwoRefreshers)
AllGestures == CLOSE_EVENTS
OnlyExits == {"pane.exited"}
==============================================================================
