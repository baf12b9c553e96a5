----------------------------- MODULE MCRestore ------------------------------
(***************************************************************************)
(* Small instances of Restore.                                             *)
(***************************************************************************)
EXTENDS Restore, TLC

Numbers == <<"1", "2", "3", "4", "5">>

\* A pane on the left; on the right one pane above another.
Three ==
  (<< >> :> Split("right", 3)) @@ (<<1>> :> Pane(31, "src"))
    @@ (<<2>> :> Split("down", 6)) @@ (<<2, 1>> :> Pane(32, "src")) @@ (<<2, 2>> :> Pane(33, "log"))

\* "work" has a tab with three panes that the user named and one with the number
\* herdr gave it; "src" has the name herdr gave it.
Desk ==
  <<[id |-> 1, label |-> "work", cwd |-> "src", active |-> 12,
     tabs |-> <<Tab(11, "edit", 32, Three), Tab(12, "2", 34, Leaf(34, "log"))>>],
    [id |-> 2, label |-> "src", cwd |-> "src", active |-> 21,
     tabs |-> <<Tab(21, "1", 35, Leaf(35, "src"))>>]>>

StrangerLabels == {"work", "other"}
StrangerCwds == {"src", "tmp"}
==============================================================================
