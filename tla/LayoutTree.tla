----------------------------- MODULE LayoutTree -----------------------------
(***************************************************************************)
(* The split tree of a tab.  A layout is the function from the paths of    *)
(* its nodes to the nodes; a path is the sequence of sides (1 for `first`, *)
(* 2 for `second`) that leads to the node, << >> for the root.             *)
(***************************************************************************)
EXTENDS Integers, Sequences, FiniteSets

CONSTANT None     \* an absent id

Pane(id, cwd) == [type |-> "pane", pane_id |-> id, cwd |-> cwd]
Split(direction, ratio) == [type |-> "split", direction |-> direction, ratio |-> ratio]

First == 1
Second == 2
Other(side) == 3 - side

\* Ratios are tenths.
Complement(ratio) == 10 - ratio

Parent(path) == SubSeq(path, 1, Len(path) - 1)
Side(path) == path[Len(path)]
Below(top, path) == Len(top) <= Len(path) /\ SubSeq(path, 1, Len(top)) = top
From(top, path) == SubSeq(path, Len(top) + 1, Len(path))

Subtree(layout, top) ==
  [path \in {From(top, q) : q \in {r \in DOMAIN layout : Below(top, r)}} |-> layout[top \o path]]

Leaves(layout) == {path \in DOMAIN layout : layout[path].type = "pane"}

\* Depth-first order, first before second.
Before(p, q) ==
  \E k \in DOMAIN p : /\ k \in DOMAIN q /\ p[k] < q[k]
                      /\ \A j \in 1 .. k - 1 : p[j] = q[j]

leaves(layout) ==
  [k \in 1 .. Cardinality(Leaves(layout)) |->
     CHOOSE p \in Leaves(layout) :
       Cardinality({q \in Leaves(layout) : Before(q, p)}) = k - 1]

leaf_pane_ids(layout) == [k \in DOMAIN leaves(layout) |-> layout[leaves(layout)[k]].pane_id]
leaf_cwds(layout) == {layout[p].cwd : p \in Leaves(layout)}
PaneIds(layout) == {layout[p].pane_id : p \in Leaves(layout)}

\* A pane is a node with nothing below it, and it is there once.
IsLayout(layout) ==
  /\ IsFiniteSet(DOMAIN layout) /\ DOMAIN layout \subseteq Seq({First, Second})
  /\ \A p \in Leaves(layout) :
       /\ layout[p] = Pane(layout[p].pane_id, layout[p].cwd)
       /\ \A q \in DOMAIN layout : Below(p, q) => q = p

\* A split has two sides, and only a split has.
IsBinary(layout) ==
  /\ << >> \in DOMAIN layout
  /\ \A p \in DOMAIN layout \ Leaves(layout) :
       /\ layout[p] = Split(layout[p].direction, layout[p].ratio)
       /\ Append(p, First) \in DOMAIN layout /\ Append(p, Second) \in DOMAIN layout
  /\ \A p \in DOMAIN layout : p # << >> => Parent(p) \in DOMAIN layout

PanesApart(layout) ==
  \A p, q \in Leaves(layout) : layout[p].pane_id = layout[q].pane_id => p = q

PathOf(layout, pane) == CHOOSE p \in Leaves(layout) : layout[p].pane_id = pane

strip_pane_ids(layout) ==
  [p \in DOMAIN layout |->
     IF p \in Leaves(layout) THEN [layout[p] EXCEPT !.pane_id = None] ELSE layout[p]]

\* The split that had the pane as a child, if any.
locate(layout, pane) ==
  {[direction |-> layout[Parent(p)].direction,
    ratio     |-> layout[Parent(p)].ratio,
    side      |-> Side(p),
    sibling   |-> Subtree(layout, Append(Parent(p), Other(Side(p))))] :
   p \in {q \in Leaves(layout) : layout[q].pane_id = pane /\ q # << >>}}

\* Pairs <<old pane, new pane>>, by position.
map_pane_ids_reversed(old, new) ==
  {<<leaf_pane_ids(new)[k], leaf_pane_ids(old)[k]>> : k \in DOMAIN leaves(old) \cap DOMAIN leaves(new)}

map_pane_ids(old, new) ==
  {<<leaf_pane_ids(old)[k], leaf_pane_ids(new)[k]>> : k \in DOMAIN leaves(old) \cap DOMAIN leaves(new)}

(***************************************************************************)
(* What herdr does to a layout.                                            *)
(***************************************************************************)
\* layout.apply gives the leaves the ids next, next + 1, ... in depth-first order.
Filled(layout, next) ==
  [p \in DOMAIN layout |->
     IF p \in Leaves(layout)
     THEN [layout[p] EXCEPT !.pane_id =
             next - 1 + (CHOOSE k \in DOMAIN leaves(layout) : leaves(layout)[k] = p)]
     ELSE layout[p]]

\* pane.split: the target becomes the first child, the new pane the second.
SplitAt(layout, target, direction, ratio, pane) ==
  LET top == PathOf(layout, target)
      one == Append(top, First)
      two == Append(top, Second)
  IN  [p \in DOMAIN layout \cup {one, two} |->
         CASE p = top -> Split(direction, ratio)
           [] p = one -> layout[top]
           [] p = two -> pane
           [] OTHER -> layout[p]]

\* pane.swap
Swapped(layout, a, b) ==
  [layout EXCEPT ![PathOf(layout, a)] = layout[PathOf(layout, b)],
                 ![PathOf(layout, b)] = layout[PathOf(layout, a)]]

\* A closed pane's sibling takes the place of their split.
Closed(layout, pane) ==
  LET top  == Parent(PathOf(layout, pane))
      rest == Append(top, Other(Side(PathOf(layout, pane))))
      kept == {p \in DOMAIN layout : ~Below(top, p)}
      up   == Subtree(layout, rest)
  IN  [p \in kept \cup {top \o q : q \in DOMAIN up} |->
         IF p \in kept THEN layout[p] ELSE up[From(top, p)]]

==============================================================================
