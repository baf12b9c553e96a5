---------------------------- MODULE SessionProofs ----------------------------
(***************************************************************************)
(* Facts about what a reopen works on: how the panes of a split tree are   *)
(* listed, and what becomes of workspaces, tabs and panes when herdr carries *)
(* out a request.                                                          *)
(***************************************************************************)
EXTENDS Restore, OrderedProofs

(***************************************************************************)
(* Split trees: how their leaves are listed, and what becomes of the panes *)
(* when a pane is closed, split, swapped or filled.                        *)
(***************************************************************************)
Paths == Seq({First, Second})

LEMMA PathIsSeq ==
  ASSUME NEW p \in Paths
  PROVE  /\ Len(p) \in Nat /\ DOMAIN p = 1 .. Len(p)
         /\ \A k \in DOMAIN p : p[k] \in {First, Second} /\ p[k] \in Nat
BY DEF Paths, First, Second

(***************************************************************************)
(* The order of the leaves.                                                *)
(***************************************************************************)
LEMMA BeforeIsOrder ==
  ASSUME NEW p \in Paths, NEW q \in Paths, NEW r \in Paths
  PROVE  /\ ~Before(p, p)
         /\ Before(p, q) /\ Before(q, r) => Before(p, r)
<1> USE PathIsSeq
<1>1. ~Before(p, p)
  BY DEF Before
<1>2. ASSUME Before(p, q), Before(q, r) PROVE Before(p, r)
  <2>1. PICK k \in DOMAIN p : k \in DOMAIN q /\ p[k] < q[k] /\ \A j \in 1 .. k - 1 : p[j] = q[j]
    BY <1>2 DEF Before
  <2>2. PICK m \in DOMAIN q : m \in DOMAIN r /\ q[m] < r[m] /\ \A j \in 1 .. m - 1 : q[j] = r[j]
    BY <1>2 DEF Before
  <2>3. /\ k \in Nat /\ m \in Nat /\ DOMAIN p = 1 .. Len(p) /\ DOMAIN r = 1 .. Len(r)
        /\ Len(p) \in Nat /\ Len(r) \in Nat /\ DOMAIN q = 1 .. Len(q) /\ Len(q) \in Nat
    BY <2>1, <2>2
  <2>4. CASE k <= m
    <3>1. k \in DOMAIN r /\ p[k] < r[k]
      <4>1. k \in DOMAIN r /\ p[k] \in Nat /\ q[k] \in Nat /\ r[k] \in Nat
        BY <2>1, <2>2, <2>3, <2>4
      <4>2. q[k] <= r[k]
        BY <2>2, <2>3, <2>4, <4>1
      <4>3. QED
        BY <2>1, <4>1, <4>2
    <3>2. \A j \in 1 .. k - 1 : p[j] = r[j]
      BY <2>1, <2>2, <2>3, <2>4
    <3>3. QED
      BY <2>1, <3>1, <3>2 DEF Before
  <2>5. CASE m < k
    <3>1. m \in DOMAIN p /\ p[m] = q[m] /\ p[m] < r[m]
      BY <2>1, <2>2, <2>3, <2>5
    <3>2. \A j \in 1 .. m - 1 : p[j] = r[j]
      BY <2>1, <2>2, <2>3, <2>5
    <3>3. QED
      BY <2>2, <3>1, <3>2 DEF Before
  <2>6. QED
    BY <2>3, <2>4, <2>5
<1>3. QED
  BY <1>1, <1>2

\* A path with no difference from a longer one is above it.
LEMMA NoDifference ==
  ASSUME NEW p \in Paths, NEW q \in Paths, Len(p) <= Len(q),
         \A k \in DOMAIN p : p[k] = q[k]
  PROVE  Below(p, q)
<1> DEFINE s == SubSeq(q, 1, Len(p))
<1>1. Len(p) \in Nat /\ Len(q) \in Nat /\ DOMAIN p = 1 .. Len(p)
  BY PathIsSeq
<1>2. s \in Paths /\ Len(s) = Len(p) /\ \A k \in 1 .. Len(p) : s[k] = q[k]
  BY <1>1 DEF Paths
<1> HIDE DEF s
<1>3. s = p
  BY <1>1, <1>2, SeqEqual DEF Paths
<1>4. QED
  BY <1>3 DEF Below, s

LEMMA LeavesAreOrdered ==
  ASSUME NEW layout, IsLayout(layout), NEW p \in Leaves(layout), NEW q \in Leaves(layout), p # q
  PROVE  Before(p, q) \/ Before(q, p)
<1> DEFINE D == {k \in DOMAIN p \cap DOMAIN q : p[k] # q[k]}
<1>1. p \in Paths /\ q \in Paths /\ ~Below(p, q) /\ ~Below(q, p)
  BY DEF IsLayout, Leaves, Paths
<1>2. /\ Len(p) \in Nat /\ Len(q) \in Nat /\ DOMAIN p = 1 .. Len(p) /\ DOMAIN q = 1 .. Len(q)
      /\ \A k \in DOMAIN p : p[k] \in Nat
      /\ \A k \in DOMAIN q : q[k] \in Nat
  BY <1>1, PathIsSeq
<1>3. D # {}
  <2>1. CASE Len(p) <= Len(q)
    <3>1. ~(\A k \in DOMAIN p : p[k] = q[k])
      BY <1>1, <2>1, NoDifference
    <3>2. QED
      BY <1>2, <2>1, <3>1
  <2>2. CASE Len(q) <= Len(p)
    <3>1. ~(\A k \in DOMAIN q : q[k] = p[k])
      BY <1>1, <2>2, NoDifference
    <3>2. QED
      BY <1>2, <2>2, <3>1
  <2>3. QED
    BY <1>2, <2>1, <2>2
<1>4. D \in SUBSET Nat
  BY <1>2
<1>5. PICK k \in D : \A j \in D : k <= j
  <2> HIDE DEF D
  <2>1. QED
    BY <1>3, <1>4, LeastNat
<1>6. \A j \in 1 .. k - 1 : p[j] = q[j]
  BY <1>2, <1>5
<1>7. p[k] < q[k] \/ q[k] < p[k]
  BY <1>2, <1>5
<1>8. QED
  BY <1>5, <1>6, <1>7 DEF Before

\* The k-th leaf exists, and each leaf is one of them.
LEMMA LeavesAreListed ==
  ASSUME NEW layout, IsLayout(layout)
  PROVE  /\ Cardinality(Leaves(layout)) \in Nat /\ IsFiniteSet(Leaves(layout))
         /\ DOMAIN leaves(layout) = 1 .. Cardinality(Leaves(layout))
         /\ \A k \in DOMAIN leaves(layout) : leaves(layout)[k] \in Leaves(layout)
         /\ \A p \in Leaves(layout) : \E k \in DOMAIN leaves(layout) : leaves(layout)[k] = p
         /\ \A j, k \in DOMAIN leaves(layout) : leaves(layout)[j] = leaves(layout)[k] => j = k
<1> DEFINE L      == Leaves(layout)
           n      == Cardinality(L)
           pre(p) == {q \in L : Before(q, p)}
           key    == [p \in L |-> Cardinality(pre(p))]
           list   == leaves(layout)
<1>1. IsFiniteSet(L) /\ n \in Nat /\ L \subseteq Paths
  BY FS_Subset, FS_CardinalityType DEF IsLayout, Leaves, Paths
<1>0. \A p \in L : \A q \in L : p # q => Before(p, q) \/ Before(q, p)
  BY LeavesAreOrdered
<1>20. list = [k \in 1 .. n |-> CHOOSE p \in L : Cardinality(pre(p)) = k - 1]
  BY DEF leaves
<1> HIDE DEF L, list
<1>2. \A p \in L : IsFiniteSet(pre(p)) /\ Cardinality(pre(p)) \in Nat
  BY <1>1, FS_Subset, FS_CardinalityType
<1>3. ASSUME NEW p \in L, NEW q \in L, Before(p, q)
      PROVE  Cardinality(pre(p)) < Cardinality(pre(q))
  <2>1. pre(p) \subseteq pre(q) /\ p \in pre(q) /\ p \notin pre(p)
    BY <1>1, <1>3, BeforeIsOrder
  <2>2. QED
    BY <1>2, <2>1, FS_Subset
<1>4. \A p \in L : \A q \in L : Before(p, q) <=> key[p] < key[q]
  <2> SUFFICES ASSUME NEW p \in L, NEW q \in L, ~Before(p, q), key[p] < key[q] PROVE FALSE
    BY <1>3
  <2>1. p # q /\ Before(q, p)
    BY <1>0, <1>2
  <2>2. Cardinality(pre(q)) < Cardinality(pre(p))
    BY <1>3, <2>1
  <2>3. QED
    BY <1>2, <2>2
<1>5. IsKey(key) /\ DOMAIN key = L
  <2>1. \A p \in L : \A q \in L : key[p] = key[q] => p = q
    <3> SUFFICES ASSUME NEW p \in L, NEW q \in L, key[p] = key[q], p # q PROVE FALSE
      OBVIOUS
    <3>1. key[p] < key[q] \/ key[q] < key[p]
      BY <1>0, <1>4
    <3>2. QED
      BY <1>2, <3>1
  <2>2. QED
    BY <1>1, <1>2, <2>1 DEF IsKey
<1>6. \A p \in L : Rank(key, p) = Cardinality(pre(p))
  <2> SUFFICES ASSUME NEW p \in L PROVE Rank(key, p) = Cardinality(pre(p))
    OBVIOUS
  <2>1. {q \in L : key[q] < key[p]} = pre(p)
    BY <1>4
  <2> HIDE DEF pre
  <2>2. QED
    BY <1>5, <2>1 DEF Rank
<1> HIDE DEF key, pre
<1>7. \A k \in 1 .. n : \E p \in L : Cardinality(pre(p)) = k - 1
  BY <1>5, <1>6, RankOnto DEF n
<1>8. \A k \in 1 .. n : list[k] \in L /\ Cardinality(pre(list[k])) = k - 1
  BY <1>7, <1>20
<1>9. \A p \in L : \E k \in 1 .. n : list[k] = p
  <2> SUFFICES ASSUME NEW p \in L PROVE \E k \in 1 .. n : list[k] = p
    OBVIOUS
  <2>1. Rank(key, p) \in 0 .. n - 1
    BY <1>5, RankBounds
  <2> DEFINE k == Cardinality(pre(p)) + 1
  <2>2. k \in 1 .. n /\ Cardinality(pre(p)) = k - 1
    BY <1>1, <1>6, <2>1
  <2>3. list[k] \in L /\ Cardinality(pre(list[k])) = k - 1
    BY <1>8, <2>2
  <2>4. Rank(key, list[k]) = Rank(key, p)
    BY <1>6, <2>2, <2>3
  <2>5. list[k] = p
    <3> DEFINE q == list[k]
    <3>1. q \in L /\ Rank(key, q) = Rank(key, p)
      BY <2>3, <2>4
    <3> HIDE DEF q
    <3>2. key[p] \in Nat /\ key[q] \in Nat /\ (key[p] = key[q] => p = q)
      BY <1>5, <3>1 DEF IsKey
    <3>3. ~(key[p] < key[q]) /\ ~(key[q] < key[p])
      <4>1. Rank(key, p) \in Nat
        BY <2>1
      <4>2. key[p] < key[q] => Rank(key, p) < Rank(key, q)
        BY <1>5, <3>1, RankBounds
      <4>3. key[q] < key[p] => Rank(key, q) < Rank(key, p)
        BY <1>5, <3>1, RankBounds
      <4>4. QED
        BY <3>1, <4>1, <4>2, <4>3
    <3>4. QED
      BY <3>2, <3>3 DEF q
  <2>6. QED
    BY <2>2, <2>5
<1>10. \A j, k \in 1 .. n : list[j] = list[k] => j = k
  BY <1>8
<1>11. DOMAIN list = 1 .. n
  BY <1>20
<1>12. QED
  BY <1>1, <1>8, <1>9, <1>10, <1>11 DEF L, n, list

LEMMA FromConcat ==
  ASSUME NEW S, NEW top \in Seq(S), NEW q \in Seq(S)
  PROVE  From(top, top \o q) = q
<1> DEFINE p == top \o q
           r == SubSeq(p, Len(top) + 1, Len(p))
<1>1. p \in Seq(S) /\ Len(p) = Len(top) + Len(q) /\ Len(top) \in Nat /\ Len(q) \in Nat
      /\ \A i \in 1 .. Len(q) : p[Len(top) + i] = q[i]
  OBVIOUS
<1> HIDE DEF p
<1>2. /\ r \in Seq(S) /\ Len(r) = Len(q)
      /\ \A i \in 1 .. Len(q) : r[i] = p[Len(top) + i]
  BY <1>1
<1> HIDE DEF r
<1>3. r = q
  BY <1>1, <1>2, SeqEqual
<1>4. QED
  BY <1>3 DEF From, r, p

LEMMA BelowIsPrefix ==
  ASSUME NEW S, NEW top, Len(top) \in Nat, NEW r \in Seq(S), Below(top, r)
  PROVE  top \in Seq(S) /\ From(top, r) \in Seq(S) /\ r = top \o From(top, r)
<1>1. Len(top) <= Len(r) /\ top = SubSeq(r, 1, Len(top)) /\ Len(r) \in Nat
  BY DEF Below
<1>2. SubSeq(r, 1, Len(top)) \in Seq(S) /\ SubSeq(r, Len(top) + 1, Len(r)) \in Seq(S)
  BY <1>1
<1>3. SubSeq(r, 1, Len(top)) \o SubSeq(r, Len(top) + 1, Len(r)) = SubSeq(r, 1, Len(r))
  <2>1. 1 \in 1 .. Len(r) + 1 /\ Len(top) \in 1 - 1 .. Len(r) /\ Len(r) \in Len(top) .. Len(r)
    BY <1>1
  <2>2. QED
    BY <2>1, ConcatAdjacentSubSeq
<1>4. SubSeq(r, 1, Len(r)) = r
  BY SubSeqFull
<1>5. QED
  BY <1>1, <1>2, <1>3, <1>4 DEF From

(***************************************************************************)
(* What is below what.                                                     *)
(***************************************************************************)
LEMMA BelowIs ==
  ASSUME NEW p \in Paths, NEW q \in Paths
  PROVE  Below(p, q) <=> Len(p) <= Len(q) /\ \A k \in 1 .. Len(p) : p[k] = q[k]
<1> DEFINE s == SubSeq(q, 1, Len(p))
<1>1. Len(p) \in Nat /\ Len(q) \in Nat /\ DOMAIN p = 1 .. Len(p)
  BY PathIsSeq
<1>2. ASSUME Len(p) <= Len(q)
      PROVE  Len(s) = Len(p) /\ \A k \in 1 .. Len(p) : s[k] = q[k]
  BY <1>1, <1>2 DEF Paths
<1>3. Below(p, q) <=> Len(p) <= Len(q) /\ s = p
  BY DEF Below
<1> HIDE DEF s
<1>4. QED
  BY <1>1, <1>2, <1>3, NoDifference

LEMMA BelowIsOrder ==
  ASSUME NEW p \in Paths, NEW q \in Paths, NEW r \in Paths
  PROVE  /\ Below(p, p)
         /\ Below(p, q) /\ Below(q, r) => Below(p, r)
         /\ Below(p, r) /\ Below(q, r) => Below(p, q) \/ Below(q, p)
         /\ Below(p, q) /\ Below(q, p) => p = q
<1>1. /\ Len(p) \in Nat /\ DOMAIN p = 1 .. Len(p)
      /\ Len(q) \in Nat /\ DOMAIN q = 1 .. Len(q)
      /\ Len(r) \in Nat /\ DOMAIN r = 1 .. Len(r)
  BY PathIsSeq
<1>2. Below(p, p)
  BY <1>1, BelowIs
<1>3. Below(p, q) /\ Below(q, r) => Below(p, r)
  BY <1>1, BelowIs
<1>4. Below(p, r) /\ Below(q, r) => Below(p, q) \/ Below(q, p)
  BY <1>1, BelowIs
<1>5. ASSUME Below(p, q), Below(q, p) PROVE p = q
  <2>1. Len(p) <= Len(q) /\ \A k \in 1 .. Len(p) : p[k] = q[k]
    BY <1>5, BelowIs
  <2>2. Len(q) <= Len(p)
    BY <1>5, BelowIs
  <2>3. QED
    BY <1>1, <2>1, <2>2, SeqEqual DEF Paths
<1>6. QED
  BY <1>2, <1>3, <1>4, <1>5

LEMMA ChildIs ==
  ASSUME NEW p \in Paths, NEW side \in {First, Second}
  PROVE  /\ Append(p, side) \in Paths /\ Len(Append(p, side)) = Len(p) + 1
         /\ \A k \in 1 .. Len(p) : Append(p, side)[k] = p[k]
         /\ Append(p, side)[Len(p) + 1] = side
BY PathIsSeq DEF Paths

LEMMA BelowChild ==
  ASSUME NEW p \in Paths, NEW q \in Paths, NEW side \in {First, Second}
  PROVE  /\ Below(p, Append(p, side)) /\ Append(p, side) # p
         /\ Below(Append(p, side), q) => Below(p, q) /\ q # p
         /\ Below(q, Append(p, side)) => q = Append(p, side) \/ Below(q, p)
<1> DEFINE c == Append(p, side)
<1>1. /\ c \in Paths /\ Len(c) = Len(p) + 1 /\ \A k \in 1 .. Len(p) : c[k] = p[k]
      /\ Len(p) \in Nat /\ Len(q) \in Nat
  BY ChildIs, PathIsSeq
<1> HIDE DEF c
<1>2. Below(p, c) /\ c # p
  BY <1>1, BelowIs
<1>3. Below(c, q) => Below(p, q) /\ q # p
  BY <1>1, BelowIs
<1>4. ASSUME Below(q, c), q # c PROVE Below(q, p)
  <2>1. Len(q) <= Len(c) /\ \A k \in 1 .. Len(q) : q[k] = c[k]
    BY <1>1, <1>4, BelowIs
  <2>2. Len(q) # Len(c)
    <3>1. Len(q) = Len(c) => q = c
      BY <1>1, <2>1, SeqEqual DEF Paths
    <3>2. QED
      BY <1>4, <3>1
  <2>3. Len(q) <= Len(p) /\ \A k \in 1 .. Len(q) : q[k] = p[k]
    BY <1>1, <2>1, <2>2
  <2>4. QED
    BY <2>3, BelowIs
<1>5. QED
  BY <1>2, <1>3, <1>4 DEF c

\* The two children of a node have nothing below both.
LEMMA ChildrenApart ==
  ASSUME NEW p \in Paths, NEW q \in Paths
  PROVE  ~(Below(Append(p, First), q) /\ Below(Append(p, Second), q))
<1> DEFINE a == Append(p, First)
           b == Append(p, Second)
           n == Len(p) + 1
<1>1. a \in Paths /\ b \in Paths /\ Len(a) = n /\ Len(b) = n /\ a[n] = First /\ b[n] = Second
      /\ Len(p) \in Nat
  BY ChildIs, PathIsSeq
<1> HIDE DEF a, b
<1>2. n \in 1 .. n /\ First # Second
  BY <1>1 DEF First, Second
<1>3. ASSUME Below(a, q), Below(b, q) PROVE FALSE
  <2>1. a[n] = q[n] /\ b[n] = q[n]
    BY <1>1, <1>2, <1>3, BelowIs
  <2>2. QED
    BY <1>1, <1>2, <2>1
<1>4. QED
  BY <1>3 DEF a, b

(***************************************************************************)
(* Panes.                                                                  *)
(***************************************************************************)
LEMMA PathIsLeaf ==
  ASSUME NEW layout, NEW pane \in PaneIds(layout)
  PROVE  PathOf(layout, pane) \in Leaves(layout) /\ layout[PathOf(layout, pane)].pane_id = pane
BY DEF PathOf, PaneIds

LEMMA FirstLeaf ==
  ASSUME NEW layout, IsLayout(layout), Leaves(layout) # {}
  PROVE  leaf_pane_ids(layout)[1] \in PaneIds(layout)
<1>1. 1 \in DOMAIN leaves(layout) /\ leaves(layout)[1] \in Leaves(layout)
  BY LeavesAreListed
<1>2. QED
  BY <1>1 DEF leaf_pane_ids, PaneIds

\* Every position but the leaves' ids is kept.
LEMMA SameShape ==
  ASSUME NEW layout, IsLayout(layout), NEW new, DOMAIN new = DOMAIN layout,
         \A p \in DOMAIN layout \ Leaves(layout) : new[p] = layout[p],
         \A p \in Leaves(layout) : new[p] = Pane(new[p].pane_id, new[p].cwd)
  PROVE  IsLayout(new) /\ Leaves(new) = Leaves(layout)
<1>1. Leaves(new) = Leaves(layout)
  BY DEF Leaves, Pane
<1>2. QED
  BY <1>1 DEF IsLayout

LEMMA StripIsLayout ==
  ASSUME NEW layout, IsLayout(layout)
  PROVE  IsLayout(strip_pane_ids(layout)) /\ Leaves(strip_pane_ids(layout)) = Leaves(layout)
<1> DEFINE new == strip_pane_ids(layout)
<1>1. DOMAIN new = DOMAIN layout /\ \A p \in DOMAIN layout \ Leaves(layout) : new[p] = layout[p]
  BY DEF strip_pane_ids
<1>2. ASSUME NEW p \in Leaves(layout) PROVE new[p] = Pane(new[p].pane_id, new[p].cwd)
  <2> DEFINE node == [layout[p] EXCEPT !.pane_id = None]
  <2>1. layout[p] = Pane(layout[p].pane_id, layout[p].cwd)
    BY DEF IsLayout
  <2>2. node = Pane(None, layout[p].cwd)
    BY <2>1 DEF Pane
  <2>3. new[p] = node
    BY DEF strip_pane_ids, Leaves
  <2> HIDE DEF new, node
  <2>4. QED
    BY <2>2, <2>3 DEF Pane
<1> HIDE DEF new
<1>3. IsLayout(new) /\ Leaves(new) = Leaves(layout)
  BY <1>1, <1>2, SameShape
<1>4. QED
  BY <1>3 DEF new

\* layout.apply numbers the panes from n on, in order.
LEMMA FilledIsLayout ==
  ASSUME NEW layout, IsLayout(layout), NEW n \in Nat
  PROVE  /\ IsLayout(Filled(layout, n)) /\ PanesApart(Filled(layout, n))
         /\ Leaves(Filled(layout, n)) = Leaves(layout)
         /\ PaneIds(Filled(layout, n)) = n .. n + Cardinality(Leaves(layout)) - 1
<1> DEFINE new   == Filled(layout, n)
           at(p) == CHOOSE k \in DOMAIN leaves(layout) : leaves(layout)[k] = p
           size  == Cardinality(Leaves(layout))
<1>1. DOMAIN new = DOMAIN layout /\ \A p \in DOMAIN layout \ Leaves(layout) : new[p] = layout[p]
  BY DEF Filled
<1>2. ASSUME NEW p \in Leaves(layout)
      PROVE  new[p] = Pane(new[p].pane_id, new[p].cwd) /\ new[p].pane_id = n - 1 + at(p)
  <2> DEFINE id   == n - 1 + at(p)
             node == [layout[p] EXCEPT !.pane_id = id]
  <2>1. layout[p] = Pane(layout[p].pane_id, layout[p].cwd)
    BY DEF IsLayout
  <2>2. new[p] = node
    BY DEF Filled, Leaves
  <2> HIDE DEF new, id
  <2>3. node = Pane(id, layout[p].cwd)
    BY <2>1 DEF Pane
  <2> HIDE DEF node
  <2>4. QED
    BY <2>2, <2>3 DEF Pane, id
<1>3. size \in Nat /\ DOMAIN leaves(layout) = 1 .. size
  BY LeavesAreListed
<1>4. \A p \in Leaves(layout) : at(p) \in 1 .. size /\ leaves(layout)[at(p)] = p
  BY <1>3, LeavesAreListed
<1>5. \A k \in 1 .. size : leaves(layout)[k] \in Leaves(layout) /\ at(leaves(layout)[k]) = k
  BY <1>3, <1>4, LeavesAreListed
<1> HIDE DEF new, at, size
<1>6. IsLayout(new) /\ Leaves(new) = Leaves(layout)
  BY <1>1, <1>2, SameShape
<1>7. PanesApart(new)
  <2> SUFFICES ASSUME NEW p \in Leaves(layout), NEW q \in Leaves(layout),
                      new[p].pane_id = new[q].pane_id
               PROVE  p = q
    BY <1>6 DEF PanesApart
  <2>1. at(p) = at(q)
    BY <1>2, <1>3, <1>4
  <2>2. QED
    BY <1>4, <2>1
<1>8. PaneIds(new) = {n - 1 + at(p) : p \in Leaves(layout)}
  BY <1>2, <1>6 DEF PaneIds
<1>9. PaneIds(new) = n .. n + size - 1
  <2>1. ASSUME NEW p \in Leaves(layout) PROVE n - 1 + at(p) \in n .. n + size - 1
    BY <1>3, <1>4
  <2>2. ASSUME NEW id \in n .. n + size - 1 PROVE \E p \in Leaves(layout) : id = n - 1 + at(p)
    <3> DEFINE k == id - n + 1
    <3>1. k \in 1 .. size /\ id = n - 1 + k
      BY <1>3
    <3> HIDE DEF k
    <3>2. QED
      BY <1>5, <3>1
  <2>3. QED
    BY <1>8, <2>1, <2>2
<1>10. QED
  BY <1>6, <1>7, <1>9 DEF new, size

LEMMA SwappedIsLayout ==
  ASSUME NEW layout, IsLayout(layout), PanesApart(layout),
         NEW a \in PaneIds(layout), NEW b \in PaneIds(layout)
  PROVE  /\ IsLayout(Swapped(layout, a, b)) /\ PanesApart(Swapped(layout, a, b))
         /\ PaneIds(Swapped(layout, a, b)) = PaneIds(layout)
<1> DEFINE p   == PathOf(layout, a)
           q   == PathOf(layout, b)
           new == Swapped(layout, a, b)
           other(r) == IF r = p THEN q ELSE IF r = q THEN p ELSE r
<1>1. p \in Leaves(layout) /\ q \in Leaves(layout)
  BY PathIsLeaf
<1>2. new = [layout EXCEPT ![p] = layout[q], ![q] = layout[p]]
  BY DEF Swapped
<1> HIDE DEF p, q, new
<1>3. DOMAIN new = DOMAIN layout /\ \A r \in DOMAIN layout : new[r] = layout[other(r)]
  BY <1>1, <1>2 DEF Leaves
<1>4. /\ \A r \in Leaves(layout) : other(r) \in Leaves(layout) /\ other(other(r)) = r
      /\ \A r \in DOMAIN layout \ Leaves(layout) : other(r) = r
  BY <1>1
<1> HIDE DEF other
<1>5. IsLayout(new) /\ Leaves(new) = Leaves(layout)
  <2>1. \A r \in Leaves(layout) : new[r] = Pane(new[r].pane_id, new[r].cwd)
    BY <1>3, <1>4 DEF IsLayout, Leaves
  <2>2. QED
    BY <1>3, <1>4, <2>1, SameShape
<1>6. PanesApart(new)
  <2> SUFFICES ASSUME NEW r \in Leaves(layout), NEW s \in Leaves(layout),
                      new[r].pane_id = new[s].pane_id
               PROVE  r = s
    BY <1>5 DEF PanesApart
  <2>1. other(r) = other(s)
    BY <1>3, <1>4 DEF PanesApart, Leaves
  <2>2. QED
    BY <1>4, <2>1
<1>7. PaneIds(new) = PaneIds(layout)
  <2>1. \A r \in Leaves(layout) : new[r].pane_id = layout[other(r)].pane_id
    BY <1>3 DEF Leaves
  <2>2. \A r \in Leaves(layout) : layout[r].pane_id = new[other(r)].pane_id
    BY <1>4, <2>1
  <2>3. QED
    BY <1>4, <1>5, <2>1, <2>2 DEF PaneIds
<1>8. QED
  BY <1>5, <1>6, <1>7 DEF new

\* The target is beside the new pane where it was alone.
LEMMA SplitIsLayout ==
  ASSUME NEW layout, IsLayout(layout), PanesApart(layout), NEW target \in PaneIds(layout),
         NEW direction, NEW ratio, NEW id, NEW cwd, id \notin PaneIds(layout)
  PROVE  /\ IsLayout(SplitAt(layout, target, direction, ratio, Pane(id, cwd)))
         /\ PanesApart(SplitAt(layout, target, direction, ratio, Pane(id, cwd)))
         /\ PaneIds(SplitAt(layout, target, direction, ratio, Pane(id, cwd)))
              = PaneIds(layout) \cup {id}
<1> DEFINE top  == PathOf(layout, target)
           one  == Append(top, First)
           two  == Append(top, Second)
           pane == Pane(id, cwd)
           new  == SplitAt(layout, target, direction, ratio, pane)
           split == Split(direction, ratio)
           D    == DOMAIN layout
           L    == Leaves(layout)
<1>1. /\ DOMAIN new = D \cup {one, two}
      /\ \A p \in DOMAIN new : new[p] = CASE p = top -> split
                                          [] p = one -> layout[top]
                                          [] p = two -> pane
                                          [] OTHER -> layout[p]
  BY DEF SplitAt
<1>2. /\ top \in L /\ layout[top].pane_id = target
      /\ D \subseteq Paths /\ L \subseteq D
      /\ \A p \in L : layout[p] = Pane(layout[p].pane_id, layout[p].cwd)
      /\ \A p \in L : \A q \in D : Below(p, q) => q = p
  BY PathIsLeaf DEF IsLayout, Leaves, Paths
<1>3. /\ split.type # "pane" /\ pane.type = "pane" /\ pane.pane_id = id
      /\ pane = Pane(pane.pane_id, pane.cwd) /\ layout[top].type = "pane"
  BY <1>2 DEF Split, Pane, Leaves
<1> HIDE DEF new, top, pane, split
<1>4. one \in Paths /\ two \in Paths /\ one # top /\ two # top /\ one # two
  <2>1. one \in Paths /\ two \in Paths /\ one # top /\ two # top
    BY <1>2, ChildIs, BelowChild
  <2>2. one # two
    BY <1>2, <2>1, ChildrenApart, BelowIsOrder
  <2>3. QED
    BY <2>1, <2>2
<1>5. /\ \A q \in Paths : Below(one, q) \/ Below(two, q) => Below(top, q) /\ q # top
      /\ \A q \in Paths : Below(q, one) => q = one \/ Below(q, top)
      /\ \A q \in Paths : Below(q, two) => q = two \/ Below(q, top)
      /\ ~Below(one, two) /\ ~Below(two, one)
  BY <1>2, <1>4, BelowChild, ChildrenApart, BelowIsOrder
<1>6. Below(top, one) /\ Below(top, two)
  BY <1>2, BelowChild
<1> HIDE DEF one, two
<1>7. one \notin D /\ two \notin D
  BY <1>2, <1>4, <1>6
<1>8. /\ new[top] = split /\ new[one] = layout[top] /\ new[two] = pane
      /\ \A p \in D \ {top} : new[p] = layout[p]
  <2>1. top \in DOMAIN new /\ one \in DOMAIN new /\ two \in DOMAIN new
    BY <1>1, <1>2
  <2>2. new[top] = split
    BY <1>1, <1>4, <2>1
  <2>3. new[one] = layout[top]
    BY <1>1, <1>4, <2>1
  <2>4. new[two] = pane
    BY <1>1, <1>4, <2>1
  <2>5. QED
    BY <1>1, <1>7, <2>2, <2>3, <2>4
<1>9. Leaves(new) = (L \ {top}) \cup {one, two}
  BY <1>1, <1>2, <1>3, <1>7, <1>8 DEF Leaves
<1>10. IsLayout(new)
  <2>1. IsFiniteSet(DOMAIN new)
    <3>1. IsFiniteSet(D \cup {one})
      BY FS_AddElement DEF IsLayout
    <3>2. IsFiniteSet((D \cup {one}) \cup {two})
      BY <3>1, FS_AddElement
    <3>3. (D \cup {one}) \cup {two} = DOMAIN new
      BY <1>1
    <3>4. QED
      BY <3>2, <3>3
  <2>2. DOMAIN new \subseteq Paths
    BY <1>1, <1>2, <1>4
  <2>3. ASSUME NEW p \in Leaves(new) PROVE new[p] = Pane(new[p].pane_id, new[p].cwd)
    BY <1>2, <1>3, <1>8, <1>9
  <2>4. ASSUME NEW p \in Leaves(new), NEW q \in DOMAIN new, Below(p, q) PROVE q = p
    <3>1. CASE p \in L \ {top} /\ q \in D
      BY <1>2, <2>4, <3>1
    <3>2. CASE p \in L \ {top} /\ q \in {one, two}
      <4>1. Below(p, top)
        BY <1>2, <1>5, <1>7, <2>4, <3>2
      <4>2. QED
        BY <1>2, <3>2, <4>1
    <3>3. CASE p \in {one, two} /\ q \in D
      BY <1>2, <1>5, <2>4, <3>3
    <3>4. CASE p \in {one, two} /\ q \in {one, two}
      BY <1>5, <2>4, <3>4
    <3>5. QED
      BY <1>1, <1>9, <3>1, <3>2, <3>3, <3>4
  <2>5. QED
    BY <2>1, <2>2, <2>3, <2>4 DEF IsLayout, Paths
<1>11. PanesApart(new)
  <2> SUFFICES ASSUME NEW p \in Leaves(new), NEW q \in Leaves(new),
                      new[p].pane_id = new[q].pane_id, p # q
               PROVE  FALSE
    BY DEF PanesApart
  <2> DEFINE from(r) == IF r = one THEN top ELSE r
  <2>1. \A r \in Leaves(new) \ {two} : /\ from(r) \in L
                                       /\ new[r].pane_id = layout[from(r)].pane_id
    BY <1>2, <1>8, <1>9
  <2>2. \A r \in Leaves(new) \ {two} : new[r].pane_id # id
    BY <2>1 DEF PaneIds
  <2>3. p # two /\ q # two
    BY <1>3, <1>8, <2>2
  <2>4. from(p) = from(q)
    BY <2>1, <2>3 DEF PanesApart
  <2>5. QED
    BY <1>4, <1>9, <2>3, <2>4
<1>12. PaneIds(new) = PaneIds(layout) \cup {id}
  <2>1. ASSUME NEW x \in PaneIds(new) PROVE x \in PaneIds(layout) \cup {id}
    <3>1. PICK p \in Leaves(new) : x = new[p].pane_id
      BY DEF PaneIds
    <3>2. QED
      BY <1>2, <1>3, <1>8, <1>9, <3>1 DEF PaneIds
  <2>2. ASSUME NEW x \in PaneIds(layout) PROVE x \in PaneIds(new)
    <3>1. PICK p \in L : x = layout[p].pane_id
      BY DEF PaneIds
    <3>2. \E q \in Leaves(new) : x = new[q].pane_id
      BY <1>2, <1>8, <1>9, <3>1
    <3>3. QED
      BY <3>2 DEF PaneIds
  <2>3. id \in PaneIds(new)
    BY <1>3, <1>8, <1>9 DEF PaneIds
  <2>4. QED
    BY <2>1, <2>2, <2>3
<1>13. QED
  BY <1>10, <1>11, <1>12 DEF new, pane

(***************************************************************************)
(* Subtrees that move.                                                     *)
(***************************************************************************)
LEMMA ConcatIs ==
  ASSUME NEW a \in Paths, NEW x \in Paths
  PROVE  /\ a \o x \in Paths /\ Len(a \o x) = Len(a) + Len(x)
         /\ \A k \in 1 .. Len(a) : (a \o x)[k] = a[k]
         /\ \A k \in 1 .. Len(x) : (a \o x)[Len(a) + k] = x[k]
BY PathIsSeq DEF Paths

\* A path below a node is the node's, continued.
LEMMA BelowIsConcat ==
  ASSUME NEW a \in Paths, NEW p \in Paths
  PROVE  /\ Below(a, a \o p) /\ From(a, a \o p) = p
         /\ Below(a, p) => From(a, p) \in Paths /\ p = a \o From(a, p)
<1>1. Len(a) \in Nat
  BY PathIsSeq
<1>2. From(a, a \o p) = p
  BY FromConcat DEF Paths
<1>3. Below(a, a \o p)
  <2> DEFINE c == a \o p
  <2>1. c \in Paths /\ Len(c) = Len(a) + Len(p) /\ \A k \in 1 .. Len(a) : c[k] = a[k]
    BY ConcatIs
  <2> HIDE DEF c
  <2>2. Len(p) \in Nat
    BY PathIsSeq
  <2>3. Below(a, c)
    BY <1>1, <2>1, <2>2, BelowIs
  <2>4. QED
    BY <2>3 DEF c
<1>4. Below(a, p) => From(a, p) \in Paths /\ p = a \o From(a, p)
  BY <1>1, BelowIsPrefix DEF Paths
<1>5. QED
  BY <1>2, <1>3, <1>4

\* Moving a subtree keeps what is below what in it.
LEMMA BelowMoves ==
  ASSUME NEW a \in Paths, NEW b \in Paths, NEW x \in Paths, NEW y \in Paths,
         Below(a \o x, a \o y)
  PROVE  Below(b \o x, b \o y)
<1> DEFINE ax == a \o x
           ay == a \o y
           bx == b \o x
           by == b \o y
<1>1. /\ ax \in Paths /\ Len(ax) = Len(a) + Len(x)
      /\ \A k \in 1 .. Len(x) : ax[Len(a) + k] = x[k]
      /\ ay \in Paths /\ Len(ay) = Len(a) + Len(y)
      /\ \A k \in 1 .. Len(y) : ay[Len(a) + k] = y[k]
  BY ConcatIs
<1>2. /\ bx \in Paths /\ Len(bx) = Len(b) + Len(x)
      /\ \A k \in 1 .. Len(b) : bx[k] = b[k]
      /\ \A k \in 1 .. Len(x) : bx[Len(b) + k] = x[k]
  BY ConcatIs
<1>3. /\ by \in Paths /\ Len(by) = Len(b) + Len(y)
      /\ \A k \in 1 .. Len(b) : by[k] = b[k]
      /\ \A k \in 1 .. Len(y) : by[Len(b) + k] = y[k]
  BY ConcatIs
<1>4. Below(ax, ay)
  OBVIOUS
<1> HIDE DEF ax, ay, bx, by
<1>5. Len(a) \in Nat /\ Len(b) \in Nat /\ Len(x) \in Nat /\ Len(y) \in Nat
  BY PathIsSeq
<1>6. Len(ax) <= Len(ay) /\ \A k \in 1 .. Len(ax) : ax[k] = ay[k]
  BY <1>1, <1>4, BelowIs
<1>7. Len(x) <= Len(y)
  BY <1>1, <1>5, <1>6
<1>8. ASSUME NEW k \in 1 .. Len(x) PROVE x[k] = y[k]
  <2>1. Len(a) + k \in 1 .. Len(ax) /\ k \in 1 .. Len(y)
    BY <1>1, <1>5, <1>7
  <2>2. QED
    BY <1>1, <1>6, <2>1
<1>9. ASSUME NEW k \in 1 .. Len(bx) PROVE bx[k] = by[k]
  <2>1. CASE k \in 1 .. Len(b)
    BY <1>2, <1>3, <2>1
  <2>2. CASE k \notin 1 .. Len(b)
    <3> DEFINE m == k - Len(b)
    <3>1. m \in 1 .. Len(x) /\ m \in 1 .. Len(y) /\ k = Len(b) + m
      BY <1>2, <1>5, <1>7, <2>2
    <3> HIDE DEF m
    <3>2. QED
      BY <1>2, <1>3, <1>8, <3>1
  <2>3. QED
    BY <2>1, <2>2
<1>10. Len(bx) <= Len(by)
  BY <1>2, <1>3, <1>5, <1>7
<1>11. Below(bx, by)
  BY <1>2, <1>3, <1>9, <1>10, BelowIs
<1>12. QED
  BY <1>11 DEF bx, by

\* What is strictly below a node is below one of its children.
LEMMA BelowSomeChild ==
  ASSUME NEW p \in Paths, NEW q \in Paths, Below(p, q), p # q
  PROVE  \E side \in {First, Second} : Below(Append(p, side), q)
<1>1. /\ Len(p) \in Nat /\ Len(q) \in Nat /\ DOMAIN q = 1 .. Len(q)
      /\ \A k \in DOMAIN q : q[k] \in {First, Second}
  BY PathIsSeq
<1>2. Len(p) <= Len(q) /\ \A k \in 1 .. Len(p) : p[k] = q[k]
  BY BelowIs
<1>3. Len(p) # Len(q)
  BY <1>1, <1>2, SeqEqual DEF Paths
<1> DEFINE n    == Len(p) + 1
           side == q[n]
           c    == Append(p, side)
<1>4. n \in 1 .. Len(q) /\ side \in {First, Second}
  BY <1>1, <1>2, <1>3
<1> HIDE DEF side
<1>5. c \in Paths /\ Len(c) = n /\ (\A k \in 1 .. Len(p) : c[k] = p[k]) /\ c[n] = side
  BY <1>4, ChildIs
<1> HIDE DEF c
<1>6. \A k \in 1 .. Len(c) : c[k] = q[k]
  BY <1>1, <1>2, <1>5 DEF side
<1>7. Below(c, q)
  BY <1>1, <1>4, <1>5, <1>6, BelowIs
<1>8. QED
  BY <1>4, <1>7 DEF c

LEMMA ChildOfParent ==
  ASSUME NEW p \in Paths, Len(p) # 0
  PROVE  /\ Parent(p) \in Paths /\ Side(p) \in {First, Second}
         /\ Other(Side(p)) \in {First, Second} /\ Other(Side(p)) # Side(p)
         /\ p = Append(Parent(p), Side(p))
<1> DEFINE n == Len(p)
           q == SubSeq(p, 1, n - 1)
<1>1. n \in Nat \ {0} /\ DOMAIN p = 1 .. n /\ p[n] \in {First, Second}
  <2>1. Len(p) \in Nat /\ DOMAIN p = 1 .. Len(p) /\ \A k \in DOMAIN p : p[k] \in {First, Second}
    BY PathIsSeq
  <2>2. QED
    BY <2>1
<1>2. q \in Paths /\ Len(q) = n - 1 /\ \A k \in 1 .. n - 1 : q[k] = p[k]
  BY <1>1 DEF Paths
<1> HIDE DEF q
<1>3. /\ Append(q, p[n]) \in Paths /\ Len(Append(q, p[n])) = n
      /\ \A k \in 1 .. n - 1 : Append(q, p[n])[k] = p[k]
      /\ Append(q, p[n])[n] = p[n]
  <2> DEFINE side == p[n]
  <2>1. side \in {First, Second}
    BY <1>1
  <2> HIDE DEF side
  <2>2. /\ Append(q, side) \in Paths /\ Len(Append(q, side)) = Len(q) + 1
        /\ \A k \in 1 .. Len(q) : Append(q, side)[k] = q[k]
        /\ Append(q, side)[Len(q) + 1] = side
    BY <1>2, <2>1, ChildIs
  <2>3. Len(q) + 1 = n
    BY <1>1, <1>2
  <2>4. QED
    BY <1>2, <2>2, <2>3 DEF side
<1> DEFINE r == Append(q, p[n])
<1>4. r = p
  <2>1. r \in Paths /\ Len(r) = Len(p) /\ \A k \in 1 .. Len(p) : r[k] = p[k]
    BY <1>1, <1>3
  <2> HIDE DEF r
  <2>2. QED
    BY <2>1, SeqEqual DEF Paths
<1>5. Parent(p) = q /\ Side(p) = p[n]
  BY DEF Parent, Side, q
<1>6. Other(p[n]) \in {First, Second} /\ Other(p[n]) # p[n]
  BY <1>1 DEF Other, First, Second
<1>7. QED
  BY <1>1, <1>2, <1>4, <1>5, <1>6

\* A closed pane's sibling moves up, and every other pane is still there.
LEMMA ClosedIsLayout ==
  ASSUME NEW layout, IsLayout(layout), PanesApart(layout),
         NEW pane \in PaneIds(layout), PaneIds(layout) # {pane}
  PROVE  /\ IsLayout(Closed(layout, pane)) /\ PanesApart(Closed(layout, pane))
         /\ PaneIds(Closed(layout, pane)) = PaneIds(layout) \ {pane}
<1> DEFINE D    == DOMAIN layout
           L    == Leaves(layout)
           path == PathOf(layout, pane)
           top  == Parent(path)
           side == Other(Side(path))
           rest == Append(top, side)
           kept == {p \in D : ~Below(top, p)}
           up   == Subtree(layout, rest)
           U    == DOMAIN up
           new  == Closed(layout, pane)
<1>1. /\ DOMAIN new = kept \cup {top \o x : x \in U}
      /\ \A p \in DOMAIN new : new[p] = IF p \in kept THEN layout[p] ELSE up[From(top, p)]
  BY DEF Closed
<1>2. /\ U = {From(rest, q) : q \in {r \in D : Below(rest, r)}}
      /\ \A x \in U : up[x] = layout[rest \o x]
  BY DEF Subtree
<1>3. /\ path \in L /\ layout[path].pane_id = pane
      /\ D \subseteq Paths /\ L \subseteq D /\ IsFiniteSet(D)
      /\ \A p \in D : p \in L <=> layout[p].type = "pane"
      /\ \A p \in L : layout[p] = Pane(layout[p].pane_id, layout[p].cwd)
      /\ \A p \in L : \A q \in D : Below(p, q) => q = p
  BY PathIsLeaf DEF IsLayout, Leaves, Paths
<1> HIDE DEF new, path, D, L, U, up
<1>4. PICK o \in L : o # path
  <2>1. PICK id \in PaneIds(layout) : id # pane
    BY DEF PaneIds
  <2>2. PICK o \in L : layout[o].pane_id = id
    BY DEF PaneIds, L
  <2>3. QED
    BY <1>3, <2>1, <2>2
<1>5. Len(path) # 0
  <2>1. Len(path) = 0 => Below(path, o)
    BY <1>3, PathIsSeq, BelowIs
  <2>2. QED
    BY <1>3, <1>4, <2>1
<1>6. /\ top \in Paths /\ Side(path) \in {First, Second} /\ side \in {First, Second}
      /\ side # Side(path) /\ path = Append(top, Side(path))
  BY <1>3, <1>5, ChildOfParent
<1> HIDE DEF top, side
<1>7. rest \in Paths /\ Below(top, path) /\ top # path /\ Below(top, rest)
  <2>1. rest \in Paths /\ Below(top, rest)
    BY <1>6, BelowChild, ChildIs
  <2> DEFINE s == Side(path)
  <2>2. s \in {First, Second} /\ path = Append(top, s)
    BY <1>6
  <2> HIDE DEF s
  <2>3. Below(top, Append(top, s)) /\ Append(top, s) # top
    BY <1>6, <2>2, BelowChild
  <2>4. QED
    BY <2>1, <2>2, <2>3
<1>8. \A q \in Paths : ~(Below(path, q) /\ Below(rest, q))
  <2> DEFINE s == Side(path)
  <2>1. s \in {First, Second} /\ path = Append(top, s)
    BY <1>6
  <2>2. {s, side} = {First, Second}
    BY <1>6
  <2> HIDE DEF s
  <2>3. ASSUME NEW q \in Paths PROVE ~(Below(Append(top, s), q) /\ Below(rest, q))
    <3>1. ~(Below(Append(top, First), q) /\ Below(Append(top, Second), q))
      BY <1>6, ChildrenApart
    <3>2. \/ s = First /\ side = Second
          \/ s = Second /\ side = First
      BY <1>6, <2>1
    <3>3. QED
      BY <3>1, <3>2
  <2>4. QED
    BY <2>1, <2>3
<1>9. \A q \in Paths : Below(top, q) /\ q # top => Below(path, q) \/ Below(rest, q)
  <2> SUFFICES ASSUME NEW q \in Paths, Below(top, q), q # top
               PROVE  Below(path, q) \/ Below(rest, q)
    OBVIOUS
  <2>1. PICK s \in {First, Second} : Below(Append(top, s), q)
    BY <1>6, BelowSomeChild
  <2>2. s = Side(path) \/ s = side
    BY <1>6
  <2>3. QED
    BY <1>6, <2>1, <2>2
<1>10. \A q \in Paths : Below(rest, q) => Below(top, q)
  BY <1>6, BelowChild
<1> HIDE DEF rest
\* What moves up, and from where.
<1>11. ASSUME NEW x \in U
       PROVE  /\ x \in Paths /\ rest \o x \in D /\ Below(rest, rest \o x)
              /\ top \o x \in Paths /\ Below(top, top \o x) /\ From(top, top \o x) = x
  <2>1. PICK r \in D : Below(rest, r) /\ x = From(rest, r)
    BY <1>2
  <2>2. x \in Paths /\ r = rest \o x
    BY <1>3, <1>7, <2>1, BelowIsConcat
  <2>3. QED
    BY <1>6, <2>1, <2>2, BelowIsConcat, ConcatIs
<1>12. ASSUME NEW r \in D, Below(rest, r)
       PROVE  From(rest, r) \in U /\ r = rest \o From(rest, r)
  BY <1>2, <1>3, <1>7, <1>12, BelowIsConcat
<1>13. \A p \in kept : p \in DOMAIN new /\ new[p] = layout[p] /\ p \in D /\ p \in Paths
       /\ ~Below(top, p)
  BY <1>1, <1>3
<1>14. \A x \in U : top \o x \in DOMAIN new /\ new[top \o x] = layout[rest \o x]
  <2> SUFFICES ASSUME NEW x \in U
               PROVE  top \o x \in DOMAIN new /\ new[top \o x] = layout[rest \o x]
    OBVIOUS
  <2>1. top \o x \in DOMAIN new /\ top \o x \notin kept /\ From(top, top \o x) = x
    BY <1>1, <1>11
  <2>2. new[top \o x] = up[x]
    BY <1>1, <2>1
  <2>3. QED
    BY <1>2, <2>1, <2>2
<1>15. \A p \in DOMAIN new : p \in kept \/ \E x \in U : p = top \o x
  BY <1>1
<1> HIDE DEF kept
\* Where a leaf of the new layout was in the old one.
<1>16. /\ \A p \in kept : p \in Leaves(new) <=> p \in L
       /\ \A x \in U : top \o x \in Leaves(new) <=> rest \o x \in L
  BY <1>3, <1>11, <1>13, <1>14 DEF Leaves
<1>17. IsLayout(new)
  <2>1. IsFiniteSet(DOMAIN new)
    <3> DEFINE g == [p \in D |-> IF Below(rest, p) THEN top \o From(rest, p) ELSE p]
               S == {g[p] : p \in D}
    <3>1. IsFiniteSet(S)
      <4>1. g \in Surjection(D, S)
        BY DEF Surjection
      <4> HIDE DEF g, S
      <4>2. QED
        BY <1>3, <4>1, FS_Surjection
    <3>2. ASSUME NEW p \in DOMAIN new PROVE \E r \in D : p = g[r]
      <4>1. CASE p \in kept
        BY <1>10, <1>13, <4>1
      <4>2. CASE \E x \in U : p = top \o x
        <5>1. PICK x \in U : p = top \o x
          BY <4>2
        <5>2. rest \o x \in D /\ Below(rest, rest \o x) /\ From(rest, rest \o x) = x
          BY <1>7, <1>11, BelowIsConcat
        <5>3. QED
          BY <5>1, <5>2
      <4>3. QED
        BY <1>15, <4>1, <4>2
    <3>3. DOMAIN new \subseteq S
      BY <3>2
    <3> HIDE DEF S
    <3>4. QED
      BY <3>1, <3>3, FS_Subset
  <2>2. DOMAIN new \subseteq Paths
    BY <1>11, <1>13, <1>15
  <2>3. ASSUME NEW p \in Leaves(new) PROVE new[p] = Pane(new[p].pane_id, new[p].cwd)
    <3>1. p \in DOMAIN new
      BY DEF Leaves
    <3>2. CASE p \in kept
      BY <1>3, <1>13, <1>16, <3>2
    <3>3. CASE \E x \in U : p = top \o x
      BY <1>3, <1>14, <1>16, <3>3
    <3>4. QED
      BY <1>15, <3>1, <3>2, <3>3
  <2>4. ASSUME NEW p \in Leaves(new), NEW q \in DOMAIN new, Below(p, q) PROVE q = p
    <3>0. p \in DOMAIN new
      BY DEF Leaves
    <3>1. CASE p \in kept /\ q \in kept
      BY <1>3, <1>13, <1>16, <2>4, <3>1
    <3>2. CASE p \in kept /\ \E x \in U : q = top \o x
      <4>1. PICK x \in U : q = top \o x
        BY <3>2
      <4>2. p \in Paths /\ q \in Paths /\ Below(top, q) /\ ~Below(top, p) /\ p \in L
        BY <1>11, <1>13, <1>16, <3>2, <4>1
      <4>3. Below(p, top)
        BY <1>6, <2>4, <4>2, BelowIsOrder
      <4>4. Below(p, path)
        BY <1>3, <1>6, <1>7, <4>2, <4>3, BelowIsOrder
      <4>5. QED
        BY <1>3, <1>7, <4>2, <4>4
    <3>3. CASE (\E x \in U : p = top \o x) /\ q \in kept
      <4>1. PICK x \in U : p = top \o x
        BY <3>3
      <4>2. p \in Paths /\ Below(top, p) /\ q \in Paths /\ ~Below(top, q)
        BY <1>11, <1>13, <3>3, <4>1
      <4>3. QED
        BY <1>6, <2>4, <4>2, BelowIsOrder
    <3>4. CASE (\E x \in U : p = top \o x) /\ \E y \in U : q = top \o y
      <4>1. PICK x \in U : p = top \o x
        BY <3>4
      <4>2. PICK y \in U : q = top \o y
        BY <3>4
      <4>3. x \in Paths /\ y \in Paths /\ rest \o x \in L /\ rest \o y \in D
        BY <1>11, <1>16, <4>1
      <4>4. Below(rest \o x, rest \o y)
        BY <1>6, <1>7, <2>4, <4>1, <4>2, <4>3, BelowMoves
      <4>5. rest \o x = rest \o y
        BY <1>3, <4>3, <4>4
      <4>6. From(rest, rest \o x) = x /\ From(rest, rest \o y) = y
        BY <1>7, <4>3, BelowIsConcat
      <4>7. QED
        BY <4>1, <4>2, <4>5, <4>6
    <3>5. QED
      BY <1>15, <3>0, <3>1, <3>2, <3>3, <3>4
  <2>5. QED
    BY <2>1, <2>2, <2>3, <2>4 DEF IsLayout, Paths
\* Each leaf has one place it comes from.
<1> DEFINE From0(p, r) == \/ p \in kept /\ r = p
                          \/ \E x \in U : p = top \o x /\ r = rest \o x
<1>18. ASSUME NEW p \in Leaves(new)
       PROVE  \E r \in L : From0(p, r) /\ r # path /\ new[p].pane_id = layout[r].pane_id
  <2>0. p \in DOMAIN new
    BY DEF Leaves
  <2>1. CASE p \in kept
    BY <1>7, <1>13, <1>16, <2>1
  <2>2. CASE \E x \in U : p = top \o x
    <3>1. PICK x \in U : p = top \o x
      BY <2>2
    <3>2. rest \o x \in L /\ new[p] = layout[rest \o x]
      BY <1>14, <1>16, <3>1
    <3>3. rest \o x # path
      BY <1>3, <1>8, <1>11, BelowIsOrder
    <3>4. QED
      BY <3>1, <3>2, <3>3
  <2>3. QED
    BY <1>15, <2>0, <2>1, <2>2
<1>19. ASSUME NEW p, NEW q, NEW r, From0(p, r), From0(q, r) PROVE p = q
  <2>1. \A y \in U : From(rest, rest \o y) = y /\ rest \o y \in Paths /\ Below(top, rest \o y)
    BY <1>3, <1>7, <1>10, <1>11, BelowIsConcat
  <2>2. QED
    BY <1>13, <1>19, <2>1
<1>20. ASSUME NEW r \in L, r # path
       PROVE  \E p \in Leaves(new) : new[p].pane_id = layout[r].pane_id
  <2>0. r \in D /\ r \in Paths
    BY <1>3
  <2>1. CASE ~Below(top, r)
    <3>1. r \in kept
      BY <2>0, <2>1 DEF kept
    <3>2. QED
      BY <1>13, <1>16, <3>1
  <2>2. CASE Below(top, r)
    <3>1. r # top
      BY <1>3, <1>6, <1>7
    <3>2. Below(rest, r)
      BY <1>3, <1>9, <1>20, <2>0, <2>2, <3>1
    <3>3. From(rest, r) \in U /\ r = rest \o From(rest, r)
      BY <1>12, <2>0, <3>2
    <3>4. QED
      BY <1>14, <1>16, <3>3
  <2>3. QED
    BY <2>1, <2>2
<1> HIDE DEF From0
<1>21. PanesApart(new)
  <2> SUFFICES ASSUME NEW p \in Leaves(new), NEW q \in Leaves(new),
                      new[p].pane_id = new[q].pane_id
               PROVE  p = q
    BY DEF PanesApart
  <2>1. PICK r \in L : From0(p, r) /\ new[p].pane_id = layout[r].pane_id
    BY <1>18
  <2>2. PICK s \in L : From0(q, s) /\ new[q].pane_id = layout[s].pane_id
    BY <1>18
  <2>3. r = s
    BY <2>1, <2>2 DEF PanesApart, L
  <2>4. QED
    BY <1>19, <2>1, <2>2, <2>3
<1>22. PaneIds(new) = PaneIds(layout) \ {pane}
  <2>1. ASSUME NEW id \in PaneIds(new) PROVE id \in PaneIds(layout) /\ id # pane
    <3>1. PICK p \in Leaves(new) : id = new[p].pane_id
      BY DEF PaneIds
    <3>2. PICK r \in L : r # path /\ id = layout[r].pane_id
      BY <1>18, <3>1
    <3>3. QED
      BY <1>3, <3>2 DEF PaneIds, PanesApart, L
  <2>2. ASSUME NEW id \in PaneIds(layout), id # pane PROVE id \in PaneIds(new)
    <3>1. PICK r \in L : id = layout[r].pane_id
      BY DEF PaneIds, L
    <3>2. r # path
      BY <1>3, <2>2, <3>1
    <3>3. QED
      BY <1>20, <3>1, <3>2 DEF PaneIds
  <2>3. QED
    BY <2>1, <2>2
<1>23. QED
  BY <1>17, <1>21, <1>22 DEF new

(***************************************************************************)
(* Sequences.                                                              *)
(***************************************************************************)
IsSeq(s) == s \in Seq(Range(s))

LEMMA SeqWithRange ==
  ASSUME NEW S, NEW s \in Seq(S)
  PROVE  IsSeq(s) /\ Range(s) \subseteq S
<1>1. s \in [1 .. Len(s) -> S] /\ Len(s) \in Nat /\ DOMAIN s = 1 .. Len(s)
  OBVIOUS
<1>2. s \in [1 .. Len(s) -> Range(s)] /\ Range(s) \subseteq S
  BY <1>1 DEF Range
<1>3. QED
  BY <1>1, <1>2, SeqDef DEF IsSeq

\* A function over the positions of a sequence is a sequence.
LEMMA MapIsSeq ==
  ASSUME NEW s, IsSeq(s), NEW f, f = [i \in DOMAIN s |-> f[i]]
  PROVE  IsSeq(f)
<1>1. Len(s) \in Nat /\ DOMAIN s = 1 .. Len(s)
  BY DEF IsSeq
<1>2. f \in [1 .. Len(s) -> Range(f)]
  BY <1>1 DEF Range
<1>3. QED
  BY <1>1, <1>2, SeqDef DEF IsSeq

LEMMA AppendIsSeq ==
  ASSUME NEW s, IsSeq(s), NEW e
  PROVE  IsSeq(Append(s, e)) /\ Range(Append(s, e)) \subseteq Range(s) \cup {e}
<1>1. s \in Seq(Range(s) \cup {e})
  BY SeqWithRange DEF IsSeq
<1>2. Append(s, e) \in Seq(Range(s) \cup {e})
  BY <1>1
<1>3. QED
  BY <1>2, SeqWithRange

LEMMA ConcatIsSeq ==
  ASSUME NEW r, IsSeq(r), NEW s, IsSeq(s)
  PROVE  /\ IsSeq(r \o s) /\ Range(r \o s) \subseteq Range(r) \cup Range(s)
         /\ Len(r \o s) = Len(r) + Len(s)
<1>1. r \in Seq(Range(r) \cup Range(s)) /\ s \in Seq(Range(r) \cup Range(s))
  BY DEF IsSeq
<1>2. r \o s \in Seq(Range(r) \cup Range(s)) /\ Len(r \o s) = Len(r) + Len(s)
  BY <1>1
<1>3. QED
  BY <1>2, SeqWithRange

LEMMA TailIsSeq ==
  ASSUME NEW s, IsSeq(s), s # << >>
  PROVE  /\ Head(s) \in Range(s) /\ IsSeq(Tail(s)) /\ Range(Tail(s)) \subseteq Range(s)
         /\ Len(Tail(s)) = Len(s) - 1 /\ (Len(s) = 1 => Tail(s) = << >>)
<1>1. Head(s) \in Range(s) /\ Tail(s) \in Seq(Range(s)) /\ Len(Tail(s)) = Len(s) - 1
  BY DEF IsSeq
<1>2. Len(s) = 1 => Tail(s) = << >>
  <2> SUFFICES ASSUME Len(s) = 1 PROVE Tail(s) = << >>
    OBVIOUS
  <2>1. Len(Tail(s)) = 0
    BY <1>1
  <2>2. QED
    BY <1>1, <2>1, EmptySeq
<1>3. QED
  BY <1>1, <1>2, SeqWithRange

LEMMA KeepIsSeq ==
  ASSUME NEW s, IsSeq(s), NEW K \in SUBSET DOMAIN s
  PROVE  IsSeq(Keep(s, K)) /\ Range(Keep(s, K)) \subseteq Range(s)
<1>1. Keep(s, K) \in Seq(Range(s))
  BY KeepSelects DEF IsSeq
<1>2. QED
  BY <1>1, SeqWithRange

LEMMA EmptyIsSeq == IsSeq(<< >>) /\ Range(<< >>) = {} /\ DOMAIN << >> = {}
<1> DEFINE empty == << >>
<1>1. empty \in Seq({}) /\ DOMAIN empty = {}
  BY EmptySeq
<1> HIDE DEF empty
<1>2. IsSeq(empty) /\ Range(empty) \subseteq {}
  BY <1>1, SeqWithRange
<1>3. QED
  BY <1>1, <1>2 DEF empty

LEMMA OneIsSeq == ASSUME NEW e PROVE IsSeq(<<e>>) /\ Range(<<e>>) = {e} /\ Len(<<e>>) = 1
<1>1. <<e>> \in Seq({e}) /\ Range(<<e>>) = {e}
  BY DEF Range
<1>2. QED
  BY <1>1, SeqWithRange

(***************************************************************************)
(* Sessions.                                                               *)
(***************************************************************************)
IsTab(t) ==
  /\ t = Tab(t.id, t.label, t.focused, t.layout)
  /\ t.id \in Nat /\ IsLayout(t.layout) /\ PanesApart(t.layout)

IsWorkspace(w) ==
  /\ w = Workspace(w.id, w.label, w.cwd, w.active, w.tabs)
  /\ IsSeq(w.tabs)
  /\ \A t \in Range(w.tabs) : IsTab(t)

IsSession(h) == IsSeq(h) /\ \A w \in Range(h) : IsWorkspace(w)

\* t is s, or what closing panes of s leaves.
LeftOf(t, s) == t.id = s.id /\ PaneIds(t.layout) \subseteq PaneIds(s.layout)

\* A session made of the given tabs and of what closing panes of theirs leaves.
Within(h, tabs) == IsSession(h) /\ \A t \in TabsIn(h) : \E s \in tabs : LeftOf(t, s)

LEMMA WithinItself ==
  ASSUME NEW h, IsSession(h) PROVE Within(h, TabsIn(h))
BY DEF Within, LeftOf

LEMMA WithinIsTransitive ==
  ASSUME NEW h, NEW tabs, Within(h, tabs), NEW h2, Within(h2, TabsIn(h))
  PROVE  Within(h2, tabs)
BY DEF Within, LeftOf

LEMMA TabsOfWorkspaces ==
  ASSUME NEW h, NEW t
  PROVE  t \in TabsIn(h) <=> \E i \in DOMAIN h : t \in Range(h[i].tabs)
BY DEF TabsIn

LEMMA MembersOfSession ==
  ASSUME NEW h, IsSession(h)
  PROVE  /\ \A i \in DOMAIN h : IsWorkspace(h[i])
         /\ \A i \in DOMAIN h : \A j \in DOMAIN h[i].tabs : h[i].tabs[j] \in TabsIn(h)
         /\ \A t \in TabsIn(h) : IsTab(t)
<1>1. \A i \in DOMAIN h : h[i] \in Range(h)
  BY DEF Range
<1>2. \A i \in DOMAIN h : IsWorkspace(h[i])
  BY <1>1 DEF IsSession
<1>3. QED
  BY <1>2 DEF TabsIn, IsWorkspace, Range

\* Workspaces changed in place.
LEMMA ChangedInPlace ==
  ASSUME NEW h, IsSession(h), NEW tabs, NEW h2, h2 = [i \in DOMAIN h |-> h2[i]],
         \A i \in DOMAIN h : /\ IsWorkspace(h2[i])
                             /\ \A t \in Range(h2[i].tabs) : \E s \in tabs : LeftOf(t, s)
  PROVE  Within(h2, tabs)
<1>1. IsSeq(h2)
  BY MapIsSeq DEF IsSession
<1>2. DOMAIN h2 = DOMAIN h
  OBVIOUS
<1>3. IsSession(h2)
  BY <1>1, <1>2 DEF IsSession, Range
<1>4. ASSUME NEW t \in TabsIn(h2) PROVE \E s \in tabs : LeftOf(t, s)
  <2>1. PICK i \in DOMAIN h : t \in Range(h2[i].tabs)
    BY <1>2, TabsOfWorkspaces
  <2>2. QED
    BY <2>1
<1>5. QED
  BY <1>3, <1>4 DEF Within

LEMMA WorkspaceWithTabs ==
  ASSUME NEW w, IsWorkspace(w), NEW s, IsSeq(s), \A t \in Range(s) : IsTab(t)
  PROVE  /\ IsWorkspace([w EXCEPT !.tabs = s]) /\ [w EXCEPT !.tabs = s].tabs = s
         /\ [w EXCEPT !.tabs = s].id = w.id /\ [w EXCEPT !.tabs = s].active = w.active
<1> DEFINE w2 == [w EXCEPT !.tabs = s]
<1>1. w = [id |-> w.id, label |-> w.label, cwd |-> w.cwd, active |-> w.active, tabs |-> w.tabs]
  BY DEF IsWorkspace, Workspace
<1>2. w2 = [id |-> w.id, label |-> w.label, cwd |-> w.cwd, active |-> w.active, tabs |-> s]
  BY <1>1
<1>3. w2 = [id |-> w2.id, label |-> w2.label, cwd |-> w2.cwd, active |-> w2.active,
            tabs |-> w2.tabs] /\ w2.tabs = s /\ w2.id = w.id /\ w2.active = w.active
  BY <1>2
<1> HIDE DEF w2
<1>4. IsWorkspace(w2)
  BY <1>3 DEF IsWorkspace, Workspace
<1>5. QED
  BY <1>3, <1>4 DEF w2

LEMMA WorkspaceWithActive ==
  ASSUME NEW w, IsWorkspace(w), NEW id
  PROVE  /\ IsWorkspace([w EXCEPT !.active = id]) /\ [w EXCEPT !.active = id].tabs = w.tabs
         /\ [w EXCEPT !.active = id].id = w.id /\ [w EXCEPT !.active = id].active = id
<1> DEFINE w2 == [w EXCEPT !.active = id]
<1>1. w = [id |-> w.id, label |-> w.label, cwd |-> w.cwd, active |-> w.active, tabs |-> w.tabs]
  BY DEF IsWorkspace, Workspace
<1>2. w2 = [id |-> w.id, label |-> w.label, cwd |-> w.cwd, active |-> id, tabs |-> w.tabs]
  BY <1>1
<1>3. w2 = [id |-> w2.id, label |-> w2.label, cwd |-> w2.cwd, active |-> w2.active,
            tabs |-> w2.tabs] /\ w2.tabs = w.tabs /\ w2.id = w.id /\ w2.active = id
  BY <1>2
<1> HIDE DEF w2
<1>4. IsWorkspace(w2)
  BY <1>3 DEF IsWorkspace, Workspace
<1>5. QED
  BY <1>3, <1>4 DEF w2

LEMMA RelabelledTab ==
  ASSUME NEW t, IsTab(t), NEW x, NEW u, u = [t EXCEPT !.label = x]
  PROVE  /\ IsTab(u) /\ LeftOf(u, t) /\ u.layout = t.layout /\ u.focused = t.focused
<1>1. t = [id |-> t.id, label |-> t.label, focused |-> t.focused, layout |-> t.layout]
  BY DEF IsTab, Tab
<1>2. u = [id |-> t.id, label |-> x, focused |-> t.focused, layout |-> t.layout]
  BY <1>1
<1>3. /\ u.id = t.id /\ u.layout = t.layout /\ u.focused = t.focused
      /\ u = [id |-> u.id, label |-> u.label, focused |-> u.focused, layout |-> u.layout]
  BY ONLY <1>2
<1>4. QED
  BY <1>3 DEF IsTab, Tab, LeftOf

LEMMA RefocusedTab ==
  ASSUME NEW t, IsTab(t), NEW x, NEW u, u = [t EXCEPT !.focused = x]
  PROVE  /\ IsTab(u) /\ LeftOf(u, t) /\ u.layout = t.layout /\ u.focused = x
<1>1. t = [id |-> t.id, label |-> t.label, focused |-> t.focused, layout |-> t.layout]
  BY DEF IsTab, Tab
<1>2. u = [id |-> t.id, label |-> t.label, focused |-> x, layout |-> t.layout]
  BY <1>1
<1>3. /\ u.id = t.id /\ u.layout = t.layout /\ u.focused = x
      /\ u = [id |-> u.id, label |-> u.label, focused |-> u.focused, layout |-> u.layout]
  BY ONLY <1>2
<1>4. QED
  BY <1>3 DEF IsTab, Tab, LeftOf

LEMMA RelaidTab ==
  ASSUME NEW t, IsTab(t), NEW x, IsLayout(x), PanesApart(x), NEW u, u = [t EXCEPT !.layout = x]
  PROVE  /\ IsTab(u) /\ u.id = t.id /\ u.layout = x /\ u.focused = t.focused
         /\ PaneIds(x) \subseteq PaneIds(t.layout) => LeftOf(u, t)
<1>1. t = [id |-> t.id, label |-> t.label, focused |-> t.focused, layout |-> t.layout]
  BY DEF IsTab, Tab
<1>2. u = [id |-> t.id, label |-> t.label, focused |-> t.focused, layout |-> x]
  BY <1>1
<1>3. /\ u.id = t.id /\ u.layout = x /\ u.focused = t.focused
      /\ u = [id |-> u.id, label |-> u.label, focused |-> u.focused, layout |-> u.layout]
  BY ONLY <1>2
<1>4. QED
  BY <1>3 DEF IsTab, Tab, LeftOf

\* Tabs changed in place.
LEMMA EachTabChanged ==
  ASSUME NEW h, IsSession(h), NEW f, \A t \in TabsIn(h) : IsTab(f[t])
  PROVE  /\ IsSession(EachTab(h, f))
         /\ \A t \in TabsIn(EachTab(h, f)) : \E s \in TabsIn(h) : t = f[s]
<1> DEFINE row(i) == [j \in DOMAIN h[i].tabs |-> f[h[i].tabs[j]]]
           h2 == EachTab(h, f)
           new == {f[t] : t \in TabsIn(h)}
<1>1. h2 = [i \in DOMAIN h |-> [h[i] EXCEPT !.tabs = row(i)]]
  BY DEF EachTab
<1>2. ASSUME NEW i \in DOMAIN h
      PROVE  /\ IsWorkspace([h[i] EXCEPT !.tabs = row(i)])
             /\ \A t \in Range([h[i] EXCEPT !.tabs = row(i)].tabs) : t \in new
  <2>1. IsWorkspace(h[i]) /\ IsSeq(h[i].tabs)
        /\ \A j \in DOMAIN h[i].tabs : h[i].tabs[j] \in TabsIn(h)
    BY MembersOfSession DEF IsWorkspace
  <2>2. \A t \in Range(row(i)) : t \in new
    BY <2>1 DEF Range
  <2>3. IsSeq(row(i))
    BY <2>1, MapIsSeq
  <2>4. \A t \in Range(row(i)) : IsTab(t)
    BY <2>2
  <2> HIDE DEF row, new
  <2>5. QED
    BY <2>1, <2>2, <2>3, <2>4, WorkspaceWithTabs
<1> HIDE DEF row, h2
<1>3. /\ h2 = [i \in DOMAIN h |-> h2[i]]
      /\ \A i \in DOMAIN h : /\ IsWorkspace(h2[i])
                             /\ \A t \in Range(h2[i].tabs) : \E s \in new : LeftOf(t, s)
      /\ \A i \in DOMAIN h : \A t \in Range(h2[i].tabs) : t \in new
  BY <1>1, <1>2 DEF LeftOf
<1>4. IsSession(h2)
  <2> HIDE DEF new
  <2>1. Within(h2, new)
    BY <1>3, ChangedInPlace
  <2>2. QED
    BY <2>1 DEF Within
<1>5. ASSUME NEW t \in TabsIn(h2) PROVE \E s \in TabsIn(h) : t = f[s]
  BY <1>3, TabsOfWorkspaces
<1>6. QED
  BY <1>4, <1>5 DEF h2

LEMMA EachTabWithin ==
  ASSUME NEW h, IsSession(h), NEW f, \A t \in TabsIn(h) : IsTab(f[t]) /\ LeftOf(f[t], t)
  PROVE  Within(EachTab(h, f), TabsIn(h))
BY EachTabChanged DEF Within

(***************************************************************************)
(* What herdr does to a session.                                           *)
(***************************************************************************)
LEMMA TidyWithin ==
  ASSUME NEW h, IsSession(h)
  PROVE  Within(Tidy(h), TabsIn(h))
<1> DEFINE Full(w)  == {j \in DOMAIN w.tabs : w.tabs[j].layout # << >>}
           Kept(w)  == [w EXCEPT !.tabs = Keep(@, Full(w))]
           Seen(w)  == IF w.active \in IdsIn(w.tabs) THEN w ELSE [w EXCEPT !.active = w.tabs[1].id]
           open     == Keep(h, {i \in DOMAIN h : Full(h[i]) # {}})
           seen     == [i \in DOMAIN open |-> Seen(Kept(open[i]))]
           f        == [t \in TabsIn(seen) |->
                          IF t.focused \in PaneIds(t.layout) THEN t
                          ELSE [t EXCEPT !.focused = leaf_pane_ids(t.layout)[1]]]
<1>1. IsSeq(open) /\ Range(open) \subseteq Range(h)
  <2> DEFINE K == {i \in DOMAIN h : Full(h[i]) # {}}
  <2>1. K \in SUBSET DOMAIN h /\ IsSeq(h)
    BY DEF IsSession
  <2> HIDE DEF K
  <2>2. IsSeq(Keep(h, K)) /\ Range(Keep(h, K)) \subseteq Range(h)
    BY <2>1, KeepIsSeq
  <2>3. QED
    BY <2>2 DEF K
<1>2. ASSUME NEW w, IsWorkspace(w)
      PROVE  IsWorkspace(Seen(Kept(w))) /\ Range(Seen(Kept(w)).tabs) \subseteq Range(w.tabs)
  <2> DEFINE tabs == Keep(w.tabs, Full(w))
             kept == [w EXCEPT !.tabs = tabs]
  <2>0. Full(w) \in SUBSET DOMAIN w.tabs
    OBVIOUS
  <2> HIDE DEF Full
  <2>1. IsSeq(w.tabs) /\ \A t \in Range(w.tabs) : IsTab(t)
    BY <1>2 DEF IsWorkspace
  <2>2. IsSeq(tabs) /\ Range(tabs) \subseteq Range(w.tabs)
    BY <2>0, <2>1, KeepIsSeq
  <2> HIDE DEF tabs
  <2>3. \A t \in Range(tabs) : IsTab(t)
    BY <2>1, <2>2
  <2>4. IsWorkspace([w EXCEPT !.tabs = tabs]) /\ [w EXCEPT !.tabs = tabs].tabs = tabs
    BY <1>2, <2>2, <2>3, WorkspaceWithTabs
  <2>5. Kept(w) = kept
    BY DEF Kept, tabs
  <2> DEFINE first == kept.tabs[1].id
             seen0 == [kept EXCEPT !.active = first]
  <2>6. IsWorkspace(kept) /\ kept.tabs = tabs
    BY <2>4
  <2>7. Seen(kept) = kept \/ Seen(kept) = seen0
    OBVIOUS
  <2> HIDE DEF kept, Kept, Seen, first
  <2>8. IsWorkspace(seen0) /\ seen0.tabs = kept.tabs
    BY <2>6, WorkspaceWithActive
  <2> HIDE DEF seen0
  <2>9. IsWorkspace(Seen(kept)) /\ Seen(kept).tabs = tabs
    BY <2>6, <2>7, <2>8
  <2>10. QED
    BY <2>2, <2>5, <2>9
<1> HIDE DEF Full, Kept, Seen, open
<1>3. IsSession(open) /\ TabsIn(open) \subseteq TabsIn(h)
  <2>1. IsSession(open)
    BY <1>1 DEF IsSession
  <2>2. ASSUME NEW t \in TabsIn(open) PROVE t \in TabsIn(h)
    <3>1. PICK i \in DOMAIN open : t \in Range(open[i].tabs)
      BY TabsOfWorkspaces
    <3>2. open[i] \in Range(h)
      BY <1>1 DEF Range
    <3>3. PICK j \in DOMAIN h : h[j] = open[i]
      BY <3>2 DEF Range
    <3>4. QED
      BY <3>1, <3>3, TabsOfWorkspaces
  <2>3. QED
    BY <2>1, <2>2
<1>4. Within(seen, TabsIn(h))
  <2> DEFINE s == seen
             tabs == TabsIn(h)
  <2>1. /\ s = [i \in DOMAIN open |-> s[i]]
        /\ \A i \in DOMAIN open : s[i] = Seen(Kept(open[i]))
    OBVIOUS
  <2> HIDE DEF s, seen
  <2>2. ASSUME NEW i \in DOMAIN open
        PROVE  /\ IsWorkspace(s[i])
               /\ \A t \in Range(s[i].tabs) : \E u \in tabs : LeftOf(t, u)
    <3>1. IsWorkspace(open[i])
      BY <1>3, MembersOfSession
    <3>2. IsWorkspace(s[i]) /\ Range(s[i].tabs) \subseteq Range(open[i].tabs)
      BY <1>2, <2>1, <3>1
    <3>3. \A t \in Range(open[i].tabs) : t \in tabs
      BY <1>3, TabsOfWorkspaces
    <3>4. QED
      BY <3>2, <3>3 DEF LeftOf
  <2> HIDE DEF tabs
  <2>3. Within(s, tabs)
    BY <1>3, <2>1, <2>2, ChangedInPlace
  <2>4. QED
    BY <2>3 DEF s, tabs
<1> HIDE DEF seen
<1>5. IsSession(seen) /\ \A t \in TabsIn(seen) : IsTab(t)
  BY <1>4, MembersOfSession DEF Within
<1>6. \A t \in TabsIn(seen) : IsTab(f[t]) /\ LeftOf(f[t], t)
  BY <1>5, RefocusedTab DEF LeftOf
<1>7. Tidy(h) = EachTab(seen, f)
  BY DEF Tidy, Full, Kept, Seen, open, seen
<1> HIDE DEF f
<1>8. Within(EachTab(seen, f), TabsIn(seen))
  BY <1>5, <1>6, EachTabWithin
<1>9. QED
  BY <1>4, <1>7, <1>8, WithinIsTransitive

LEMMA TidiedEachTab ==
  ASSUME NEW h, IsSession(h), NEW f, \A t \in TabsIn(h) : IsTab(f[t]) /\ LeftOf(f[t], t)
  PROVE  Within(Tidy(EachTab(h, f)), TabsIn(h))
<1> DEFINE each == EachTab(h, f)
<1>1. Within(each, TabsIn(h))
  BY EachTabWithin
<1> HIDE DEF each
<1>2. Within(Tidy(each), TabsIn(each))
  BY <1>1, TidyWithin DEF Within
<1>3. QED
  BY <1>1, <1>2, WithinIsTransitive DEF each

LEMMA EmptyLayout ==
  IsLayout(<< >>) /\ PanesApart(<< >>) /\ PaneIds(<< >>) = {} /\ Leaves(<< >>) = {}
<1> DEFINE none == << >>
<1>1. DOMAIN none = {} /\ IsFiniteSet({})
  BY EmptyIsSeq, FS_EmptySet
<1> HIDE DEF none
<1>2. Leaves(none) = {}
  BY <1>1 DEF Leaves
<1>3. IsLayout(none) /\ PanesApart(none) /\ PaneIds(none) = {}
  BY <1>1, <1>2 DEF IsLayout, PanesApart, PaneIds
<1>4. QED
  BY <1>2, <1>3 DEF none

\* What the close of a pane leaves of its tab.
LEMMA WithoutOnePane ==
  ASSUME NEW t, IsTab(t), NEW pane \in PaneIds(t.layout), NEW left,
         left = IF PaneIds(t.layout) = {pane} THEN << >> ELSE Closed(t.layout, pane)
  PROVE  /\ IsTab([t EXCEPT !.layout = left]) /\ LeftOf([t EXCEPT !.layout = left], t)
         /\ left = << >> \/ Leaves(left) # {}
<1>1. IsLayout(t.layout) /\ PanesApart(t.layout)
  BY DEF IsTab
<1>2. IsLayout(left) /\ PanesApart(left) /\ PaneIds(left) = PaneIds(t.layout) \ {pane}
  <2>1. CASE PaneIds(t.layout) = {pane}
    BY <2>1, EmptyLayout
  <2>2. CASE PaneIds(t.layout) # {pane}
    BY <1>1, <2>2, ClosedIsLayout
  <2>3. QED
    BY <2>1, <2>2
<1>3. left = << >> \/ PaneIds(left) # {}
  BY <1>2
<1>4. left = << >> \/ Leaves(left) # {}
  BY <1>3 DEF PaneIds
<1>5. QED
  BY <1>2, <1>4, RelaidTab

LEMMA WithoutPaneWithin ==
  ASSUME NEW h, IsSession(h), NEW pane
  PROVE  Within(WithoutPane(h, pane), TabsIn(h))
<1> DEFINE left(t) == IF PaneIds(t.layout) = {pane} THEN << >> ELSE Closed(t.layout, pane)
           f == [t \in TabsIn(h) |->
                   IF pane \notin PaneIds(t.layout) THEN t ELSE [t EXCEPT !.layout = left(t)]]
<1>1. ASSUME NEW t \in TabsIn(h) PROVE IsTab(f[t]) /\ LeftOf(f[t], t)
  <2>1. IsTab(t)
    BY MembersOfSession
  <2>2. CASE pane \notin PaneIds(t.layout)
    BY <2>1, <2>2 DEF LeftOf
  <2>3. CASE pane \in PaneIds(t.layout)
    <3>1. f[t] = [t EXCEPT !.layout = left(t)]
      BY <2>3
    <3>2. QED
      BY <2>1, <2>3, <3>1, WithoutOnePane
  <2>4. QED
    BY <2>2, <2>3
<1>2. WithoutPane(h, pane) = Tidy(EachTab(h, f))
  BY DEF WithoutPane
<1> HIDE DEF f
<1>3. QED
  BY <1>1, <1>2, TidiedEachTab

LEMMA WithoutTabWithin ==
  ASSUME NEW h, IsSession(h), NEW tab
  PROVE  Within(WithoutTab(h, tab), TabsIn(h))
<1> DEFINE f == [t \in TabsIn(h) |-> IF t.id = tab THEN [t EXCEPT !.layout = << >>] ELSE t]
<1>1. ASSUME NEW t \in TabsIn(h) PROVE IsTab(f[t]) /\ LeftOf(f[t], t)
  <2>1. IsTab(t)
    BY MembersOfSession
  <2>2. IsTab([t EXCEPT !.layout = << >>]) /\ LeftOf([t EXCEPT !.layout = << >>], t)
    BY <2>1, RelaidTab, EmptyLayout
  <2>3. QED
    BY <2>1, <2>2 DEF LeftOf
<1>2. WithoutTab(h, tab) = Tidy(EachTab(h, f))
  BY DEF WithoutTab
<1> HIDE DEF f
<1>3. QED
  BY <1>1, <1>2, TidiedEachTab

LEMMA WithTabWithin ==
  ASSUME NEW h, IsSession(h), NEW ws, NEW tab, IsTab(tab)
  PROVE  Within(WithTab(h, ws, tab), TabsIn(h) \cup {tab})
<1> DEFINE named(i) == [tab EXCEPT !.label = IF @ = None THEN AutoLabels[Len(h[i].tabs) + 1] ELSE @]
           tabs == TabsIn(h) \cup {tab}
           h2 == WithTab(h, ws, tab)
<1>1. /\ h2 = [i \in DOMAIN h |-> h2[i]]
      /\ \A i \in DOMAIN h : h2[i] = IF h[i].id # ws THEN h[i]
                                     ELSE [h[i] EXCEPT !.tabs = Append(@, named(i))]
  BY DEF WithTab
<1> HIDE DEF h2
<1>2. \A i \in DOMAIN h : IsTab(named(i)) /\ LeftOf(named(i), tab)
  BY RelabelledTab
<1> HIDE DEF named
<1>3. ASSUME NEW i \in DOMAIN h
      PROVE  IsWorkspace(h2[i]) /\ \A t \in Range(h2[i].tabs) : \E s \in tabs : LeftOf(t, s)
  <2> DEFINE row == Append(h[i].tabs, named(i))
  <2>1. /\ IsWorkspace(h[i]) /\ IsSeq(h[i].tabs) /\ (\A t \in Range(h[i].tabs) : IsTab(t))
        /\ \A t \in Range(h[i].tabs) : t \in TabsIn(h)
    BY MembersOfSession DEF IsWorkspace, Range
  <2>2. IsSeq(row) /\ Range(row) \subseteq Range(h[i].tabs) \cup {named(i)}
    BY <2>1, AppendIsSeq
  <2> HIDE DEF row
  <2>3. \A t \in Range(row) : IsTab(t) /\ \E s \in tabs : LeftOf(t, s)
    BY <1>2, <2>1, <2>2 DEF LeftOf
  <2>4. \A t \in Range(h[i].tabs) : \E s \in tabs : LeftOf(t, s)
    BY <2>1 DEF LeftOf
  <2>5. IsWorkspace([h[i] EXCEPT !.tabs = row]) /\ [h[i] EXCEPT !.tabs = row].tabs = row
    BY <2>1, <2>2, <2>3, WorkspaceWithTabs
  <2>6. h2[i] = IF h[i].id # ws THEN h[i] ELSE [h[i] EXCEPT !.tabs = row]
    BY <1>1 DEF row
  <2>7. QED
    BY <2>1, <2>3, <2>4, <2>5, <2>6
<1> HIDE DEF tabs
<1>4. Within(h2, tabs)
  BY <1>1, <1>3, ChangedInPlace
<1>5. QED
  BY <1>4 DEF h2, tabs

LEMMA WithWorkspaceWithin ==
  ASSUME NEW h, IsSession(h), NEW id, NEW label, NEW cwd, NEW tab, IsTab(tab)
  PROVE  Within(WithWorkspace(h, id, label, cwd, tab), TabsIn(h) \cup {tab})
<1> DEFINE name == IF label = None THEN cwd ELSE label
           w == Workspace(id, name, cwd, tab.id, << >>)
           h2 == Append(h, w)
<1>1. IsWorkspace(w) /\ w.tabs = << >>
  BY EmptyIsSeq DEF IsWorkspace, Workspace
<1> HIDE DEF w
<1>2. IsSeq(h) /\ IsSeq(h2) /\ Range(h2) \subseteq Range(h) \cup {w}
  BY AppendIsSeq DEF IsSession
<1> HIDE DEF h2
<1>3. IsSession(h2)
  BY <1>1, <1>2 DEF IsSession
<1>4. ASSUME NEW t \in TabsIn(h2) PROVE t \in TabsIn(h)
  <2>1. PICK i \in DOMAIN h2 : t \in Range(h2[i].tabs)
    BY TabsOfWorkspaces
  <2>2. h2[i] \in Range(h)
    BY <1>1, <1>2, <2>1, EmptyIsSeq DEF Range
  <2>3. PICK j \in DOMAIN h : h[j] = h2[i]
    BY <2>2 DEF Range
  <2>4. QED
    BY <2>1, <2>3, TabsOfWorkspaces
<1>5. Within(WithTab(h2, id, tab), TabsIn(h2) \cup {tab})
  BY <1>3, WithTabWithin
<1>6. WithWorkspace(h, id, label, cwd, tab) = WithTab(h2, id, tab)
  BY DEF WithWorkspace, h2, w
<1>7. QED
  BY <1>4, <1>5, <1>6 DEF Within

LEMMA RenamedWithin ==
  ASSUME NEW h, IsSession(h), NEW tab, NEW label
  PROVE  Within(Renamed(h, tab, label), TabsIn(h))
<1> DEFINE f == [t \in TabsIn(h) |-> IF t.id = tab THEN [t EXCEPT !.label = label] ELSE t]
<1>1. \A t \in TabsIn(h) : IsTab(f[t]) /\ LeftOf(f[t], t)
  BY MembersOfSession, RelabelledTab DEF LeftOf
<1>2. Renamed(h, tab, label) = EachTab(h, f)
  BY DEF Renamed
<1> HIDE DEF f
<1>3. QED
  BY <1>1, <1>2, EachTabWithin

LEMMA PaneFocusedWithin ==
  ASSUME NEW h, IsSession(h), NEW pane
  PROVE  Within(PaneFocused(h, pane), TabsIn(h))
<1> DEFINE f == [t \in TabsIn(h) |->
                   IF pane \in PaneIds(t.layout) THEN [t EXCEPT !.focused = pane] ELSE t]
<1>1. \A t \in TabsIn(h) : IsTab(f[t]) /\ LeftOf(f[t], t)
  BY MembersOfSession, RefocusedTab DEF LeftOf
<1>2. PaneFocused(h, pane) = EachTab(h, f)
  BY DEF PaneFocused
<1> HIDE DEF f
<1>3. QED
  BY <1>1, <1>2, EachTabWithin

LEMMA PanesSwappedWithin ==
  ASSUME NEW h, IsSession(h), NEW a, NEW b
  PROVE  Within(PanesSwapped(h, a, b), TabsIn(h))
<1> DEFINE f == [t \in TabsIn(h) |->
                   IF {a, b} \subseteq PaneIds(t.layout)
                   THEN [t EXCEPT !.layout = Swapped(t.layout, a, b)] ELSE t]
<1>1. ASSUME NEW t \in TabsIn(h) PROVE IsTab(f[t]) /\ LeftOf(f[t], t)
  <2>1. IsTab(t) /\ IsLayout(t.layout) /\ PanesApart(t.layout)
    BY MembersOfSession DEF IsTab
  <2>2. CASE ~({a, b} \subseteq PaneIds(t.layout))
    BY <2>1, <2>2 DEF LeftOf
  <2>3. CASE {a, b} \subseteq PaneIds(t.layout)
    <3> DEFINE new == Swapped(t.layout, a, b)
    <3>1. IsLayout(new) /\ PanesApart(new) /\ PaneIds(new) \subseteq PaneIds(t.layout)
      BY <2>1, <2>3, SwappedIsLayout
    <3>2. f[t] = [t EXCEPT !.layout = new]
      BY <2>3
    <3> HIDE DEF new, f
    <3>3. IsTab([t EXCEPT !.layout = new]) /\ LeftOf([t EXCEPT !.layout = new], t)
      BY <2>1, <3>1, RelaidTab
    <3>4. QED
      BY <3>2, <3>3
  <2>4. QED
    BY <2>2, <2>3
<1>2. PanesSwapped(h, a, b) = EachTab(h, f)
  BY DEF PanesSwapped
<1> HIDE DEF f
<1>3. QED
  BY <1>1, <1>2, EachTabWithin

LEMMA TabFocusedWithin ==
  ASSUME NEW h, IsSession(h), NEW tab
  PROVE  Within(TabFocused(h, tab), TabsIn(h))
<1> DEFINE h2 == TabFocused(h, tab)
           tabs == TabsIn(h)
<1>1. /\ h2 = [i \in DOMAIN h |-> h2[i]]
      /\ \A i \in DOMAIN h : h2[i] = IF tab \in IdsIn(h[i].tabs)
                                     THEN [h[i] EXCEPT !.active = tab] ELSE h[i]
  BY DEF TabFocused
<1> HIDE DEF h2
<1>2. ASSUME NEW i \in DOMAIN h
      PROVE  IsWorkspace(h2[i]) /\ \A t \in Range(h2[i].tabs) : \E s \in tabs : LeftOf(t, s)
  <2>1. IsWorkspace(h[i]) /\ \A t \in Range(h[i].tabs) : t \in tabs
    BY MembersOfSession DEF Range
  <2>2. IsWorkspace([h[i] EXCEPT !.active = tab])
        /\ [h[i] EXCEPT !.active = tab].tabs = h[i].tabs
    BY <2>1, WorkspaceWithActive
  <2>3. h2[i] = [h[i] EXCEPT !.active = tab] \/ h2[i] = h[i]
    BY <1>1
  <2>4. IsWorkspace(h2[i]) /\ h2[i].tabs = h[i].tabs
    BY <2>1, <2>2, <2>3
  <2>5. QED
    BY <2>1, <2>4 DEF LeftOf
<1> HIDE DEF tabs
<1>3. Within(h2, tabs)
  BY <1>1, <1>2, ChangedInPlace
<1>4. QED
  BY <1>3 DEF h2, tabs

LEMMA InsertAtIsSeq ==
  ASSUME NEW s, IsSeq(s), NEW at \in 0 .. Len(s), NEW e
  PROVE  IsSeq(InsertAt(s, at + 1, e))
         /\ Range(InsertAt(s, at + 1, e)) \subseteq Range(s) \cup {e}
<1> DEFINE S == Range(s) \cup {e}
<1>1. s \in Seq(S) /\ e \in S /\ Len(s) \in Nat
  BY SeqMonotonic DEF IsSeq
<1> HIDE DEF S
<1>2. SubSeq(s, 1, at) \in Seq(S) /\ SubSeq(s, at + 1, Len(s)) \in Seq(S) /\ <<e>> \in Seq(S)
  <2>1. 1 \in 1 .. Len(s) + 1 /\ at \in Int /\ at + 1 \in 1 .. Len(s) + 1
        /\ Len(s) \in 0 .. Len(s)
    BY <1>1
  <2>2. SubSeq(s, 1, at) \in Seq(S)
    BY <1>1, <2>1
  <2>3. SubSeq(s, at + 1, Len(s)) \in Seq(S)
    BY <1>1, <2>1
  <2>4. QED
    BY <1>1, <2>2, <2>3
<1> DEFINE pos    == at + 1
           before == SubSeq(s, 1, at)
           after  == SubSeq(s, at + 1, Len(s))
           one    == <<e>>
<1>3. InsertAt(s, pos, e) = before \o one \o after
  <2>1. InsertAt(s, pos, e) = SubSeq(s, 1, pos - 1) \o one \o after
    BY DEF InsertAt
  <2>2. pos - 1 = at
    OBVIOUS
  <2>3. QED
    BY <2>1, <2>2
<1> HIDE DEF pos, before, after, one
<1>4. before \in Seq(S) /\ after \in Seq(S) /\ one \in Seq(S)
  BY <1>2 DEF before, after, one
<1>5. before \o one \in Seq(S)
  BY <1>4
<1>6. InsertAt(s, pos, e) \in Seq(S)
  BY <1>3, <1>4, <1>5
<1>7. QED
  BY <1>6, SeqWithRange DEF S, pos

LEMMA MovedWithin ==
  ASSUME NEW h, IsSession(h), NEW tab, NEW index
  PROVE  Within(Moved(h, tab, index), TabsIn(h))
<1> DEFINE rest(s)  == Keep(s, {j \in DOMAIN s : s[j].id # tab})
           at(s)    == IF index \in 0 .. Len(rest(s)) THEN index ELSE Len(rest(s))
           place(s) == InsertAt(rest(s), at(s) + 1, s[CHOOSE j \in DOMAIN s : s[j].id = tab])
           h2       == Moved(h, tab, index)
           tabs     == TabsIn(h)
<1>1. /\ h2 = [i \in DOMAIN h |-> h2[i]]
      /\ \A i \in DOMAIN h : h2[i] = IF tab \in IdsIn(h[i].tabs)
                                     THEN [h[i] EXCEPT !.tabs = place(@)] ELSE h[i]
  BY DEF Moved
<1> HIDE DEF h2
<1>2. ASSUME NEW s, IsSeq(s), tab \in IdsIn(s)
      PROVE  IsSeq(place(s)) /\ Range(place(s)) \subseteq Range(s)
  <2> DEFINE K == {j \in DOMAIN s : s[j].id # tab}
             e == s[CHOOSE j \in DOMAIN s : s[j].id = tab]
  <2>1. K \in SUBSET DOMAIN s /\ rest(s) = Keep(s, K)
    OBVIOUS
  <2> HIDE DEF K, rest
  <2>2. IsSeq(rest(s)) /\ Range(rest(s)) \subseteq Range(s)
    BY <1>2, <2>1, KeepIsSeq
  <2>3. Len(rest(s)) \in Nat
    BY <2>2 DEF IsSeq
  <2>4. at(s) \in 0 .. Len(rest(s))
    BY <2>3
  <2>5. e \in Range(s)
    BY <1>2 DEF IdsIn, Range
  <2> HIDE DEF at, e
  <2>6. IsSeq(InsertAt(rest(s), at(s) + 1, e))
        /\ Range(InsertAt(rest(s), at(s) + 1, e)) \subseteq Range(rest(s)) \cup {e}
    BY <2>2, <2>4, InsertAtIsSeq
  <2>7. QED
    BY <2>2, <2>5, <2>6 DEF e
<1> HIDE DEF place
<1>3. ASSUME NEW i \in DOMAIN h
      PROVE  IsWorkspace(h2[i]) /\ \A t \in Range(h2[i].tabs) : \E s \in tabs : LeftOf(t, s)
  <2> DEFINE row == place(h[i].tabs)
  <2>1. /\ IsWorkspace(h[i]) /\ IsSeq(h[i].tabs) /\ (\A t \in Range(h[i].tabs) : IsTab(t))
        /\ \A t \in Range(h[i].tabs) : t \in tabs
    BY MembersOfSession DEF IsWorkspace, Range
  <2>2. h2[i] = IF tab \in IdsIn(h[i].tabs) THEN [h[i] EXCEPT !.tabs = row] ELSE h[i]
    BY <1>1
  <2>3. CASE tab \notin IdsIn(h[i].tabs)
    BY <2>1, <2>2, <2>3 DEF LeftOf
  <2>4. CASE tab \in IdsIn(h[i].tabs)
    <3>1. IsSeq(row) /\ Range(row) \subseteq Range(h[i].tabs)
      BY <1>2, <2>1, <2>4
    <3> HIDE DEF row
    <3>2. IsWorkspace([h[i] EXCEPT !.tabs = row]) /\ [h[i] EXCEPT !.tabs = row].tabs = row
      BY <2>1, <3>1, WorkspaceWithTabs
    <3>3. QED
      BY <2>1, <2>2, <2>4, <3>1, <3>2 DEF LeftOf
  <2>5. QED
    BY <2>3, <2>4
<1> HIDE DEF tabs
<1>4. Within(h2, tabs)
  BY <1>1, <1>3, ChangedInPlace
<1>5. QED
  BY <1>4 DEF h2, tabs

LEMMA LeafIsLayout ==
  ASSUME NEW pane, NEW cwd
  PROVE  /\ IsLayout(Leaf(pane, cwd)) /\ PanesApart(Leaf(pane, cwd))
         /\ PaneIds(Leaf(pane, cwd)) = {pane}
<1> DEFINE empty == << >>
           node == Pane(pane, cwd)
           leaf == Leaf(pane, cwd)
<1>1. DOMAIN leaf = {empty} /\ leaf[empty] = node
  BY DEF Leaf
<1>2. /\ empty \in Seq({First, Second}) /\ node.type = "pane" /\ node.pane_id = pane
      /\ node = Pane(node.pane_id, node.cwd)
  BY DEF Pane
<1> HIDE DEF empty, node, leaf
<1>3. IsFiniteSet({empty})
  BY FS_Singleton
<1>4. Leaves(leaf) = {empty}
  BY <1>1, <1>2 DEF Leaves
<1>5. IsLayout(leaf) /\ PanesApart(leaf) /\ PaneIds(leaf) = {pane}
  BY <1>1, <1>2, <1>3, <1>4 DEF IsLayout, PanesApart, PaneIds
<1>6. QED
  BY <1>5 DEF leaf

LEMMA NewTab ==
  ASSUME NEW id \in Nat, NEW label, NEW focused, NEW layout, IsLayout(layout),
         PanesApart(layout)
  PROVE  /\ IsTab(Tab(id, label, focused, layout))
         /\ Tab(id, label, focused, layout).id = id
            /\ Tab(id, label, focused, layout).layout = layout
         /\ Tab(id, label, focused, layout).focused = focused
BY DEF IsTab, Tab

(***************************************************************************)
(* What is open is sound, and stays.                                       *)
(***************************************************************************)
\* Ids below n have been given out, none of them twice.
Numbered(h, n) ==
  /\ IsSession(h) /\ DistinctIds(h)
  /\ \A i \in DOMAIN h : h[i].id \in 0 .. n - 1 /\ DistinctIds(h[i].tabs)
  /\ \A t \in TabsIn(h) : t.id \in 0 .. n - 1 /\ PaneIds(t.layout) \subseteq 0 .. n - 1

Seated(h) == \A i \in DOMAIN h : h[i].active \in IdsIn(h[i].tabs)

\* The focus is in the tab and the active tab in the workspace.
Sound(h, n) ==
  Numbered(h, n) /\ Seated(h) /\ \A t \in TabsIn(h) : t.focused \in PaneIds(t.layout)

\* The tabs but for those in `out` are still open, with the panes they had.
Stays(h, h2, out) ==
  \A t \in TabsIn(h) : t.id \notin out =>
    \E s \in TabsIn(h2) : s.id = t.id /\ PaneIds(t.layout) \subseteq PaneIds(s.layout)

LEMMA StaysOn ==
  ASSUME NEW h, NEW h1, NEW h2, NEW out, Stays(h, h1, out), Stays(h1, h2, out)
  PROVE  Stays(h, h, out) /\ Stays(h, h2, out)
BY DEF Stays

LEMMA SameIds ==
  ASSUME NEW s, NEW r, DOMAIN r = DOMAIN s, \A i \in DOMAIN s : r[i].id = s[i].id
  PROVE  IdsIn(r) = IdsIn(s) /\ (DistinctIds(s) => DistinctIds(r))
BY DEF IdsIn, DistinctIds

LEMMA KeepIds ==
  ASSUME NEW s, IsSeq(s), NEW K \in SUBSET DOMAIN s
  PROVE  /\ DistinctIds(s) => DistinctIds(Keep(s, K))
         /\ \A j \in DOMAIN Keep(s, K) : \E k \in K : Keep(s, K)[j] = s[k]
         /\ \A k \in K : \E j \in DOMAIN Keep(s, K) : Keep(s, K)[j] = s[k]
         /\ K # {} => 1 \in DOMAIN Keep(s, K)
<1> DEFINE r == Keep(s, K)
<1>1. r \in Seq(Range(s)) /\ \E at \in [DOMAIN r -> K] :
              /\ \A i, j \in DOMAIN r : i # j => at[i] # at[j]
              /\ \A i \in DOMAIN r : r[i] = s[at[i]]
              /\ \A m \in K : \E i \in DOMAIN r : at[i] = m
  BY KeepIs DEF IsSeq
<1> HIDE DEF r
<1>2. PICK at \in [DOMAIN r -> K] :
              /\ \A i, j \in DOMAIN r : i # j => at[i] # at[j]
              /\ \A i \in DOMAIN r : r[i] = s[at[i]]
              /\ \A m \in K : \E i \in DOMAIN r : at[i] = m
  BY <1>1
<1>3. DistinctIds(s) => DistinctIds(r)
  BY <1>2 DEF DistinctIds
<1>4. K # {} => 1 \in DOMAIN r
  BY <1>1, <1>2
<1>5. QED
  BY <1>2, <1>3, <1>4 DEF r

LEMMA EachTabNumbered ==
  ASSUME NEW n \in Nat, NEW h, Numbered(h, n), NEW m \in Nat, m >= n, NEW f,
         \A t \in TabsIn(h) : /\ IsTab(f[t]) /\ f[t].id = t.id
                              /\ PaneIds(f[t].layout) \subseteq 0 .. m - 1
  PROVE  /\ Numbered(EachTab(h, f), m) /\ (Seated(h) => Seated(EachTab(h, f)))
         /\ \A t \in TabsIn(h) : f[t] \in TabsIn(EachTab(h, f))
         /\ \A t \in TabsIn(EachTab(h, f)) : \E s \in TabsIn(h) : t = f[s]
<1> DEFINE row(i) == [j \in DOMAIN h[i].tabs |-> f[h[i].tabs[j]]]
           h2 == EachTab(h, f)
<1>1. DOMAIN h2 = DOMAIN h /\ \A i \in DOMAIN h : h2[i] = [h[i] EXCEPT !.tabs = row(i)]
  BY DEF EachTab
<1>2. IsSession(h2) /\ \A t \in TabsIn(h2) : \E s \in TabsIn(h) : t = f[s]
  BY EachTabChanged DEF Numbered
<1> HIDE DEF h2
<1>3. ASSUME NEW i \in DOMAIN h
      PROVE  /\ h2[i].id = h[i].id /\ h2[i].active = h[i].active /\ h2[i].tabs = row(i)
             /\ IdsIn(row(i)) = IdsIn(h[i].tabs) /\ DistinctIds(row(i))
  <2>1. /\ IsWorkspace(h[i]) /\ IsSeq(h[i].tabs) /\ DistinctIds(h[i].tabs)
        /\ \A j \in DOMAIN h[i].tabs : h[i].tabs[j] \in TabsIn(h)
    BY MembersOfSession DEF Numbered, IsWorkspace
  <2>2. IsSeq(row(i)) /\ \A t \in Range(row(i)) : IsTab(t)
    <3>1. IsSeq(row(i))
      BY <2>1, MapIsSeq
    <3>2. QED
      BY <2>1, <3>1 DEF Range
  <2>3. DOMAIN row(i) = DOMAIN h[i].tabs
        /\ \A j \in DOMAIN h[i].tabs : row(i)[j].id = h[i].tabs[j].id
    BY <2>1
  <2> DEFINE r == row(i)
             w == h[i]
  <2>6. h2[i] = [w EXCEPT !.tabs = r]
    BY <1>1
  <2>7. IsWorkspace(w) /\ IsSeq(r) /\ \A t \in Range(r) : IsTab(t)
    BY <2>1, <2>2
  <2> HIDE DEF row, r, w
  <2>8. h2[i].id = w.id /\ h2[i].active = w.active /\ h2[i].tabs = r
    BY <2>6, <2>7, WorkspaceWithTabs
  <2>4. h2[i].id = h[i].id /\ h2[i].active = h[i].active /\ h2[i].tabs = row(i)
    BY <2>8 DEF r, w
  <2>5. QED
    BY <2>1, <2>3, <2>4, SameIds
<1>4. \A t \in TabsIn(h) : f[t] \in TabsIn(h2)
  <2> SUFFICES ASSUME NEW t \in TabsIn(h) PROVE f[t] \in TabsIn(h2)
    OBVIOUS
  <2>1. PICK i \in DOMAIN h : t \in Range(h[i].tabs)
    BY TabsOfWorkspaces
  <2>2. PICK j \in DOMAIN h[i].tabs : t = h[i].tabs[j]
    BY <2>1 DEF Range
  <2>3. f[t] \in Range(h2[i].tabs)
    <3>1. row(i)[j] = f[t] /\ j \in DOMAIN row(i)
      BY <2>2
    <3> HIDE DEF row
    <3>2. QED
      BY <1>3, <3>1 DEF Range
  <2>4. QED
    BY <1>1, <2>3, TabsOfWorkspaces
<1> HIDE DEF row
<1>5. DistinctIds(h2)
  BY <1>1, <1>3, SameIds DEF Numbered
<1>6. \A i \in DOMAIN h2 : h2[i].id \in 0 .. m - 1 /\ DistinctIds(h2[i].tabs)
  BY <1>1, <1>3 DEF Numbered
<1>7. \A t \in TabsIn(h2) : t.id \in 0 .. m - 1 /\ PaneIds(t.layout) \subseteq 0 .. m - 1
  BY <1>2 DEF Numbered
<1>8. Seated(h) => Seated(h2)
  BY <1>1, <1>3 DEF Seated
<1>9. QED
  BY <1>2, <1>4, <1>5, <1>6, <1>7, <1>8 DEF Numbered, h2

LEMMA EachTabSound ==
  ASSUME NEW n \in Nat, NEW h, Sound(h, n), NEW m \in Nat, m >= n, NEW f, NEW out,
         \A t \in TabsIn(h) : /\ IsTab(f[t]) /\ f[t].id = t.id
                              /\ PaneIds(f[t].layout) \subseteq 0 .. m - 1
                              /\ f[t].focused \in PaneIds(f[t].layout)
                              /\ t.id \notin out => PaneIds(t.layout) \subseteq PaneIds(f[t].layout)
  PROVE  Sound(EachTab(h, f), m) /\ Stays(h, EachTab(h, f), out)
<1> DEFINE h2 == EachTab(h, f)
<1>0. Numbered(h, n) /\ Seated(h)
  BY DEF Sound
<1>1. /\ Numbered(h2, m) /\ Seated(h2)
      /\ \A t \in TabsIn(h) : f[t] \in TabsIn(h2)
      /\ \A t \in TabsIn(h2) : \E s \in TabsIn(h) : t = f[s]
  <2>1. \A t \in TabsIn(h) : IsTab(f[t]) /\ f[t].id = t.id
        /\ PaneIds(f[t].layout) \subseteq 0 .. m - 1
    OBVIOUS
  <2>2. QED
    BY ONLY <1>0, <2>1, n \in Nat, m \in Nat, m >= n, EachTabNumbered
<1> HIDE DEF h2
<1>2. Sound(h2, m) /\ Stays(h, h2, out)
  BY <1>1 DEF Sound, Stays
<1>3. QED
  BY <1>2 DEF h2

\* The workspace again, when the active tab may have gone.
LEMMA Reseated ==
  ASSUME NEW w, IsWorkspace(w), NEW first, first \in IdsIn(w.tabs),
         NEW seen, seen = IF w.active \in IdsIn(w.tabs) THEN w ELSE [w EXCEPT !.active = first]
  PROVE  /\ IsWorkspace(seen) /\ seen.id = w.id /\ seen.tabs = w.tabs
         /\ seen.active \in IdsIn(seen.tabs)
<1> DEFINE other == [w EXCEPT !.active = first]
<1>1. IsWorkspace(other) /\ other.tabs = w.tabs /\ other.id = w.id /\ other.active = first
  BY ONLY IsWorkspace(w), WorkspaceWithActive
<1>2. seen = IF w.active \in IdsIn(w.tabs) THEN w ELSE other
  OBVIOUS
<1> HIDE DEF other
<1>3. QED
  BY <1>1, <1>2

\* herdr tidies up: what has panes stays, and everything is sound again.
LEMMA TidySound ==
  ASSUME NEW n \in Nat, NEW h, Numbered(h, n),
         \A t \in TabsIn(h) : t.layout = << >> \/ Leaves(t.layout) # {}
  PROVE  /\ Sound(Tidy(h), n)
         /\ \A t \in TabsIn(h) : t.layout # << >> =>
              \E s \in TabsIn(Tidy(h)) : s.id = t.id /\ s.layout = t.layout
<1> DEFINE Full(w)  == {j \in DOMAIN w.tabs : w.tabs[j].layout # << >>}
           Kept(w)  == [w EXCEPT !.tabs = Keep(@, Full(w))]
           Seen(w)  == IF w.active \in IdsIn(w.tabs) THEN w ELSE [w EXCEPT !.active = w.tabs[1].id]
           O        == {i \in DOMAIN h : Full(h[i]) # {}}
           open     == Keep(h, O)
           seen     == [i \in DOMAIN open |-> Seen(Kept(open[i]))]
           f        == [t \in TabsIn(seen) |->
                          IF t.focused \in PaneIds(t.layout) THEN t
                          ELSE [t EXCEPT !.focused = leaf_pane_ids(t.layout)[1]]]
<1>1. /\ IsSession(h) /\ IsSeq(h) /\ DistinctIds(h)
      /\ \A i \in DOMAIN h : h[i].id \in 0 .. n - 1 /\ DistinctIds(h[i].tabs)
         /\ IsWorkspace(h[i])
      /\ \A t \in TabsIn(h) : t.id \in 0 .. n - 1 /\ PaneIds(t.layout) \subseteq 0 .. n - 1
  BY MembersOfSession DEF Numbered, IsSession
<1>2. Tidy(h) = EachTab(seen, f)
  BY DEF Tidy
<1>3. O \in SUBSET DOMAIN h /\ \A i \in O : Full(h[i]) # {}
  OBVIOUS
<1>4. \A i \in DOMAIN h : \A j \in DOMAIN h[i].tabs : h[i].tabs[j].layout # << >> => i \in O
  OBVIOUS
<1>5. ASSUME NEW w, IsWorkspace(w), DistinctIds(w.tabs), Full(w) # {}
      PROVE  /\ IsWorkspace(Seen(Kept(w))) /\ Seen(Kept(w)).id = w.id
             /\ DistinctIds(Seen(Kept(w)).tabs)
             /\ Seen(Kept(w)).active \in IdsIn(Seen(Kept(w)).tabs)
             /\ \A t \in Range(Seen(Kept(w)).tabs) : t \in Range(w.tabs) /\ t.layout # << >>
             /\ \A t \in Range(w.tabs) : t.layout # << >> => t \in Range(Seen(Kept(w)).tabs)
  <2> DEFINE K == Full(w)
             tabs == Keep(w.tabs, K)
             kept == Kept(w)
             first == kept.tabs[1].id
             s == Seen(kept)
  <2>1. \A k \in DOMAIN w.tabs : k \in K <=> w.tabs[k].layout # << >>
    OBVIOUS
  <2>2. kept = [w EXCEPT !.tabs = tabs]
    OBVIOUS
  <2>3. s = IF kept.active \in IdsIn(kept.tabs) THEN kept ELSE [kept EXCEPT !.active = first]
    OBVIOUS
  <2>4. /\ K \in SUBSET DOMAIN w.tabs /\ K # {} /\ IsSeq(w.tabs)
        /\ IsWorkspace(w) /\ DistinctIds(w.tabs) /\ \A t \in Range(w.tabs) : IsTab(t)
    BY <1>5 DEF IsWorkspace
  <2> HIDE DEF Full, Kept, Seen, K, kept, s
  <2>5. /\ DistinctIds(tabs) /\ 1 \in DOMAIN tabs
        /\ \A j \in DOMAIN tabs : \E k \in K : tabs[j] = w.tabs[k]
        /\ \A k \in K : \E j \in DOMAIN tabs : tabs[j] = w.tabs[k]
    BY <2>4, KeepIds
  <2>6. IsSeq(tabs) /\ Range(tabs) \subseteq Range(w.tabs)
    BY <2>4, KeepIsSeq
  <2> HIDE DEF tabs
  <2>7. \A t \in Range(tabs) : IsTab(t)
    BY <2>4, <2>6
  <2>8. IsWorkspace(kept) /\ kept.tabs = tabs /\ kept.id = w.id
    <3> DEFINE k == [w EXCEPT !.tabs = tabs]
    <3>1. IsWorkspace(k) /\ k.tabs = tabs /\ k.id = w.id
      BY ONLY <2>4, <2>6, <2>7, WorkspaceWithTabs
    <3> HIDE DEF k
    <3>2. QED
      BY <2>2, <3>1 DEF k
  <2>9. first \in IdsIn(kept.tabs)
    BY <2>5, <2>8 DEF IdsIn
  <2> HIDE DEF first
  <2>10. IsWorkspace(s) /\ s.id = kept.id /\ s.tabs = kept.tabs /\ s.active \in IdsIn(s.tabs)
    BY ONLY <2>3, <2>8, <2>9, Reseated
  <2>11. \A t \in Range(s.tabs) : t \in Range(w.tabs) /\ t.layout # << >>
    BY <2>1, <2>4, <2>5, <2>8, <2>10 DEF Range
  <2>12. \A t \in Range(w.tabs) : t.layout # << >> => t \in Range(s.tabs)
    BY <2>1, <2>5, <2>8, <2>10 DEF Range
  <2>13. IsWorkspace(s) /\ s.id = w.id /\ DistinctIds(s.tabs) /\ s.active \in IdsIn(s.tabs)
    BY <2>5, <2>8, <2>10
  <2>14. QED
    BY <2>11, <2>12, <2>13 DEF s, kept
<1> HIDE DEF Full, Kept, Seen, O
<1>6. /\ DistinctIds(open) /\ IsSeq(open)
      /\ \A j \in DOMAIN open : \E k \in O : open[j] = h[k]
      /\ \A k \in O : \E j \in DOMAIN open : open[j] = h[k]
  BY <1>1, <1>3, KeepIds, KeepIsSeq
<1> HIDE DEF open
<1>7. DOMAIN seen = DOMAIN open /\ IsSeq(seen)
      /\ \A j \in DOMAIN open : seen[j] = Seen(Kept(open[j]))
  <2>1. IsSeq(seen)
    BY <1>6, MapIsSeq
  <2>2. QED
    BY <2>1
<1> HIDE DEF seen
<1>8. ASSUME NEW j \in DOMAIN seen
      PROVE  \E k \in O : /\ IsWorkspace(seen[j]) /\ seen[j].id = h[k].id
                          /\ DistinctIds(seen[j].tabs) /\ seen[j].active \in IdsIn(seen[j].tabs)
                          /\ \A t \in Range(seen[j].tabs) : t \in Range(h[k].tabs)
                             /\ t.layout # << >>
  <2>1. PICK k \in O : open[j] = h[k]
    BY <1>6, <1>7
  <2>2. IsWorkspace(h[k]) /\ DistinctIds(h[k].tabs) /\ Full(h[k]) # {}
        /\ seen[j] = Seen(Kept(h[k]))
    BY <1>1, <1>3, <1>7, <2>1
  <2>3. QED
    BY <1>5, <2>2
<1>9. ASSUME NEW k \in O
      PROVE  \E j \in DOMAIN seen : \A t \in Range(h[k].tabs) :
               t.layout # << >> => t \in Range(seen[j].tabs)
  <2>1. PICK j \in DOMAIN open : open[j] = h[k]
    BY <1>6
  <2>2. IsWorkspace(h[k]) /\ DistinctIds(h[k].tabs) /\ Full(h[k]) # {}
        /\ seen[j] = Seen(Kept(h[k]))
    BY <1>1, <1>3, <1>7, <2>1
  <2>3. \A t \in Range(h[k].tabs) : t.layout # << >> => t \in Range(seen[j].tabs)
    BY <1>5, <2>2
  <2>4. QED
    BY <1>7, <2>3
<1>10. ASSUME NEW t \in TabsIn(seen) PROVE t \in TabsIn(h) /\ t.layout # << >>
  <2>1. PICK j \in DOMAIN seen : t \in Range(seen[j].tabs)
    BY TabsOfWorkspaces
  <2>2. PICK k \in O : t \in Range(h[k].tabs) /\ t.layout # << >>
    BY <1>8, <2>1
  <2>3. QED
    BY <1>3, <2>2, TabsOfWorkspaces
<1>11. ASSUME NEW t \in TabsIn(h), t.layout # << >> PROVE t \in TabsIn(seen)
  <2>1. PICK k \in DOMAIN h : t \in Range(h[k].tabs)
    BY TabsOfWorkspaces
  <2>2. k \in O
    BY <1>4, <1>11, <2>1 DEF Range
  <2>3. PICK j \in DOMAIN seen : t \in Range(seen[j].tabs)
    BY <1>9, <1>11, <2>1, <2>2
  <2>4. QED
    BY <2>3, TabsOfWorkspaces
<1>12. Numbered(seen, n) /\ Seated(seen)
  <2>1. IsSession(seen)
    BY <1>7, <1>8 DEF IsSession, Range
  <2>2. DistinctIds(seen)
    <3>1. \A j \in DOMAIN open : seen[j].id = open[j].id
      <4> SUFFICES ASSUME NEW j \in DOMAIN open PROVE seen[j].id = open[j].id
        OBVIOUS
      <4>1. PICK k \in O : open[j] = h[k]
        BY <1>6
      <4>2. IsWorkspace(h[k]) /\ DistinctIds(h[k].tabs) /\ Full(h[k]) # {}
            /\ seen[j] = Seen(Kept(h[k]))
        BY <1>1, <1>3, <1>7, <4>1
      <4>3. QED
        BY <1>5, <4>1, <4>2
    <3>2. QED
      BY <1>6, <1>7, <3>1, SameIds
  <2>3. \A j \in DOMAIN seen : seen[j].id \in 0 .. n - 1 /\ DistinctIds(seen[j].tabs)
    BY <1>1, <1>3, <1>8
  <2>4. \A t \in TabsIn(seen) : t.id \in 0 .. n - 1 /\ PaneIds(t.layout) \subseteq 0 .. n - 1
    BY <1>1, <1>10
  <2>5. QED
    BY <1>8, <2>1, <2>2, <2>3, <2>4 DEF Numbered, Seated
<1>13. ASSUME NEW t \in TabsIn(seen)
       PROVE  /\ IsTab(f[t]) /\ f[t].id = t.id /\ f[t].layout = t.layout
              /\ PaneIds(f[t].layout) \subseteq 0 .. n - 1
                 /\ f[t].focused \in PaneIds(f[t].layout)
  <2> DEFINE first == leaf_pane_ids(t.layout)[1]
             g == [t EXCEPT !.focused = first]
  <2>1. IsTab(t) /\ IsLayout(t.layout) /\ Leaves(t.layout) # {}
        /\ PaneIds(t.layout) \subseteq 0 .. n - 1
    BY <1>1, <1>10, MembersOfSession DEF IsTab
  <2>2. first \in PaneIds(t.layout)
    BY <2>1, FirstLeaf
  <2>3. f[t] = IF t.focused \in PaneIds(t.layout) THEN t ELSE g
    OBVIOUS
  <2> HIDE DEF first, f
  <2>4. IsTab(g) /\ g.id = t.id /\ g.layout = t.layout /\ g.focused = first
    <3>1. IsTab(g) /\ LeftOf(g, t) /\ g.layout = t.layout /\ g.focused = first
      BY ONLY <2>1, RefocusedTab
    <3>2. QED
      BY <3>1 DEF LeftOf
  <2> HIDE DEF g
  <2>5. QED
    BY <2>1, <2>2, <2>3, <2>4
<1> HIDE DEF f
<1>14. /\ Numbered(EachTab(seen, f), n) /\ Seated(EachTab(seen, f))
       /\ \A t \in TabsIn(seen) : f[t] \in TabsIn(EachTab(seen, f))
       /\ \A t \in TabsIn(EachTab(seen, f)) : \E s \in TabsIn(seen) : t = f[s]
  <2>1. n >= n
    OBVIOUS
  <2>2. QED
    BY <1>12, <1>13, <2>1, EachTabNumbered
<1>15. Sound(EachTab(seen, f), n)
  BY <1>13, <1>14 DEF Sound
<1>16. QED
  BY <1>2, <1>11, <1>13, <1>14, <1>15

LEMMA TidiedEachTabSound ==
  ASSUME NEW n \in Nat, NEW h, Numbered(h, n), NEW f, NEW out,
         \A t \in TabsIn(h) : /\ IsTab(f[t]) /\ LeftOf(f[t], t)
                              /\ f[t].layout = << >> \/ Leaves(f[t].layout) # {}
                              /\ t.id \notin out => f[t].layout = t.layout /\ t.layout # << >>
  PROVE  Sound(Tidy(EachTab(h, f)), n) /\ Stays(h, Tidy(EachTab(h, f)), out)
<1> DEFINE h2 == EachTab(h, f)
<1>1. /\ Numbered(h2, n)
      /\ \A t \in TabsIn(h) : f[t] \in TabsIn(h2)
      /\ \A t \in TabsIn(h2) : \E s \in TabsIn(h) : t = f[s]
  <2>1. n >= n
    OBVIOUS
  <2>2. \A t \in TabsIn(h) : /\ IsTab(f[t]) /\ f[t].id = t.id
                             /\ PaneIds(f[t].layout) \subseteq 0 .. n - 1
    BY DEF LeftOf, Numbered
  <2>3. QED
    BY <2>1, <2>2, EachTabNumbered
<1> HIDE DEF h2
<1>2. \A t \in TabsIn(h2) : t.layout = << >> \/ Leaves(t.layout) # {}
  BY <1>1
<1>3. /\ Sound(Tidy(h2), n)
      /\ \A t \in TabsIn(h2) : t.layout # << >> =>
           \E s \in TabsIn(Tidy(h2)) : s.id = t.id /\ s.layout = t.layout
  BY <1>1, <1>2, TidySound
<1>4. Stays(h, Tidy(h2), out)
  <2> SUFFICES ASSUME NEW t \in TabsIn(h), t.id \notin out
               PROVE  \E s \in TabsIn(Tidy(h2)) :
                        s.id = t.id /\ PaneIds(t.layout) \subseteq PaneIds(s.layout)
    BY DEF Stays
  <2>1. f[t] \in TabsIn(h2) /\ f[t].layout = t.layout /\ t.layout # << >> /\ f[t].id = t.id
    BY <1>1 DEF LeftOf
  <2>2. QED
    BY <1>3, <2>1
<1>5. QED
  BY <1>3, <1>4 DEF h2

LEMMA FullTab ==
  ASSUME NEW n, NEW h, Sound(h, n), NEW t \in TabsIn(h)
  PROVE  /\ IsTab(t) /\ IsLayout(t.layout) /\ PanesApart(t.layout)
         /\ t.layout # << >> /\ Leaves(t.layout) # {} /\ t.focused \in PaneIds(t.layout)
         /\ t.id \in 0 .. n - 1 /\ PaneIds(t.layout) \subseteq 0 .. n - 1
<1>1. t.focused \in PaneIds(t.layout) /\ IsTab(t) /\ t.id \in 0 .. n - 1
      /\ PaneIds(t.layout) \subseteq 0 .. n - 1
  BY MembersOfSession DEF Sound, Numbered
<1>2. t.layout # << >>
  BY <1>1, EmptyLayout
<1>3. Leaves(t.layout) # {}
  BY <1>1 DEF PaneIds
<1>4. QED
  BY <1>1, <1>2, <1>3 DEF IsTab

LEMMA WithoutPaneSound ==
  ASSUME NEW n \in Nat, NEW h, Sound(h, n), NEW pane
  PROVE  Sound(WithoutPane(h, pane), n)
<1> DEFINE left(t) == IF PaneIds(t.layout) = {pane} THEN << >> ELSE Closed(t.layout, pane)
           f == [t \in TabsIn(h) |->
                   IF pane \notin PaneIds(t.layout) THEN t ELSE [t EXCEPT !.layout = left(t)]]
           out == 0 .. n - 1
<1>1. ASSUME NEW t \in TabsIn(h)
      PROVE  /\ IsTab(f[t]) /\ LeftOf(f[t], t)
             /\ f[t].layout = << >> \/ Leaves(f[t].layout) # {}
             /\ t.id \in out
  <2>1. IsTab(t) /\ Leaves(t.layout) # {} /\ t.id \in out
    BY FullTab
  <2>2. CASE pane \notin PaneIds(t.layout)
    BY <2>1, <2>2 DEF LeftOf
  <2>3. CASE pane \in PaneIds(t.layout)
    <3> DEFINE new == left(t)
               u == [t EXCEPT !.layout = new]
    <3>1. f[t] = u
      BY <2>3
    <3>2. new = IF PaneIds(t.layout) = {pane} THEN << >> ELSE Closed(t.layout, pane)
      OBVIOUS
    <3> HIDE DEF new, f
    <3>3. IsTab(u) /\ LeftOf(u, t) /\ (new = << >> \/ Leaves(new) # {})
      BY <2>1, <2>3, <3>2, WithoutOnePane
    <3>4. u.layout = new
      BY <2>1 DEF IsTab, Tab
    <3> HIDE DEF u
    <3>5. QED
      BY <2>1, <3>1, <3>3, <3>4
  <2>4. QED
    BY <2>2, <2>3
<1>2. WithoutPane(h, pane) = Tidy(EachTab(h, f))
  BY DEF WithoutPane
<1>3. Numbered(h, n)
  BY DEF Sound
<1> HIDE DEF f, out
<1>4. QED
  BY <1>1, <1>2, <1>3, TidiedEachTabSound

LEMMA WithoutTabSound ==
  ASSUME NEW n \in Nat, NEW h, Sound(h, n), NEW tab, NEW out,
         \A t \in TabsIn(h) : t.id = tab => t.id \in out
  PROVE  Sound(WithoutTab(h, tab), n) /\ Stays(h, WithoutTab(h, tab), out)
<1> DEFINE f == [t \in TabsIn(h) |-> IF t.id = tab THEN [t EXCEPT !.layout = << >>] ELSE t]
<1>1. ASSUME NEW t \in TabsIn(h)
      PROVE  /\ IsTab(f[t]) /\ LeftOf(f[t], t)
             /\ f[t].layout = << >> \/ Leaves(f[t].layout) # {}
             /\ t.id \notin out => f[t].layout = t.layout /\ t.layout # << >>
  <2> DEFINE none == << >>
             u == [t EXCEPT !.layout = none]
  <2>1. IsTab(t) /\ Leaves(t.layout) # {} /\ t.layout # << >>
    BY FullTab
  <2>2. f[t] = IF t.id = tab THEN u ELSE t
    OBVIOUS
  <2>3. IsLayout(none) /\ PanesApart(none) /\ PaneIds(none) \subseteq PaneIds(t.layout)
    BY EmptyLayout
  <2> HIDE DEF f, none
  <2>4. IsTab(u) /\ LeftOf(u, t) /\ u.layout = none
    BY <2>1, <2>3, RelaidTab
  <2> HIDE DEF u
  <2>5. QED
    BY <2>1, <2>2, <2>4 DEF LeftOf, none
<1>2. WithoutTab(h, tab) = Tidy(EachTab(h, f))
  BY DEF WithoutTab
<1>3. Numbered(h, n)
  BY DEF Sound
<1> HIDE DEF f
<1>4. QED
  BY <1>1, <1>2, <1>3, TidiedEachTabSound

LEMMA RenamedSound ==
  ASSUME NEW n \in Nat, NEW h, Sound(h, n), NEW tab, NEW label, NEW out
  PROVE  Sound(Renamed(h, tab, label), n) /\ Stays(h, Renamed(h, tab, label), out)
<1> DEFINE f == [t \in TabsIn(h) |-> IF t.id = tab THEN [t EXCEPT !.label = label] ELSE t]
<1>1. ASSUME NEW t \in TabsIn(h)
      PROVE  /\ IsTab(f[t]) /\ f[t].id = t.id /\ PaneIds(f[t].layout) \subseteq 0 .. n - 1
             /\ f[t].focused \in PaneIds(f[t].layout)
             /\ t.id \notin out => PaneIds(t.layout) \subseteq PaneIds(f[t].layout)
  <2> DEFINE u == [t EXCEPT !.label = label]
  <2>1. IsTab(t) /\ t.focused \in PaneIds(t.layout) /\ PaneIds(t.layout) \subseteq 0 .. n - 1
    BY FullTab
  <2>2. f[t] = u \/ f[t] = t
    OBVIOUS
  <2> HIDE DEF f
  <2>3. IsTab(u) /\ LeftOf(u, t) /\ u.layout = t.layout /\ u.focused = t.focused
    BY ONLY <2>1, RelabelledTab
  <2> HIDE DEF u
  <2>4. QED
    BY <2>1, <2>2, <2>3 DEF LeftOf
<1>2. Renamed(h, tab, label) = EachTab(h, f) /\ n >= n
  BY DEF Renamed
<1> HIDE DEF f
<1>3. QED
  BY <1>1, <1>2, EachTabSound

LEMMA PaneFocusedSound ==
  ASSUME NEW n \in Nat, NEW h, Sound(h, n), NEW pane, NEW out
  PROVE  Sound(PaneFocused(h, pane), n) /\ Stays(h, PaneFocused(h, pane), out)
<1> DEFINE f == [t \in TabsIn(h) |->
                   IF pane \in PaneIds(t.layout) THEN [t EXCEPT !.focused = pane] ELSE t]
<1>1. ASSUME NEW t \in TabsIn(h)
      PROVE  /\ IsTab(f[t]) /\ f[t].id = t.id /\ PaneIds(f[t].layout) \subseteq 0 .. n - 1
             /\ f[t].focused \in PaneIds(f[t].layout)
             /\ t.id \notin out => PaneIds(t.layout) \subseteq PaneIds(f[t].layout)
  <2> DEFINE u == [t EXCEPT !.focused = pane]
  <2>1. IsTab(t) /\ t.focused \in PaneIds(t.layout) /\ PaneIds(t.layout) \subseteq 0 .. n - 1
    BY FullTab
  <2>2. f[t] = IF pane \in PaneIds(t.layout) THEN u ELSE t
    OBVIOUS
  <2> HIDE DEF f
  <2>3. IsTab(u) /\ LeftOf(u, t) /\ u.layout = t.layout /\ u.focused = pane
    BY ONLY <2>1, RefocusedTab
  <2> HIDE DEF u
  <2>4. QED
    BY <2>1, <2>2, <2>3 DEF LeftOf
<1>2. PaneFocused(h, pane) = EachTab(h, f) /\ n >= n
  BY DEF PaneFocused
<1> HIDE DEF f
<1>3. QED
  BY <1>1, <1>2, EachTabSound

LEMMA PanesSwappedSound ==
  ASSUME NEW n \in Nat, NEW h, Sound(h, n), NEW a, NEW b, NEW out
  PROVE  Sound(PanesSwapped(h, a, b), n) /\ Stays(h, PanesSwapped(h, a, b), out)
<1> DEFINE f == [t \in TabsIn(h) |->
                   IF {a, b} \subseteq PaneIds(t.layout)
                   THEN [t EXCEPT !.layout = Swapped(t.layout, a, b)] ELSE t]
<1>1. ASSUME NEW t \in TabsIn(h)
      PROVE  /\ IsTab(f[t]) /\ f[t].id = t.id /\ PaneIds(f[t].layout) \subseteq 0 .. n - 1
             /\ f[t].focused \in PaneIds(f[t].layout)
             /\ t.id \notin out => PaneIds(t.layout) \subseteq PaneIds(f[t].layout)
  <2> DEFINE new == Swapped(t.layout, a, b)
             u == [t EXCEPT !.layout = new]
  <2>1. /\ IsTab(t) /\ t.focused \in PaneIds(t.layout) /\ PaneIds(t.layout) \subseteq 0 .. n - 1
        /\ IsLayout(t.layout) /\ PanesApart(t.layout)
    BY FullTab
  <2>2. f[t] = IF a \in PaneIds(t.layout) /\ b \in PaneIds(t.layout) THEN u ELSE t
    OBVIOUS
  <2> HIDE DEF f
  <2>3. CASE a \in PaneIds(t.layout) /\ b \in PaneIds(t.layout)
    <3>1. IsLayout(new) /\ PanesApart(new) /\ PaneIds(new) = PaneIds(t.layout)
      BY ONLY <2>1, <2>3, SwappedIsLayout
    <3> HIDE DEF new
    <3>2. IsTab(u) /\ u.id = t.id /\ u.layout = new /\ u.focused = t.focused
      BY ONLY <2>1, <3>1, RelaidTab
    <3> HIDE DEF u
    <3>3. QED
      BY <2>1, <2>2, <2>3, <3>1, <3>2
  <2>4. CASE ~(a \in PaneIds(t.layout) /\ b \in PaneIds(t.layout))
    BY <2>1, <2>2, <2>4
  <2>5. QED
    BY <2>3, <2>4
<1>2. PanesSwapped(h, a, b) = EachTab(h, f) /\ n >= n
  BY DEF PanesSwapped
<1> HIDE DEF f
<1>3. QED
  BY <1>1, <1>2, EachTabSound

\* The tabs of `after` are tabs of h, with panes of ids at most added.
GrownBy(h, after, ids) ==
  \A t \in TabsIn(after) : \E s \in TabsIn(h) :
    t.id = s.id /\ PaneIds(t.layout) \subseteq PaneIds(s.layout) \cup ids

\* A split with any id that no pane has: one given for the first time or again.
LEMMA PaneSplitSound ==
  ASSUME NEW n \in Nat, NEW h, Sound(h, n), NEW m \in Nat, m >= n, NEW id \in 0 .. m - 1,
         \A t \in TabsIn(h) : id \notin PaneIds(t.layout),
         NEW target, NEW direction, NEW ratio, NEW cwd, NEW out,
         NEW after, after = PaneSplit(h, target, direction, ratio, Pane(id, cwd))
  PROVE  Sound(after, m) /\ Stays(h, after, out) /\ GrownBy(h, after, {id})
<1> DEFINE pane == Pane(id, cwd)
           one == {id}
           f == [t \in TabsIn(h) |->
                   IF target \in PaneIds(t.layout)
                   THEN [t EXCEPT !.layout = SplitAt(@, target, direction, ratio, pane)] ELSE t]
<1>1. ASSUME NEW t \in TabsIn(h)
      PROVE  /\ IsTab(f[t]) /\ f[t].id = t.id /\ PaneIds(f[t].layout) \subseteq 0 .. m - 1
             /\ f[t].focused \in PaneIds(f[t].layout)
             /\ PaneIds(t.layout) \subseteq PaneIds(f[t].layout)
             /\ PaneIds(f[t].layout) \subseteq PaneIds(t.layout) \cup one
  <2> DEFINE new == SplitAt(t.layout, target, direction, ratio, pane)
             u == [t EXCEPT !.layout = new]
  <2>1. /\ IsTab(t) /\ t.focused \in PaneIds(t.layout) /\ PaneIds(t.layout) \subseteq 0 .. n - 1
        /\ IsLayout(t.layout) /\ PanesApart(t.layout)
    BY FullTab
  <2>2. f[t] = IF target \in PaneIds(t.layout) THEN u ELSE t
    OBVIOUS
  <2> HIDE DEF f
  <2>3. id \notin PaneIds(t.layout) /\ PaneIds(t.layout) \subseteq 0 .. m - 1
    BY <2>1
  <2>4. CASE target \in PaneIds(t.layout)
    <3>1. IsLayout(new) /\ PanesApart(new) /\ PaneIds(new) = PaneIds(t.layout) \cup one
      BY <2>1, <2>3, <2>4, SplitIsLayout
    <3>2. \A x \in one : x = id
      OBVIOUS
    <3> HIDE DEF new, one
    <3>3. IsTab(u) /\ u.id = t.id /\ u.layout = new /\ u.focused = t.focused
      BY ONLY <2>1, <3>1, RelaidTab
    <3> HIDE DEF u
    <3>4. QED
      BY <2>1, <2>2, <2>3, <2>4, <3>1, <3>2, <3>3
  <2>5. CASE target \notin PaneIds(t.layout)
    BY <2>1, <2>2, <2>3, <2>5
  <2>6. QED
    BY <2>4, <2>5
<1>2. after = EachTab(h, f)
  BY DEF PaneSplit
<1> HIDE DEF f, one
<1>3. Sound(after, m) /\ Stays(h, after, out)
  <2>1. \A t \in TabsIn(h) : /\ IsTab(f[t]) /\ f[t].id = t.id
                             /\ PaneIds(f[t].layout) \subseteq 0 .. m - 1
                             /\ f[t].focused \in PaneIds(f[t].layout)
                             /\ t.id \notin out => PaneIds(t.layout) \subseteq PaneIds(f[t].layout)
    BY <1>1
  <2>2. Sound(EachTab(h, f), m) /\ Stays(h, EachTab(h, f), out)
    BY ONLY <2>1, Sound(h, n), n \in Nat, m \in Nat, m >= n, EachTabSound
  <2>3. QED
    BY ONLY <1>2, <2>2
<1>4. \A t \in TabsIn(after) : \E s \in TabsIn(h) : t = f[s]
  BY <1>1, <1>2, EachTabChanged DEF Sound, Numbered
<1>5. GrownBy(h, after, one)
  BY <1>1, <1>4 DEF GrownBy
<1>6. QED
  BY <1>3, <1>5 DEF one

\* A tab that is as it should be, with ids below n.
Shown(t, n) ==
  t.id \in 0 .. n - 1 /\ PaneIds(t.layout) \subseteq 0 .. n - 1
  /\ t.focused \in PaneIds(t.layout)

\* Workspaces changed in place.
LEMMA ChangedSound ==
  ASSUME NEW n \in Nat, NEW h, IsSession(h), DistinctIds(h), NEW h2, NEW out,
         h2 = [i \in DOMAIN h |-> h2[i]],
         \A i \in DOMAIN h :
           /\ IsWorkspace(h2[i]) /\ h2[i].id = h[i].id /\ h[i].id \in 0 .. n - 1
           /\ DistinctIds(h2[i].tabs) /\ h2[i].active \in IdsIn(h2[i].tabs)
           /\ \A t \in Range(h2[i].tabs) : Shown(t, n)
           /\ \A t \in Range(h[i].tabs) : t.id \notin out =>
                \E s \in Range(h2[i].tabs) : s.id = t.id
                /\ PaneIds(t.layout) \subseteq PaneIds(s.layout)
  PROVE  Sound(h2, n) /\ Stays(h, h2, out)
<1>1. DOMAIN h2 = DOMAIN h /\ IsSeq(h2)
  BY MapIsSeq DEF IsSession
<1>2. IsSession(h2)
  BY <1>1 DEF IsSession, Range
<1>3. DistinctIds(h2)
  BY <1>1, SameIds
<1>4. \A t \in TabsIn(h2) : Shown(t, n)
  BY <1>1, TabsOfWorkspaces
<1>5. Sound(h2, n)
  BY <1>1, <1>2, <1>3, <1>4 DEF Sound, Numbered, Seated, Shown
<1>6. Stays(h, h2, out)
  <2> SUFFICES ASSUME NEW t \in TabsIn(h), t.id \notin out
               PROVE  \E s \in TabsIn(h2) :
                        s.id = t.id /\ PaneIds(t.layout) \subseteq PaneIds(s.layout)
    BY DEF Stays
  <2>1. PICK i \in DOMAIN h : t \in Range(h[i].tabs)
    BY TabsOfWorkspaces
  <2>2. PICK s \in Range(h2[i].tabs) : s.id = t.id
        /\ PaneIds(t.layout) \subseteq PaneIds(s.layout)
    <3>1. \A u \in Range(h[i].tabs) : u.id \notin out =>
            \E s \in Range(h2[i].tabs) : s.id = u.id
            /\ PaneIds(u.layout) \subseteq PaneIds(s.layout)
      OBVIOUS
    <3>2. QED
      BY ONLY <2>1, <3>1, t.id \notin out
  <2>3. s \in TabsIn(h2)
    BY <1>1, <2>2, TabsOfWorkspaces
  <2>4. QED
    BY <2>2, <2>3
<1>7. QED
  BY <1>5, <1>6

LEMMA SoundWorkspace ==
  ASSUME NEW n, NEW h, Sound(h, n), NEW i \in DOMAIN h
  PROVE  /\ IsWorkspace(h[i]) /\ IsSeq(h[i].tabs) /\ h[i].id \in 0 .. n - 1
         /\ DistinctIds(h[i].tabs) /\ h[i].active \in IdsIn(h[i].tabs)
         /\ \A t \in Range(h[i].tabs) : IsTab(t) /\ Shown(t, n)
<1>1. IsSession(h)
  BY DEF Sound, Numbered
<1>2. IsWorkspace(h[i]) /\ IsSeq(h[i].tabs)
  BY <1>1, MembersOfSession DEF IsWorkspace
<1>3. \A t \in Range(h[i].tabs) : t \in TabsIn(h)
  BY TabsOfWorkspaces
<1>4. \A t \in Range(h[i].tabs) : IsTab(t) /\ Shown(t, n)
  BY <1>1, <1>3, MembersOfSession DEF Sound, Numbered, Shown
<1>5. QED
  BY <1>2, <1>4 DEF Sound, Numbered, Seated

LEMMA KeepSound ==
  ASSUME NEW n, NEW h, Sound(h, n), NEW K \in SUBSET DOMAIN h
  PROVE  Sound(Keep(h, K), n)
<1> DEFINE r == Keep(h, K)
<1>1. IsSession(h) /\ IsSeq(h) /\ DistinctIds(h)
  BY DEF Sound, Numbered, IsSession
<1>2. /\ IsSeq(r) /\ Range(r) \subseteq Range(h) /\ DistinctIds(r)
      /\ \A j \in DOMAIN r : \E k \in K : r[j] = h[k]
  BY <1>1, KeepIsSeq, KeepIds
<1> HIDE DEF r
<1>3. IsSession(r)
  BY <1>1, <1>2 DEF IsSession
<1>4. \A j \in DOMAIN r : /\ r[j].id \in 0 .. n - 1 /\ DistinctIds(r[j].tabs)
                          /\ r[j].active \in IdsIn(r[j].tabs)
                          /\ \A t \in Range(r[j].tabs) : Shown(t, n)
  BY <1>2, SoundWorkspace
<1>5. \A t \in TabsIn(r) : Shown(t, n)
  BY <1>4, TabsOfWorkspaces
<1>6. Sound(r, n)
  BY <1>2, <1>3, <1>4, <1>5 DEF Sound, Numbered, Seated, Shown
<1>7. QED
  BY <1>6 DEF r

LEMMA TabFocusedSound ==
  ASSUME NEW n \in Nat, NEW h, Sound(h, n), NEW tab, NEW out
  PROVE  Sound(TabFocused(h, tab), n) /\ Stays(h, TabFocused(h, tab), out)
<1> DEFINE h2 == TabFocused(h, tab)
<1>1. /\ h2 = [i \in DOMAIN h |-> h2[i]]
      /\ \A i \in DOMAIN h : h2[i] = IF tab \in IdsIn(h[i].tabs)
                                     THEN [h[i] EXCEPT !.active = tab] ELSE h[i]
  BY DEF TabFocused
<1> HIDE DEF h2
<1>2. ASSUME NEW i \in DOMAIN h
      PROVE  /\ IsWorkspace(h2[i]) /\ h2[i].id = h[i].id /\ h2[i].tabs = h[i].tabs
             /\ h2[i].active \in IdsIn(h2[i].tabs)
  <2> DEFINE w == h[i]
             u == [w EXCEPT !.active = tab]
  <2>1. IsWorkspace(w) /\ w.active \in IdsIn(w.tabs)
    BY SoundWorkspace
  <2>2. h2[i] = IF tab \in IdsIn(w.tabs) THEN u ELSE w
    BY <1>1
  <2> HIDE DEF w
  <2>3. IsWorkspace(u) /\ u.tabs = w.tabs /\ u.id = w.id /\ u.active = tab
    BY ONLY <2>1, WorkspaceWithActive
  <2> HIDE DEF u
  <2>4. /\ IsWorkspace(h2[i]) /\ h2[i].id = w.id /\ h2[i].tabs = w.tabs
        /\ h2[i].active \in IdsIn(h2[i].tabs)
    BY <2>1, <2>2, <2>3
  <2>5. QED
    BY <2>4 DEF w
<1>3. IsSession(h) /\ DistinctIds(h)
  BY DEF Sound, Numbered
<1>4. \A i \in DOMAIN h :
           /\ IsWorkspace(h2[i]) /\ h2[i].id = h[i].id /\ h[i].id \in 0 .. n - 1
           /\ DistinctIds(h2[i].tabs) /\ h2[i].active \in IdsIn(h2[i].tabs)
           /\ \A t \in Range(h2[i].tabs) : Shown(t, n)
           /\ \A t \in Range(h[i].tabs) : t.id \notin out =>
                \E s \in Range(h2[i].tabs) : s.id = t.id
                /\ PaneIds(t.layout) \subseteq PaneIds(s.layout)
  BY <1>2, SoundWorkspace
<1>5. Sound(h2, n) /\ Stays(h, h2, out)
  BY <1>1, <1>3, <1>4, ChangedSound
<1>6. QED
  BY <1>5 DEF h2

\* A new tab at the end of a workspace's.
LEMMA AppendIds ==
  ASSUME NEW s, IsSeq(s), DistinctIds(s), NEW e, e.id \notin IdsIn(s)
  PROVE  /\ DistinctIds(Append(s, e)) /\ Range(s) \subseteq Range(Append(s, e))
         /\ e \in Range(Append(s, e)) /\ Range(Append(s, e)) \subseteq Range(s) \cup {e}
<1> DEFINE r == Append(s, e)
           n == Len(s)
<1>1. n \in Nat /\ DOMAIN s = 1 .. n
  BY DEF IsSeq
<1>2. Range(r) \subseteq Range(s) \cup {e}
  BY AppendIsSeq
<1>3. /\ DOMAIN r = 1 .. n + 1 /\ r[n + 1] = e
      /\ \A i \in 1 .. n : r[i] = s[i]
  <2>1. s \in Seq(Range(s) \cup {e})
    BY SeqWithRange DEF IsSeq
  <2>2. QED
    BY <2>1
<1> HIDE DEF r, n
<1>4. DistinctIds(r)
  <2> SUFFICES ASSUME NEW i \in DOMAIN r, NEW j \in DOMAIN r, r[i].id = r[j].id PROVE i = j
    BY DEF DistinctIds
  <2>1. (i \in 1 .. n \/ i = n + 1) /\ (j \in 1 .. n \/ j = n + 1)
    BY <1>1, <1>3
  <2>2. CASE i \in 1 .. n /\ j \in 1 .. n
    BY <1>1, <1>3, <2>2 DEF DistinctIds
  <2>3. \A k \in 1 .. n : r[k].id # e.id
    BY <1>1, <1>3 DEF IdsIn
  <2>4. QED
    BY <1>3, <2>1, <2>2, <2>3
<1>5. Range(s) \subseteq Range(r) /\ e \in Range(r)
  <2>1. n + 1 \in DOMAIN r /\ \A i \in DOMAIN s : i \in DOMAIN r /\ r[i] = s[i]
    BY <1>1, <1>3
  <2>2. QED
    BY <1>3, <2>1 DEF Range
<1>6. QED
  BY <1>2, <1>4, <1>5 DEF r

LEMMA WithTabSound ==
  ASSUME NEW n \in Nat, NEW h, IsSession(h), DistinctIds(h), NEW ws, NEW out,
         NEW tab, IsTab(tab), Shown(tab, n),
         \A i \in DOMAIN h :
           /\ h[i].id \in 0 .. n - 1 /\ DistinctIds(h[i].tabs)
           /\ \A t \in Range(h[i].tabs) : Shown(t, n)
           /\ h[i].id = ws => tab.id \notin IdsIn(h[i].tabs)
           /\ h[i].active \in IdsIn(h[i].tabs) \/ (h[i].id = ws /\ h[i].active = tab.id)
  PROVE  Sound(WithTab(h, ws, tab), n) /\ Stays(h, WithTab(h, ws, tab), out)
<1> DEFINE label(i) == IF tab.label = None THEN AutoLabels[Len(h[i].tabs) + 1] ELSE tab.label
           named(i) == [tab EXCEPT !.label = label(i)]
           h2 == WithTab(h, ws, tab)
<1>1. /\ h2 = [i \in DOMAIN h |-> h2[i]]
      /\ \A i \in DOMAIN h : h2[i] = IF h[i].id # ws THEN h[i]
                                     ELSE [h[i] EXCEPT !.tabs = Append(@, named(i))]
  BY DEF WithTab
<1> HIDE DEF h2
<1>2. ASSUME NEW i \in DOMAIN h
      PROVE  IsTab(named(i)) /\ named(i).id = tab.id /\ Shown(named(i), n)
  <2> DEFINE x == label(i)
             u == [tab EXCEPT !.label = x]
  <2>1. named(i) = u
    OBVIOUS
  <2> HIDE DEF x, named
  <2>2. IsTab(u) /\ LeftOf(u, tab) /\ u.layout = tab.layout /\ u.focused = tab.focused
    BY ONLY IsTab(tab), RelabelledTab
  <2> HIDE DEF u
  <2>3. QED
    BY <2>1, <2>2 DEF LeftOf, Shown
<1> HIDE DEF named
<1>3. ASSUME NEW i \in DOMAIN h
      PROVE  /\ IsWorkspace(h2[i]) /\ h2[i].id = h[i].id /\ h[i].id \in 0 .. n - 1
             /\ DistinctIds(h2[i].tabs) /\ h2[i].active \in IdsIn(h2[i].tabs)
             /\ \A t \in Range(h2[i].tabs) : Shown(t, n)
             /\ \A t \in Range(h[i].tabs) : t.id \notin out =>
                  \E s \in Range(h2[i].tabs) : s.id = t.id
                  /\ PaneIds(t.layout) \subseteq PaneIds(s.layout)
  <2> DEFINE w   == h[i]
             e   == named(i)
             row == Append(w.tabs, e)
             u   == [w EXCEPT !.tabs = row]
  <2>1. IsWorkspace(w) /\ IsSeq(w.tabs) /\ \A t \in Range(w.tabs) : IsTab(t)
    BY MembersOfSession DEF IsWorkspace
  <2>2. h2[i] = IF w.id # ws THEN w ELSE u
    BY <1>1
  <2>3. CASE w.id # ws
    BY <2>1, <2>2, <2>3
  <2>4. CASE w.id = ws
    <3>1. DistinctIds(w.tabs) /\ e.id \notin IdsIn(w.tabs)
      BY <1>2, <2>4
    <3>2. IsTab(e) /\ e.id = tab.id /\ Shown(e, n)
      BY <1>2
    <3>3. /\ w.id \in 0 .. n - 1 /\ \A t \in Range(w.tabs) : Shown(t, n)
          /\ w.active \in IdsIn(w.tabs) \/ w.active = tab.id
      OBVIOUS
    <3>4. h2[i] = u
      BY <2>2, <2>4
    <3>5. h[i] = w
      OBVIOUS
    <3> HIDE DEF w, e
    <3>6. /\ IsSeq(row) /\ DistinctIds(row) /\ Range(w.tabs) \subseteq Range(row)
          /\ e \in Range(row) /\ Range(row) \subseteq Range(w.tabs) \cup {e}
      BY <2>1, <3>1, AppendIds, AppendIsSeq
    <3> HIDE DEF row
    <3>7. IsWorkspace(u) /\ u.tabs = row /\ u.id = w.id /\ u.active = w.active
      BY <2>1, <3>2, <3>6, WorkspaceWithTabs
    <3> HIDE DEF u
    <3>8. w.active \in IdsIn(row)
      <4>1. IdsIn(row) = {t.id : t \in Range(row)}
            /\ IdsIn(w.tabs) = {t.id : t \in Range(w.tabs)}
        BY DEF IdsIn, Range
      <4>2. QED
        BY <3>2, <3>3, <3>6, <4>1
    <3>9. QED
      BY <3>2, <3>3, <3>4, <3>5, <3>6, <3>7, <3>8
  <2>5. QED
    BY <2>3, <2>4
<1>4. Sound(h2, n) /\ Stays(h, h2, out)
  BY <1>1, <1>3, ChangedSound
<1>5. QED
  BY <1>4 DEF h2

LEMMA SoundGrows ==
  ASSUME NEW n \in Nat, NEW h, Sound(h, n), NEW m \in Nat, m >= n
  PROVE  Sound(h, m)
<1>1. \A x \in 0 .. n - 1 : x \in 0 .. m - 1
  OBVIOUS
<1> DEFINE A == 0 .. n - 1
           B == 0 .. m - 1
<1>2. A \subseteq B
  BY <1>1
<1>3. /\ \A i \in DOMAIN h : h[i].id \in A
      /\ \A t \in TabsIn(h) : t.id \in A /\ PaneIds(t.layout) \subseteq A
  BY DEF Sound, Numbered
<1> HIDE DEF A, B
<1>4. /\ \A i \in DOMAIN h : h[i].id \in B
      /\ \A t \in TabsIn(h) : t.id \in B /\ PaneIds(t.layout) \subseteq B
  BY <1>2, <1>3
<1>5. QED
  BY <1>4 DEF Sound, Numbered, B

LEMMA WithWorkspaceSound ==
  ASSUME NEW n \in Nat, NEW h, Sound(h, n), NEW id \in 0 .. n - 1, id \notin IdsIn(h),
         NEW label, NEW cwd, NEW tab, IsTab(tab), Shown(tab, n), NEW out
  PROVE  /\ Sound(WithWorkspace(h, id, label, cwd, tab), n)
         /\ Stays(h, WithWorkspace(h, id, label, cwd, tab), out)
<1> DEFINE name == IF label = None THEN cwd ELSE label
           w    == Workspace(id, name, cwd, tab.id, << >>)
           h1   == Append(h, w)
           h2   == WithTab(h1, id, tab)
<1>1. IsWorkspace(w) /\ w.id = id /\ w.active = tab.id /\ w.tabs = << >>
  BY EmptyIsSeq DEF IsWorkspace, Workspace
<1>2. WithWorkspace(h, id, label, cwd, tab) = h2
  BY DEF WithWorkspace
<1> HIDE DEF w
<1>3. IsSession(h) /\ IsSeq(h) /\ DistinctIds(h)
  BY DEF Sound, Numbered, IsSession
<1>4. /\ IsSeq(h1) /\ DistinctIds(h1) /\ Range(h) \subseteq Range(h1)
      /\ Range(h1) \subseteq Range(h) \cup {w}
  BY <1>1, <1>3, AppendIds, AppendIsSeq
<1> HIDE DEF h1
<1>5. IsSession(h1)
  BY <1>1, <1>3, <1>4 DEF IsSession
<1>6. ASSUME NEW i \in DOMAIN h1
      PROVE  /\ h1[i].id \in 0 .. n - 1 /\ DistinctIds(h1[i].tabs)
             /\ \A t \in Range(h1[i].tabs) : Shown(t, n)
             /\ h1[i].id = id => tab.id \notin IdsIn(h1[i].tabs)
             /\ h1[i].active \in IdsIn(h1[i].tabs) \/ (h1[i].id = id /\ h1[i].active = tab.id)
  <2>1. h1[i] \in Range(h) \/ h1[i] = w
    BY <1>4 DEF Range
  <2>2. CASE h1[i] = w
    <3>1. DistinctIds(w.tabs) /\ Range(w.tabs) = {} /\ IdsIn(w.tabs) = {}
      BY <1>1, EmptyIsSeq DEF DistinctIds, IdsIn
    <3>2. QED
      BY <1>1, <2>2, <3>1
  <2>3. CASE h1[i] \in Range(h)
    <3>1. PICK k \in DOMAIN h : h[k] = h1[i]
      BY <2>3 DEF Range
    <3>2. h[k].id # id
      BY DEF IdsIn
    <3>3. QED
      BY <3>1, <3>2, SoundWorkspace
  <2>4. QED
    BY <2>1, <2>2, <2>3
<1>7. Sound(h2, n) /\ Stays(h1, h2, out)
  BY <1>4, <1>5, <1>6, WithTabSound
<1> HIDE DEF h2
<1>8. Stays(h, h2, out)
  <2>1. ASSUME NEW t \in TabsIn(h) PROVE t \in TabsIn(h1)
    <3>1. PICK i \in DOMAIN h : t \in Range(h[i].tabs)
      BY TabsOfWorkspaces
    <3>2. PICK j \in DOMAIN h1 : h1[j] = h[i]
      BY <1>4 DEF Range
    <3>3. QED
      BY <3>1, <3>2, TabsOfWorkspaces
  <2>2. QED
    BY <1>7, <2>1 DEF Stays
<1>9. QED
  BY <1>2, <1>7, <1>8

LEMMA NewTabSound ==
  ASSUME NEW n \in Nat, NEW h, Sound(h, n), NEW ws, NEW tab, IsTab(tab), Shown(tab, n),
         \A t \in TabsIn(h) : t.id # tab.id, NEW out
  PROVE  Sound(WithTab(h, ws, tab), n) /\ Stays(h, WithTab(h, ws, tab), out)
<1>1. IsSession(h) /\ DistinctIds(h)
  BY DEF Sound, Numbered
<1>2. ASSUME NEW i \in DOMAIN h PROVE tab.id \notin IdsIn(h[i].tabs)
  <2>1. \A j \in DOMAIN h[i].tabs : h[i].tabs[j] \in TabsIn(h)
    BY <1>1, MembersOfSession
  <2>2. QED
    BY <2>1 DEF IdsIn
<1>3. \A i \in DOMAIN h :
           /\ h[i].id \in 0 .. n - 1 /\ DistinctIds(h[i].tabs)
           /\ \A t \in Range(h[i].tabs) : Shown(t, n)
           /\ h[i].id = ws => tab.id \notin IdsIn(h[i].tabs)
           /\ h[i].active \in IdsIn(h[i].tabs) \/ (h[i].id = ws /\ h[i].active = tab.id)
  BY <1>2, SoundWorkspace
<1>4. QED
  BY <1>1, <1>3, WithTabSound

\* A tab beside those of a workspace, and then without the tab that it replaces.
LEMMA ReplacedSound ==
  ASSUME NEW n \in Nat, NEW h, Sound(h, n), NEW ws, NEW tab, IsTab(tab), Shown(tab, n),
         \A t \in TabsIn(h) : t.id # tab.id,
         NEW old, NEW out, old \in out \/ old \notin Nat
  PROVE  /\ Sound(WithoutTab(WithTab(h, ws, tab), old), n)
         /\ Stays(h, WithoutTab(WithTab(h, ws, tab), old), out)
<1> DEFINE h1 == WithTab(h, ws, tab)
           h2 == WithoutTab(h1, old)
<1>1. Sound(h1, n) /\ Stays(h, h1, out)
  BY NewTabSound
<1> HIDE DEF h1
<1>2. \A t \in TabsIn(h1) : t.id = old => t.id \in out
  <2>1. \A t \in TabsIn(h1) : t.id \in Nat
    BY <1>1 DEF Sound, Numbered
  <2>2. QED
    BY <2>1
<1>3. Sound(h2, n) /\ Stays(h1, h2, out)
  BY <1>1, <1>2, WithoutTabSound
<1> HIDE DEF h2
<1>4. Stays(h, h2, out)
  BY <1>1, <1>3, StaysOn
<1>5. QED
  BY <1>3, <1>4 DEF h1, h2

LEMMA ConcatAt ==
  ASSUME NEW S, NEW r \in Seq(S), NEW s \in Seq(S)
  PROVE  /\ r \o s \in Seq(S) /\ Len(r \o s) = Len(r) + Len(s)
         /\ \A k \in 1 .. Len(r) : (r \o s)[k] = r[k]
         /\ \A k \in 1 .. Len(s) : (r \o s)[Len(r) + k] = s[k]
OBVIOUS

LEMMA InsertAtIs ==
  ASSUME NEW s, IsSeq(s), NEW at \in 0 .. Len(s), NEW e, NEW r, r = InsertAt(s, at + 1, e)
  PROVE  /\ DOMAIN r = 1 .. Len(s) + 1 /\ r[at + 1] = e
         /\ \A k \in 1 .. at : r[k] = s[k]
         /\ \A k \in at + 2 .. Len(s) + 1 : r[k] = s[k - 1]
<1> DEFINE S      == Range(s) \cup {e}
           n      == Len(s)
           pos    == at + 1
           before == SubSeq(s, 1, at)
           after  == SubSeq(s, at + 1, n)
           one    == <<e>>
<1>1. s \in Seq(S) /\ e \in S /\ n \in Nat /\ DOMAIN s = 1 .. n /\ at \in 0 .. n
  BY SeqMonotonic DEF IsSeq
<1>2. r = (before \o one) \o after
  <2>1. InsertAt(s, pos, e) = SubSeq(s, 1, pos - 1) \o one \o after
    BY DEF InsertAt
  <2>2. pos - 1 = at
    OBVIOUS
  <2>3. QED
    BY <2>1, <2>2
<1> HIDE DEF S, n
<1>3. /\ before \in Seq(S) /\ Len(before) = at
      /\ \A k \in 1 .. at : before[k] = s[k]
  BY <1>1
<1>4. /\ after \in Seq(S) /\ Len(after) = n - at
      /\ \A k \in 1 .. n - at : after[k] = s[at + k]
  <2>1. at + 1 \in 1 .. n + 1 /\ n \in 0 .. n /\ (at + 1) - 1 = at
    BY <1>1
  <2>2. Len(s) = n
    BY DEF n
  <2>3. after \in Seq(S)
    BY <1>1, <2>1, <2>2
  <2>4. Len(after) = n - at
    BY <1>1, <2>1, <2>2
  <2>5. ASSUME NEW k \in 1 .. n - at PROVE after[k] = s[at + k]
    <3>1. at + 1 + k - 1 = at + k /\ k \in 1 .. n - (at + 1) + 1
      BY <1>1
    <3>2. after[k] = s[at + 1 + k - 1]
      BY <1>1, <2>1, <2>2, <3>1
    <3>3. QED
      BY <3>1, <3>2
  <2>6. QED
    BY <2>3, <2>4, <2>5
<1>5. one \in Seq(S) /\ Len(one) = 1 /\ one[1] = e
  BY <1>1
<1> HIDE DEF before, after, one
<1> DEFINE front == before \o one
<1>6. /\ front \in Seq(S) /\ Len(front) = at + 1 /\ front[at + 1] = e
      /\ \A k \in 1 .. at : front[k] = s[k]
  <2>1. /\ front \in Seq(S) /\ Len(front) = Len(before) + Len(one)
        /\ \A k \in 1 .. Len(before) : front[k] = before[k]
        /\ \A k \in 1 .. Len(one) : front[Len(before) + k] = one[k]
    BY ONLY <1>3, <1>5, ConcatAt
  <2>2. 1 \in 1 .. Len(one)
    BY <1>5
  <2>3. QED
    BY <1>3, <1>5, <2>1, <2>2
<1> HIDE DEF front
<1>7. /\ r \in Seq(S) /\ Len(r) = Len(front) + Len(after)
      /\ \A k \in 1 .. Len(front) : r[k] = front[k]
      /\ \A k \in 1 .. Len(after) : r[Len(front) + k] = after[k]
  <2>1. r = front \o after
    BY <1>2 DEF front
  <2>2. /\ front \o after \in Seq(S) /\ Len(front \o after) = Len(front) + Len(after)
        /\ \A k \in 1 .. Len(front) : (front \o after)[k] = front[k]
        /\ \A k \in 1 .. Len(after) : (front \o after)[Len(front) + k] = after[k]
    <3>1. front \in Seq(S) /\ after \in Seq(S)
      BY <1>4, <1>6
    <3>2. QED
      BY ONLY <3>1, ConcatAt
  <2>3. QED
    BY ONLY <2>1, <2>2
<1>8. r[at + 1] = e /\ \A k \in 1 .. at : r[k] = s[k]
  <2>1. at + 1 \in 1 .. Len(front) /\ \A k \in 1 .. at : k \in 1 .. Len(front)
    BY <1>1, <1>6
  <2>2. QED
    BY <1>6, <1>7, <2>1
<1>9. ASSUME NEW k \in at + 2 .. n + 1 PROVE r[k] = s[k - 1]
  <2>1. /\ k - (at + 1) \in 1 .. n - at /\ at + (k - (at + 1)) = k - 1
        /\ at + 1 + (k - (at + 1)) = k
    BY <1>1
  <2>2. r[k] = after[k - (at + 1)]
    BY <1>4, <1>6, <1>7, <2>1
  <2>3. QED
    BY <1>4, <2>1, <2>2
<1>10. DOMAIN r = 1 .. n + 1
  <2>1. Len(r) = n + 1
    BY <1>1, <1>4, <1>6, <1>7
  <2>2. QED
    BY <1>7, <2>1
<1>11. QED
  BY <1>8, <1>9, <1>10 DEF n

LEMMA InsertedIds ==
  ASSUME NEW s, IsSeq(s), DistinctIds(s), NEW at \in 0 .. Len(s), NEW e, e.id \notin IdsIn(s)
  PROVE  /\ DistinctIds(InsertAt(s, at + 1, e))
         /\ Range(InsertAt(s, at + 1, e)) = Range(s) \cup {e}
<1> DEFINE n == Len(s)
           r == InsertAt(s, at + 1, e)
           from(k) == IF k <= at THEN k ELSE k - 1
<1>1. /\ DOMAIN r = 1 .. n + 1 /\ r[at + 1] = e
      /\ \A k \in 1 .. at : r[k] = s[k]
      /\ \A k \in at + 2 .. n + 1 : r[k] = s[k - 1]
  <2>1. r = InsertAt(s, at + 1, e)
    OBVIOUS
  <2> HIDE DEF r
  <2>2. QED
    BY ONLY <2>1, IsSeq(s), at \in 0 .. Len(s), InsertAtIs DEF n
<1>2. n \in Nat /\ DOMAIN s = 1 .. n /\ at \in 0 .. n
  BY DEF IsSeq
<1>3. Range(r) \subseteq Range(s) \cup {e}
  BY InsertAtIsSeq
<1> HIDE DEF r, n
<1>4. ASSUME NEW k \in DOMAIN r, k # at + 1
      PROVE  from(k) \in DOMAIN s /\ r[k] = s[from(k)]
  <2>1. CASE k \in 1 .. at
    BY <1>1, <1>2, <2>1
  <2>2. CASE k \in at + 2 .. n + 1
    BY <1>1, <1>2, <2>2
  <2>3. QED
    BY <1>1, <1>2, <1>4, <2>1, <2>2
<1>5. DistinctIds(r)
  <2> SUFFICES ASSUME NEW i \in DOMAIN r, NEW j \in DOMAIN r, r[i].id = r[j].id PROVE i = j
    BY DEF DistinctIds
  <2>1. \A k \in DOMAIN r : k # at + 1 => r[k].id # e.id
    BY <1>4 DEF IdsIn
  <2>2. CASE i = at + 1 \/ j = at + 1
    BY <1>1, <2>1, <2>2
  <2>3. CASE i # at + 1 /\ j # at + 1
    <3>1. from(i) = from(j)
      BY <1>4, <2>3 DEF DistinctIds
    <3>2. QED
      BY <1>1, <1>2, <2>3, <3>1
  <2>4. QED
    BY <2>2, <2>3
<1>6. ASSUME NEW i \in DOMAIN s PROVE s[i] \in Range(r)
  <2>1. CASE i <= at
    <3>1. i \in 1 .. at /\ i \in DOMAIN r
      BY <1>1, <1>2, <2>1
    <3>2. QED
      BY <1>1, <3>1 DEF Range
  <2>2. CASE ~(i <= at)
    <3>1. i + 1 \in at + 2 .. n + 1 /\ i + 1 \in DOMAIN r /\ (i + 1) - 1 = i
      BY <1>1, <1>2, <2>2
    <3>2. QED
      BY <1>1, <3>1 DEF Range
  <2>3. QED
    BY <2>1, <2>2
<1>7. at + 1 \in DOMAIN r
  BY <1>1, <1>2
<1>8. Range(r) = Range(s) \cup {e}
  BY <1>1, <1>3, <1>6, <1>7 DEF Range
<1>9. QED
  BY <1>5, <1>8 DEF r

LEMMA IdsOfRange ==
  ASSUME NEW s, NEW r, Range(s) \subseteq Range(r) PROVE IdsIn(s) \subseteq IdsIn(r)
<1> SUFFICES ASSUME NEW i \in DOMAIN s PROVE s[i].id \in IdsIn(r)
  BY DEF IdsIn
<1>1. s[i] \in Range(r)
  BY DEF Range
<1>2. PICK j \in DOMAIN r : r[j] = s[i]
  BY <1>1 DEF Range
<1>3. QED
  BY <1>2 DEF IdsIn

LEMMA PlacedIds ==
  ASSUME NEW s, IsSeq(s), DistinctIds(s), NEW tab \in IdsIn(s), NEW K,
         K = {j \in DOMAIN s : s[j].id # tab},
         NEW rest, rest = Keep(s, K), NEW at \in 0 .. Len(rest),
         NEW e, e = s[CHOOSE j \in DOMAIN s : s[j].id = tab], NEW r,
         r = InsertAt(rest, at + 1, e)
  PROVE  IsSeq(r) /\ DistinctIds(r) /\ Range(r) = Range(s) /\ IdsIn(r) = IdsIn(s)
<1> DEFINE one == {e}
<1>1. K \in SUBSET DOMAIN s
  OBVIOUS
<1>2. /\ IsSeq(rest) /\ DistinctIds(rest) /\ Range(rest) \subseteq Range(s)
      /\ \A j \in DOMAIN rest : \E k \in K : rest[j] = s[k]
      /\ \A k \in K : \E j \in DOMAIN rest : rest[j] = s[k]
  BY <1>1, KeepIds, KeepIsSeq
<1>3. \E j \in DOMAIN s : s[j].id = tab
  BY DEF IdsIn
<1>4. e \in Range(s) /\ e.id = tab
  BY <1>3 DEF Range
<1>5. \A j \in DOMAIN rest : rest[j].id # tab
  BY <1>2
<1>6. e.id \notin IdsIn(rest)
  BY <1>4, <1>5 DEF IdsIn
<1>7. \A k \in DOMAIN s : s[k] \in Range(rest) \/ s[k] = e
  <2> SUFFICES ASSUME NEW k \in DOMAIN s PROVE s[k] \in Range(rest) \/ s[k] = e
    OBVIOUS
  <2>1. CASE k \in K
    BY <1>2, <2>1 DEF Range
  <2>2. CASE k \notin K
    <3>1. s[k].id = tab
      BY <2>2
    <3>2. PICK m \in DOMAIN s : e = s[m] /\ s[m].id = tab
      BY <1>3
    <3>3. QED
      BY <3>1, <3>2 DEF DistinctIds
  <2>3. QED
    BY <2>1, <2>2
<1>8. IsSeq(r) /\ DistinctIds(r) /\ Range(r) = Range(rest) \cup one
  <2>1. DistinctIds(r) /\ Range(r) = Range(rest) \cup one
    BY ONLY <1>2, <1>6, at \in 0 .. Len(rest), r = InsertAt(rest, at + 1, e), InsertedIds
  <2>2. IsSeq(r)
    BY ONLY <1>2, at \in 0 .. Len(rest), r = InsertAt(rest, at + 1, e), InsertAtIsSeq
  <2>3. QED
    BY <2>1, <2>2
<1>9. Range(rest) \cup one = Range(s)
  <2>1. \A x \in Range(s) : \E k \in DOMAIN s : x = s[k]
    BY DEF Range
  <2>2. \A x \in Range(s) : x \in Range(rest) \/ x = e
    BY <1>7, <2>1
  <2>3. QED
    BY <1>2, <1>4, <2>2
<1> HIDE DEF one
<1>10. Range(r) = Range(s)
  BY <1>8, <1>9
<1>11. IdsIn(r) = IdsIn(s)
  <2>1. IdsIn(r) \subseteq IdsIn(s)
    BY ONLY <1>10, IdsOfRange
  <2>2. IdsIn(s) \subseteq IdsIn(r)
    BY ONLY <1>10, IdsOfRange
  <2>3. QED
    BY <2>1, <2>2
<1>12. QED
  BY <1>8, <1>10, <1>11

LEMMA MovedSound ==
  ASSUME NEW n \in Nat, NEW h, Sound(h, n), NEW tab, NEW index, NEW out
  PROVE  Sound(Moved(h, tab, index), n) /\ Stays(h, Moved(h, tab, index), out)
<1> DEFINE K(s)     == {j \in DOMAIN s : s[j].id # tab}
           rest(s)  == Keep(s, K(s))
           at(s)    == IF index \in 0 .. Len(rest(s)) THEN index ELSE Len(rest(s))
           e(s)     == s[CHOOSE j \in DOMAIN s : s[j].id = tab]
           place(s) == InsertAt(rest(s), at(s) + 1, e(s))
           h2       == Moved(h, tab, index)
<1>1. /\ h2 = [i \in DOMAIN h |-> h2[i]]
      /\ \A i \in DOMAIN h : h2[i] = IF tab \in IdsIn(h[i].tabs)
                                     THEN [h[i] EXCEPT !.tabs = place(@)] ELSE h[i]
  BY DEF Moved
<1> HIDE DEF h2
<1>2. ASSUME NEW s, IsSeq(s), DistinctIds(s), tab \in IdsIn(s)
      PROVE  /\ IsSeq(place(s)) /\ DistinctIds(place(s)) /\ Range(place(s)) = Range(s)
             /\ IdsIn(place(s)) = IdsIn(s)
  <2> DEFINE k == K(s)
             r == rest(s)
             a == at(s)
             x == e(s)
             p == place(s)
  <2>1. k = {j \in DOMAIN s : s[j].id # tab} /\ r = Keep(s, k)
    OBVIOUS
  <2>2. x = s[CHOOSE j \in DOMAIN s : s[j].id = tab] /\ p = InsertAt(r, a + 1, x)
    OBVIOUS
  <2>3. a = IF index \in 0 .. Len(r) THEN index ELSE Len(r)
    OBVIOUS
  <2>4. k \in SUBSET DOMAIN s
    OBVIOUS
  <2> HIDE DEF k, r, a, x, p
  <2>5. IsSeq(r)
    BY <1>2, <2>1, <2>4, KeepIsSeq
  <2>6. Len(r) \in Nat
    BY <2>5 DEF IsSeq
  <2>7. a \in 0 .. Len(r)
    BY <2>3, <2>6
  <2>8. IsSeq(p) /\ DistinctIds(p) /\ Range(p) = Range(s) /\ IdsIn(p) = IdsIn(s)
    BY ONLY <1>2, <2>1, <2>2, <2>7, PlacedIds
  <2>9. QED
    BY <2>8 DEF p
<1> HIDE DEF place
<1>3. ASSUME NEW i \in DOMAIN h
      PROVE  /\ IsWorkspace(h2[i]) /\ h2[i].id = h[i].id /\ h[i].id \in 0 .. n - 1
             /\ DistinctIds(h2[i].tabs) /\ h2[i].active \in IdsIn(h2[i].tabs)
             /\ Range(h2[i].tabs) = Range(h[i].tabs)
  <2> DEFINE w   == h[i]
             row == place(w.tabs)
             u   == [w EXCEPT !.tabs = row]
  <2>1. /\ IsWorkspace(w) /\ IsSeq(w.tabs) /\ w.id \in 0 .. n - 1 /\ DistinctIds(w.tabs)
        /\ w.active \in IdsIn(w.tabs) /\ \A t \in Range(w.tabs) : IsTab(t)
    BY SoundWorkspace
  <2>2. h2[i] = IF tab \in IdsIn(w.tabs) THEN u ELSE w
    BY <1>1
  <2>3. h[i] = w
    OBVIOUS
  <2> HIDE DEF w
  <2>4. CASE tab \notin IdsIn(w.tabs)
    BY <2>1, <2>2, <2>3, <2>4
  <2>5. CASE tab \in IdsIn(w.tabs)
    <3>1. IsSeq(row) /\ DistinctIds(row) /\ Range(row) = Range(w.tabs)
          /\ IdsIn(row) = IdsIn(w.tabs)
      BY <1>2, <2>1, <2>5
    <3> HIDE DEF row
    <3>2. IsWorkspace(u) /\ u.tabs = row /\ u.id = w.id /\ u.active = w.active
      BY <2>1, <3>1, WorkspaceWithTabs
    <3> HIDE DEF u
    <3>3. QED
      BY <2>1, <2>2, <2>3, <2>5, <3>1, <3>2
  <2>6. QED
    BY <2>4, <2>5
<1>4. IsSession(h) /\ DistinctIds(h)
  BY DEF Sound, Numbered
<1>5. \A i \in DOMAIN h :
           /\ IsWorkspace(h2[i]) /\ h2[i].id = h[i].id /\ h[i].id \in 0 .. n - 1
           /\ DistinctIds(h2[i].tabs) /\ h2[i].active \in IdsIn(h2[i].tabs)
           /\ \A t \in Range(h2[i].tabs) : Shown(t, n)
           /\ \A t \in Range(h[i].tabs) : t.id \notin out =>
                \E s \in Range(h2[i].tabs) : s.id = t.id
                /\ PaneIds(t.layout) \subseteq PaneIds(s.layout)
  BY <1>3, SoundWorkspace
<1>6. Sound(h2, n) /\ Stays(h, h2, out)
  BY <1>1, <1>4, <1>5, ChangedSound
<1>7. QED
  BY <1>6 DEF h2

LEMMA SessionSound == Sound(Session, FirstNew)
<1>1. IsSeq(Session) /\ DistinctIds(Session) /\ FirstNew \in Nat
  BY SessionAssumption, IdAssumption DEF IsSeq
<1>2. ASSUME NEW w \in Range(Session), NEW t \in Range(w.tabs)
      PROVE  IsTab(t) /\ Shown(t, FirstNew)
  BY SessionAssumption, IdAssumption DEF IsTab, Shown, Old
<1>3. ASSUME NEW w \in Range(Session)
      PROVE  /\ IsWorkspace(w) /\ w.id \in 0 .. FirstNew - 1 /\ DistinctIds(w.tabs)
             /\ w.active \in IdsIn(w.tabs)
  <2>1. /\ w = Workspace(w.id, w.label, w.cwd, w.active, w.tabs)
           /\ w.tabs \in Seq(Range(w.tabs))
        /\ w.id \in Old /\ DistinctIds(w.tabs) /\ w.active \in IdsIn(w.tabs)
    BY SessionAssumption
  <2>2. QED
    BY <1>2, <2>1 DEF IsWorkspace, IsSeq, Old
<1>4. \A i \in DOMAIN Session : Session[i] \in Range(Session)
  BY DEF Range
<1>5. \A t \in TabsIn(Session) : Shown(t, FirstNew)
  BY <1>2, <1>4, TabsOfWorkspaces
<1>6. IsSession(Session)
  BY <1>1, <1>3 DEF IsSession
<1>7. QED
  BY <1>1, <1>3, <1>4, <1>5, <1>6 DEF Sound, Numbered, Seated, Shown

(***************************************************************************)
(* What stands where in a list.                                            *)
(***************************************************************************)
\* The k-th of the positions in K.
Pos(K, k) == CHOOSE i \in K : Rank([x \in K |-> x], i) = k - 1

\* Positions are numbers: those in K have a first, a second and so on, in ascending order.
LEMMA PosIs ==
  ASSUME NEW n \in Nat, NEW K \in SUBSET (1 .. n)
  PROVE  /\ IsFiniteSet(K) /\ Cardinality(K) \in 0 .. n
         /\ \A k \in 1 .. Cardinality(K) : Pos(K, k) \in K
         /\ \A k \in 1 .. Cardinality(K) : \A i \in K :
              Cardinality({x \in K : x < i}) = k - 1 => Pos(K, k) = i
         /\ \A j, k \in 1 .. Cardinality(K) : j < k => Pos(K, j) < Pos(K, k)
         /\ \A i \in K : \E k \in 1 .. Cardinality(K) : Pos(K, k) = i
<1> DEFINE key == [x \in K |-> x]
           N   == Cardinality(K)
<1>1. IsFiniteSet(K) /\ N \in 0 .. n
  <2>1. 1 \in Int /\ n \in Int
    OBVIOUS
  <2>2. IsFiniteSet(1 .. n) /\ Cardinality(1 .. n) = IF 1 > n THEN 0 ELSE n - 1 + 1
    BY ONLY <2>1, FS_Interval
  <2>3. Cardinality(1 .. n) = n
    BY <2>2
  <2>4. IsFiniteSet(K) /\ Cardinality(K) <= Cardinality(1 .. n)
    BY ONLY <2>2, K \in SUBSET (1 .. n), FS_Subset
  <2>5. QED
    BY <2>3, <2>4, FS_CardinalityType
<1>2. IsKey(key) /\ DOMAIN key = K
  BY <1>1 DEF IsKey
<1>3. ASSUME NEW i \in K
      PROVE  /\ Rank(key, i) = Cardinality({x \in K : x < i})
             /\ Rank(key, i) \in 0 .. N - 1
             /\ \A j \in K : i < j => Rank(key, i) < Rank(key, j)
  <2>1. {x \in DOMAIN key : key[x] < key[i]} = {x \in K : x < i}
    OBVIOUS
  <2>2. Rank(key, i) = Cardinality({x \in K : x < i})
    BY <2>1 DEF Rank
  <2>3. i \in DOMAIN key
    BY <1>2
  <2> HIDE DEF key
  <2>4. /\ Rank(key, i) \in 0 .. Cardinality(DOMAIN key) - 1
        /\ \A j \in DOMAIN key : key[i] < key[j] => Rank(key, i) < Rank(key, j)
    BY <1>2, <2>3, RankBounds
  <2>5. \A j \in K : key[j] = j
    BY DEF key
  <2>6. QED
    BY <2>2, <2>4, <2>5, <1>2
<1>4. \A k \in 1 .. N : \E i \in K : Rank(key, i) = k - 1
  BY <1>2, RankOnto
<1>5. \A k : Pos(K, k) = CHOOSE i \in K : Rank(key, i) = k - 1
  BY DEF Pos
<1> HIDE DEF key, N
<1>6. \A k \in 1 .. N : Pos(K, k) \in K /\ Rank(key, Pos(K, k)) = k - 1
  BY <1>4, <1>5
<1>0. N \in Nat /\ \A i \in K : i \in Int /\ Rank(key, i) \in Int
  <2>1. N \in Nat
    BY <1>1
  <2>2. \A i \in K : i \in Int
    OBVIOUS
  <2>3. \A i \in K : Rank(key, i) \in 0 .. N - 1
    BY <1>3
  <2>4. QED
    BY <2>1, <2>2, <2>3
<1>7. ASSUME NEW i \in K, NEW j \in K, Rank(key, i) = Rank(key, j) PROVE i = j
  <2>1. i < j \/ j < i \/ i = j
    BY <1>0
  <2>2. ~(Rank(key, i) < Rank(key, j)) /\ ~(Rank(key, j) < Rank(key, i))
    BY <1>0, <1>7
  <2>3. QED
    BY <1>3, <2>1, <2>2
<1>8. \A k \in 1 .. N : \A i \in K : Cardinality({x \in K : x < i}) = k - 1 => Pos(K, k) = i
  BY <1>3, <1>6, <1>7
<1>9. ASSUME NEW j \in 1 .. N, NEW k \in 1 .. N, j < k PROVE Pos(K, j) < Pos(K, k)
  <2>1. Pos(K, j) \in K /\ Pos(K, k) \in K /\ Pos(K, j) \in Int /\ Pos(K, k) \in Int
    BY <1>0, <1>6
  <2>2. Rank(key, Pos(K, j)) = j - 1 /\ Rank(key, Pos(K, k)) = k - 1
    BY <1>6
  <2>3. Pos(K, k) < Pos(K, j) => k - 1 < j - 1
    BY <1>3, <2>1, <2>2
  <2>4. Pos(K, k) = Pos(K, j) => k - 1 = j - 1
    BY <2>2
  <2>5. QED
    BY <1>9, <2>1, <2>3, <2>4
<1>10. ASSUME NEW i \in K PROVE \E k \in 1 .. N : Pos(K, k) = i
  <2>0. Rank(key, i) \in 0 .. N - 1 /\ N \in Nat
    BY <1>0, <1>3
  <2>1. Rank(key, i) + 1 \in 1 .. N /\ (Rank(key, i) + 1) - 1 = Rank(key, i)
    BY <2>0
  <2>2. Pos(K, Rank(key, i) + 1) = i
    BY <1>6, <1>7, <2>1
  <2>3. QED
    BY <2>1, <2>2
<1>11. QED
  BY <1>1, <1>6, <1>8, <1>9, <1>10 DEF N

\* Keep(s, K) lists what s has at those positions.
LEMMA KeepAt ==
  ASSUME NEW s, IsSeq(s), NEW K \in SUBSET DOMAIN s
  PROVE  /\ K \in SUBSET (1 .. Len(s)) /\ Len(s) \in Nat
         /\ IsSeq(Keep(s, K)) /\ Len(Keep(s, K)) = Cardinality(K)
         /\ DOMAIN Keep(s, K) = 1 .. Cardinality(K)
         /\ \A k \in 1 .. Cardinality(K) : Keep(s, K)[k] = s[Pos(K, k)]
<1>1. K \in SUBSET (1 .. Len(s)) /\ Len(s) \in Nat
  BY DEF IsSeq
<1>2. IsSeq(Keep(s, K)) /\ Cardinality(K) \in Nat
  BY <1>1, KeepIsSeq, PosIs
<1>3. Keep(s, K) = [k \in 1 .. Cardinality(K) |-> s[Pos(K, k)]]
  BY DEF Keep, Pos
<1>4. Len(Keep(s, K)) = Cardinality(K)
  BY <1>2, <1>3 DEF IsSeq
<1>5. QED
  BY <1>1, <1>2, <1>3, <1>4

LEMMA KeepAll ==
  ASSUME NEW s, IsSeq(s)
  PROVE  Keep(s, DOMAIN s) = s
<1> DEFINE n == Len(s)
<1>1. n \in Nat /\ DOMAIN s = 1 .. n /\ s \in Seq(Range(s))
  BY DEF IsSeq
<1>2. Cardinality(1 .. n) = n /\ \A i \in 1 .. n : Cardinality({x \in 1 .. n : x < i}) = i - 1
  <2> HIDE DEF n
  <2>1. ASSUME NEW i \in Nat PROVE Cardinality(1 .. i) = i
    BY FS_Interval
  <2>2. \A i \in 1 .. n : {x \in 1 .. n : x < i} = 1 .. i - 1 /\ i - 1 \in Nat
    BY <1>1
  <2>3. QED
    BY <1>1, <2>1, <2>2
<1> HIDE DEF n
<1>3. \A k \in 1 .. n : Pos(1 .. n, k) = k
  BY <1>1, <1>2, PosIs
<1>4. /\ IsSeq(Keep(s, DOMAIN s)) /\ DOMAIN Keep(s, DOMAIN s) = 1 .. n
      /\ \A k \in 1 .. n : Keep(s, DOMAIN s)[k] = s[k]
  BY <1>1, <1>2, <1>3, KeepAt
<1>5. QED
  BY <1>1, <1>4 DEF IsSeq

LEMMA KeepNone == ASSUME NEW s PROVE Keep(s, {}) = << >>
BY FS_EmptySet DEF Keep

\* r is s without its j-th: those behind it have moved up.
IsButOne(r, s, j) ==
  /\ IsSeq(r) /\ Len(r) = Len(s) - 1 /\ Len(s) \in Nat /\ j \in 1 .. Len(s)
     /\ DOMAIN s = 1 .. Len(s)
  /\ DOMAIN r = 1 .. Len(s) - 1
  /\ \A k \in 1 .. j - 1 : r[k] = s[k]
  /\ \A k \in j .. Len(s) - 1 : r[k] = s[k + 1]

LEMMA KeepBut ==
  ASSUME NEW s, IsSeq(s), NEW j \in DOMAIN s
  PROVE  IsButOne(Keep(s, DOMAIN s \ {j}), s, j)
<1> SUFFICES ASSUME NEW K, K = DOMAIN s \ {j} PROVE IsButOne(Keep(s, K), s, j)
  OBVIOUS
<1> DEFINE n == Len(s)
<1>1. n \in Nat /\ DOMAIN s = 1 .. n /\ K \in SUBSET (1 .. n) /\ j \in 1 .. n
      /\ K = (1 .. n) \ {j}
  BY DEF IsSeq
<1>2. \A i \in Nat : IsFiniteSet(1 .. i) /\ Cardinality(1 .. i) = i
  BY FS_Interval
<1> HIDE DEF n
<1>3. Cardinality(K) = n - 1
  BY <1>1, <1>2, FS_RemoveElement
<1>4. ASSUME NEW k \in 1 .. j - 1 PROVE Pos(K, k) = k
  <2>1. {x \in K : x < k} = 1 .. k - 1 /\ k - 1 \in Nat /\ k \in K /\ k \in 1 .. n - 1
    BY <1>1
  <2>2. Cardinality({x \in K : x < k}) = k - 1
    BY <1>2, <2>1
  <2>3. k \in 1 .. Cardinality(K) /\ k \in K
    BY <1>3, <2>1
  <2>5. \A x \in 1 .. Cardinality(K) : \A i \in K :
          Cardinality({y \in K : y < i}) = x - 1 => Pos(K, x) = i
    BY <1>1, PosIs
  <2>4. QED
    BY <1>1, <2>2, <2>3, <2>5
<1>5. ASSUME NEW k \in j .. n - 1 PROVE Pos(K, k) = k + 1
  <2>1. {x \in K : x < k + 1} = (1 .. k) \ {j} /\ k \in Nat /\ k + 1 \in K /\ k \in 1 .. n - 1
        /\ j \in 1 .. k
    BY <1>1
  <2>2. Cardinality({x \in K : x < k + 1}) = k - 1
    BY <1>2, <2>1, FS_RemoveElement
  <2>3. k \in 1 .. Cardinality(K) /\ (k + 1) \in K
    BY <1>3, <2>1
  <2>4. QED
    <3>1. \A x \in 1 .. Cardinality(K) : \A i \in K :
            Cardinality({y \in K : y < i}) = x - 1 => Pos(K, x) = i
      BY <1>1, PosIs
    <3>2. QED
      BY <1>1, <2>2, <2>3, <3>1
<1>6. /\ IsSeq(Keep(s, K)) /\ Len(Keep(s, K)) = n - 1 /\ DOMAIN Keep(s, K) = 1 .. n - 1
      /\ \A k \in 1 .. n - 1 : Keep(s, K)[k] = s[Pos(K, k)]
  <2>1. K \in SUBSET DOMAIN s
    BY <1>1
  <2>2. /\ IsSeq(Keep(s, K)) /\ Len(Keep(s, K)) = Cardinality(K)
        /\ DOMAIN Keep(s, K) = 1 .. Cardinality(K)
        /\ \A k \in 1 .. Cardinality(K) : Keep(s, K)[k] = s[Pos(K, k)]
    BY ONLY <2>1, IsSeq(s), KeepAt
  <2>3. QED
    BY ONLY <1>3, <2>2
<1>7. \A k \in 1 .. j - 1 : k \in 1 .. n - 1
  BY <1>1
<1>8. \A k \in j .. n - 1 : k \in 1 .. n - 1
  BY <1>1
<1>9. /\ \A k \in 1 .. j - 1 : Keep(s, K)[k] = s[k]
      /\ \A k \in j .. n - 1 : Keep(s, K)[k] = s[k + 1]
  BY <1>4, <1>5, <1>6, <1>7, <1>8
<1>10. IsButOne(Keep(s, K), s, j)
  BY <1>1, <1>6, <1>9 DEF n, IsButOne
<1>11. QED
  BY <1>10

(***************************************************************************)
(* Lists of calls.                                                         *)
(***************************************************************************)
LEMMA SameSeq ==
  ASSUME NEW S, NEW r \in Seq(S), NEW s \in Seq(S), Len(r) = Len(s),
         \A k \in 1 .. Len(r) : r[k] = s[k]
  PROVE  r = s
OBVIOUS

\* What is first in a, then the rest of it before b.
LEMMA FirstOfConcat ==
  ASSUME NEW a, IsSeq(a), NEW b, IsSeq(b)
  PROVE  /\ IsSeq(a \o b) /\ << >> \o b = b /\ a \o << >> = a
         /\ a # << >> => a \o b # << >> /\ Head(a \o b) = a[1] /\ Head(a) = a[1]
                         /\ Tail(a \o b) = Tail(a) \o b
<1> DEFINE S == Range(a) \cup Range(b)
<1>1. a \in Seq(S) /\ b \in Seq(S)
  BY SeqMonotonic DEF IsSeq
<1>2. IsSeq(a \o b)
  BY ConcatIsSeq
<1> HIDE DEF S
<1>3. << >> \o b = b /\ a \o << >> = a
  BY <1>1
<1>4. ASSUME a # << >>
      PROVE  /\ a \o b # << >> /\ Head(a \o b) = a[1] /\ Head(a) = a[1]
             /\ Tail(a \o b) = Tail(a) \o b
  <2>1. Len(a) \in Nat /\ Len(a) # 0
    BY <1>1, <1>4
  <2>2. /\ a \o b \in Seq(S) /\ Len(a \o b) = Len(a) + Len(b) /\ Len(b) \in Nat
        /\ \A k \in 1 .. Len(a) : (a \o b)[k] = a[k]
        /\ \A k \in 1 .. Len(b) : (a \o b)[Len(a) + k] = b[k]
    BY <1>1, ConcatAt
  <2> DEFINE all == a \o b
             ta  == Tail(a)
             tb  == Tail(all)
  <2>3. /\ ta \in Seq(S) /\ Len(ta) = Len(a) - 1
        /\ \A k \in 1 .. Len(a) - 1 : ta[k] = a[k + 1]
    BY <1>1, <2>1
  <2>4. all # << >>
    BY <2>1, <2>2
  <2>5. Head(all) = a[1] /\ Head(a) = a[1]
    BY <2>1, <2>2, <2>4, <1>1
  <2>6. /\ tb \in Seq(S) /\ Len(tb) = Len(a) + Len(b) - 1
        /\ \A k \in 1 .. Len(a) + Len(b) - 1 : tb[k] = all[k + 1]
    <3>1. all \in Seq(S) /\ Len(all) = Len(a) + Len(b)
      BY <2>2
    <3> HIDE DEF all
    <3>2. QED
      BY <2>1, <2>2, <2>4, <3>1
  <2> HIDE DEF ta, tb
  <2>7. /\ ta \o b \in Seq(S) /\ Len(ta \o b) = Len(a) - 1 + Len(b)
        /\ \A k \in 1 .. Len(a) - 1 : (ta \o b)[k] = ta[k]
        /\ \A k \in 1 .. Len(b) : (ta \o b)[Len(a) - 1 + k] = b[k]
    <3>1. ta \in Seq(S) /\ b \in Seq(S)
      BY <1>1, <2>3
    <3>2. /\ ta \o b \in Seq(S) /\ Len(ta \o b) = Len(ta) + Len(b)
          /\ \A k \in 1 .. Len(ta) : (ta \o b)[k] = ta[k]
          /\ \A k \in 1 .. Len(b) : (ta \o b)[Len(ta) + k] = b[k]
      BY ONLY <3>1, ConcatAt
    <3>3. QED
      BY ONLY <2>3, <3>2
  <2> DEFINE one == ta \o b
  <2> HIDE DEF one
  <2>8. ASSUME NEW k \in 1 .. Len(a) + Len(b) - 1 PROVE tb[k] = one[k]
    <3>1. CASE k \in 1 .. Len(a) - 1
      <4>1. k + 1 \in 1 .. Len(a)
        BY <2>1, <3>1
      <4>2. QED
        BY <2>2, <2>3, <2>6, <2>7, <3>1, <4>1 DEF one, all
    <3>2. CASE k \notin 1 .. Len(a) - 1
      <4>1. /\ k - (Len(a) - 1) \in 1 .. Len(b) /\ Len(a) + (k - (Len(a) - 1)) = k + 1
            /\ Len(a) - 1 + (k - (Len(a) - 1)) = k
        BY <2>1, <2>2, <3>2
      <4>2. QED
        BY <2>2, <2>6, <2>7, <4>1 DEF one, all
    <3>3. QED
      BY <3>1, <3>2
  <2>9. tb = one
    <3>1. one \in Seq(S) /\ Len(one) = Len(tb)
      BY <2>1, <2>2, <2>6, <2>7 DEF one
    <3>2. \A k \in 1 .. Len(tb) : tb[k] = one[k]
      BY <2>6, <2>8
    <3>3. QED
      BY <2>6, <3>1, <3>2, SameSeq
  <2>10. QED
    BY <2>4, <2>5, <2>9 DEF ta, tb, one, all
<1>5. QED
  BY <1>2, <1>3, <1>4

LEMMA ConcatTwice ==
  ASSUME NEW a, IsSeq(a), NEW b, IsSeq(b), NEW c, IsSeq(c)
  PROVE  (a \o b) \o c = a \o (b \o c)
<1> DEFINE S == Range(a) \cup Range(b) \cup Range(c)
<1>1. a \in Seq(S) /\ b \in Seq(S) /\ c \in Seq(S)
  BY SeqMonotonic DEF IsSeq
<1> HIDE DEF S
<1>2. QED
  BY <1>1

\* Lists given by what stands at each position.
LEMMA ListIsSeq ==
  ASSUME NEW n \in Nat, NEW f, f = [k \in 1 .. n |-> f[k]]
  PROVE  /\ IsSeq(f) /\ Len(f) = n
         /\ n # 0 => f # << >> /\ Tail(f) = [k \in 1 .. n - 1 |-> f[k + 1]]
         /\ n = 0 => f = << >>
<1> DEFINE S == Range(f)
<1>1. \A k \in 1 .. n : f[k] \in S
  BY DEF Range
<1>2. f \in [1 .. n -> S]
  <2> HIDE DEF S
  <2>1. QED
    BY <1>1
<1> HIDE DEF S
<1>3. f \in Seq(S) /\ Len(f) = n
  BY <1>2
<1>4. n # 0 => f # << >>
  BY <1>3
<1>5. n # 0 => Tail(f) = [k \in 1 .. n - 1 |-> f[k + 1]]
  BY <1>3
<1>6. n = 0 => f = << >>
  BY <1>3
<1>7. IsSeq(f)
  BY <1>3 DEF S, IsSeq
<1>8. QED
  BY <1>3, <1>4, <1>5, <1>6, <1>7

(***************************************************************************)
(* What each request leaves of the session, place by place.                *)
(***************************************************************************)
TabAt(h, i, j) == h[i].tabs[j]
IsPlace(h, i, j) == i \in DOMAIN h /\ j \in DOMAIN h[i].tabs

\* That id, or that pane, is in the j-th tab of the i-th workspace and nowhere else.
IdAt(h, i, j, id) ==
  /\ IsPlace(h, i, j) /\ TabAt(h, i, j).id = id
  /\ \A a \in DOMAIN h : \A b \in DOMAIN h[a].tabs : a # i \/ b # j => TabAt(h, a, b).id # id
PaneAt(h, i, j, pane) ==
  /\ IsPlace(h, i, j) /\ pane \in PaneIds(TabAt(h, i, j).layout)
  /\ \A a \in DOMAIN h : \A b \in DOMAIN h[a].tabs :
       a # i \/ b # j => pane \notin PaneIds(TabAt(h, a, b).layout)

\* The same workspace, whatever its tabs and whichever is active.
Alike(u, w) == u.id = w.id /\ u.label = w.label /\ u.cwd = w.cwd

LEMMA TabsReplaced ==
  ASSUME NEW w, IsWorkspace(w), NEW s, NEW u, u = [w EXCEPT !.tabs = s]
  PROVE  Alike(u, w) /\ u.active = w.active /\ u.tabs = s /\ (s = w.tabs => u = w)
<1>1. w = [id |-> w.id, label |-> w.label, cwd |-> w.cwd, active |-> w.active, tabs |-> w.tabs]
  BY DEF IsWorkspace, Workspace
<1>2. u = [id |-> w.id, label |-> w.label, cwd |-> w.cwd, active |-> w.active, tabs |-> s]
  BY <1>1
<1>3. QED
  BY <1>1, <1>2 DEF Alike

LEMMA ActiveReplaced ==
  ASSUME NEW w, IsWorkspace(w), NEW x, NEW u, u = [w EXCEPT !.active = x]
  PROVE  Alike(u, w) /\ u.active = x /\ u.tabs = w.tabs
<1>1. w = [id |-> w.id, label |-> w.label, cwd |-> w.cwd, active |-> w.active, tabs |-> w.tabs]
  BY DEF IsWorkspace, Workspace
<1>2. u = [id |-> w.id, label |-> w.label, cwd |-> w.cwd, active |-> x, tabs |-> w.tabs]
  BY <1>1
<1>3. QED
  BY <1>2 DEF Alike

LEMMA EachTabIs ==
  ASSUME NEW h, IsSession(h), NEW f
  PROVE  /\ DOMAIN EachTab(h, f) = DOMAIN h
         /\ \A a \in DOMAIN h :
              /\ Alike(EachTab(h, f)[a], h[a]) /\ EachTab(h, f)[a].active = h[a].active
              /\ EachTab(h, f)[a].tabs = [b \in DOMAIN h[a].tabs |-> f[h[a].tabs[b]]]
              /\ (\A b \in DOMAIN h[a].tabs : f[h[a].tabs[b]] = h[a].tabs[b])
                 => EachTab(h, f)[a] = h[a]
<1> DEFINE r == EachTab(h, f)
           row(a) == [b \in DOMAIN h[a].tabs |-> f[h[a].tabs[b]]]
<1>1. DOMAIN r = DOMAIN h /\ \A a \in DOMAIN h : r[a] = [h[a] EXCEPT !.tabs = row(a)]
  BY DEF EachTab
<1> HIDE DEF r
<1>2. ASSUME NEW a \in DOMAIN h
      PROVE  /\ Alike(r[a], h[a]) /\ r[a].active = h[a].active /\ r[a].tabs = row(a)
             /\ (\A b \in DOMAIN h[a].tabs : f[h[a].tabs[b]] = h[a].tabs[b]) => r[a] = h[a]
  <2>1. IsWorkspace(h[a]) /\ IsSeq(h[a].tabs)
    BY MembersOfSession DEF IsWorkspace
  <2> DEFINE s == row(a)
  <2>2. r[a] = [h[a] EXCEPT !.tabs = s]
    BY <1>1
  <2>3. (\A b \in DOMAIN h[a].tabs : f[h[a].tabs[b]] = h[a].tabs[b]) => s = h[a].tabs
    BY <2>1 DEF IsSeq
  <2> HIDE DEF s
  <2>4. Alike(r[a], h[a]) /\ r[a].active = h[a].active /\ r[a].tabs = s
        /\ (s = h[a].tabs => r[a] = h[a])
    BY <2>1, <2>2, TabsReplaced
  <2>5. QED
    BY <2>3, <2>4 DEF s
<1>3. QED
  BY <1>1, <1>2 DEF r

\* r differs from h in the j-th tab of the i-th workspace at most, and that is the
\* same tab.
OnlyTab(r, h, i, j) ==
  /\ DOMAIN r = DOMAIN h /\ \A a \in DOMAIN h : a # i => r[a] = h[a]
  /\ Alike(r[i], h[i]) /\ r[i].active = h[i].active
  /\ DOMAIN r[i].tabs = DOMAIN h[i].tabs
  /\ \A b \in DOMAIN h[i].tabs : b # j => r[i].tabs[b] = h[i].tabs[b]
  /\ r[i].tabs[j].id = h[i].tabs[j].id

\* The tab becomes u, and that is all.
TabBecomes(r, h, i, j, u) == OnlyTab(r, h, i, j) /\ TabAt(r, i, j) = u

LEMMA EachTabOne ==
  ASSUME NEW h, IsSession(h), NEW i \in DOMAIN h, NEW j \in DOMAIN h[i].tabs, NEW f,
         \A a \in DOMAIN h : \A b \in DOMAIN h[a].tabs :
           a # i \/ b # j => f[h[a].tabs[b]] = h[a].tabs[b],
         f[h[i].tabs[j]].id = h[i].tabs[j].id
  PROVE  OnlyTab(EachTab(h, f), h, i, j) /\ EachTab(h, f)[i].tabs[j] = f[h[i].tabs[j]]
<1> DEFINE r == EachTab(h, f)
<1>1. /\ DOMAIN r = DOMAIN h
      /\ \A a \in DOMAIN h :
              /\ Alike(r[a], h[a]) /\ r[a].active = h[a].active
              /\ r[a].tabs = [b \in DOMAIN h[a].tabs |-> f[h[a].tabs[b]]]
              /\ (\A b \in DOMAIN h[a].tabs : f[h[a].tabs[b]] = h[a].tabs[b]) => r[a] = h[a]
  BY EachTabIs
<1> HIDE DEF r
<1>2. \A a \in DOMAIN h : a # i => r[a] = h[a]
  BY <1>1
<1>3. /\ Alike(r[i], h[i]) /\ r[i].active = h[i].active
      /\ r[i].tabs = [b \in DOMAIN h[i].tabs |-> f[h[i].tabs[b]]]
  BY <1>1
<1>5. /\ DOMAIN r[i].tabs = DOMAIN h[i].tabs /\ r[i].tabs[j] = f[h[i].tabs[j]]
      /\ \A b \in DOMAIN h[i].tabs : b # j => r[i].tabs[b] = h[i].tabs[b]
  BY <1>3
<1>6. DOMAIN r = DOMAIN h
  BY <1>1
<1>7. r[i].tabs[j].id = h[i].tabs[j].id
  BY <1>5
<1>8. OnlyTab(r, h, i, j)
  BY ONLY <1>2, <1>3, <1>5, <1>6, <1>7 DEF OnlyTab
<1>4. QED
  BY <1>5, <1>8 DEF r

\* A tab whose focused pane is gone is focused on its first.
Refocused(t) ==
  IF t.focused \in PaneIds(t.layout) THEN t ELSE [t EXCEPT !.focused = leaf_pane_ids(t.layout)[1]]
FullTabs(w) == {j \in DOMAIN w.tabs : w.tabs[j].layout # << >>}

\* If every workspace has a tab with panes, tidying up drops the tabs that have none.
LEMMA TidyIs ==
  ASSUME NEW h, IsSession(h), \A a \in DOMAIN h : FullTabs(h[a]) # {}
  PROVE  /\ DOMAIN Tidy(h) = DOMAIN h
         /\ \A a \in DOMAIN h :
              /\ Alike(Tidy(h)[a], h[a])
              /\ DOMAIN Tidy(h)[a].tabs = DOMAIN Keep(h[a].tabs, FullTabs(h[a]))
              /\ \A b \in DOMAIN Keep(h[a].tabs, FullTabs(h[a])) :
                   Tidy(h)[a].tabs[b] = Refocused(Keep(h[a].tabs, FullTabs(h[a]))[b])
              /\ h[a].active \in IdsIn(Keep(h[a].tabs, FullTabs(h[a])))
                 => Tidy(h)[a].active = h[a].active
<1> DEFINE Full(w)  == {j \in DOMAIN w.tabs : w.tabs[j].layout # << >>}
           Kept(w)  == [w EXCEPT !.tabs = Keep(@, Full(w))]
           Seen(w)  == IF w.active \in IdsIn(w.tabs) THEN w ELSE [w EXCEPT !.active = w.tabs[1].id]
           open     == Keep(h, {i \in DOMAIN h : Full(h[i]) # {}})
           seen     == [i \in DOMAIN open |-> Seen(Kept(open[i]))]
           f        == [t \in TabsIn(seen) |->
                          IF t.focused \in PaneIds(t.layout) THEN t
                          ELSE [t EXCEPT !.focused = leaf_pane_ids(t.layout)[1]]]
<1>1. IsSeq(h) /\ \A a \in DOMAIN h : IsWorkspace(h[a]) /\ IsSeq(h[a].tabs)
  BY MembersOfSession DEF IsSession, IsWorkspace
<1>2. Tidy(h) = EachTab(seen, f)
  BY DEF Tidy
<1>11. open = h
  <2>1. {i \in DOMAIN h : Full(h[i]) # {}} = DOMAIN h
    BY DEF FullTabs
  <2>2. QED
    BY <1>1, <2>1, KeepAll
<1>12. \A w : Full(w) = FullTabs(w)
  BY DEF FullTabs
<1>4. DOMAIN seen = DOMAIN h /\ \A t \in TabsIn(seen) : f[t] = Refocused(t)
  BY <1>11 DEF Refocused
<1>13. \A a \in DOMAIN h : seen[a] = Seen(Kept(h[a]))
  <2> HIDE DEF Seen, Kept, open
  <2>1. \A a \in DOMAIN open : seen[a] = Seen(Kept(open[a]))
    OBVIOUS
  <2>2. QED
    BY <1>11, <2>1
<1>14. seen = [i \in DOMAIN open |-> seen[i]]
  <2> HIDE DEF Seen, Kept, open
  <2>1. QED
    OBVIOUS
<1> HIDE DEF Full, open, seen, f
<1>3. ASSUME NEW a \in DOMAIN h
      PROVE  /\ IsWorkspace(seen[a]) /\ Alike(seen[a], h[a]) /\ IsSeq(seen[a].tabs)
             /\ seen[a].tabs = Keep(h[a].tabs, FullTabs(h[a]))
             /\ h[a].active \in IdsIn(Keep(h[a].tabs, FullTabs(h[a])))
                => seen[a].active = h[a].active
  <2> DEFINE w    == h[a]
             K    == FullTabs(w)
             tabs == Keep(w.tabs, K)
             kept == Kept(w)
             u    == [kept EXCEPT !.active = kept.tabs[1].id]
  <2>1. kept = [w EXCEPT !.tabs = tabs]
        /\ seen[a] = IF kept.active \in IdsIn(kept.tabs) THEN kept ELSE u
    BY <1>12, <1>13
  <2>2. K \in SUBSET DOMAIN w.tabs
    BY DEF FullTabs
  <2>3. IsWorkspace(w) /\ IsSeq(w.tabs) /\ \A t \in Range(w.tabs) : IsTab(t)
    BY <1>1 DEF IsWorkspace
  <2> HIDE DEF Kept, Seen, K, kept, w
  <2>4. IsSeq(tabs) /\ Range(tabs) \subseteq Range(w.tabs)
    BY <2>2, <2>3, KeepIsSeq
  <2> HIDE DEF tabs
  <2>5. Alike(kept, w) /\ kept.active = w.active /\ kept.tabs = tabs
    BY <2>1, <2>3, TabsReplaced
  <2>6. IsWorkspace(kept)
    <3>1. \A t \in Range(tabs) : IsTab(t)
      BY <2>3, <2>4
    <3> DEFINE k == [w EXCEPT !.tabs = tabs]
    <3>2. IsWorkspace(k)
      BY ONLY <2>3, <2>4, <3>1, WorkspaceWithTabs
    <3>3. QED
      BY <2>1, <3>2
  <2>7. Alike(u, kept) /\ u.tabs = kept.tabs
    BY <2>6, ActiveReplaced
  <2>8. IsWorkspace(u)
    <3> DEFINE x == kept.tabs[1].id
    <3>1. u = [kept EXCEPT !.active = x]
      OBVIOUS
    <3> HIDE DEF x, u
    <3>2. QED
      BY <2>6, <3>1, WorkspaceWithActive
  <2>9. CASE kept.active \in IdsIn(kept.tabs)
    BY <2>1, <2>4, <2>5, <2>6, <2>9 DEF w, K, tabs
  <2>10. CASE kept.active \notin IdsIn(kept.tabs)
    <3>1. seen[a] = u /\ Alike(u, w)
      BY <2>1, <2>5, <2>7, <2>10 DEF Alike
    <3> HIDE DEF u
    <3>2. QED
      BY <2>4, <2>5, <2>7, <2>8, <2>10, <3>1 DEF w, K, tabs
  <2>11. QED
    BY <2>9, <2>10
<1>5. IsSession(seen)
  <2>1. IsSeq(seen)
    <3>1. seen = [i \in DOMAIN h |-> seen[i]]
      BY <1>11, <1>14
    <3>2. QED
      BY <1>1, <3>1, MapIsSeq
  <2>2. \A w \in Range(seen) : IsWorkspace(w)
    BY <1>3, <1>4 DEF Range
  <2>3. QED
    BY <2>1, <2>2 DEF IsSession
<1>6. \A a \in DOMAIN seen : \A b \in DOMAIN seen[a].tabs : seen[a].tabs[b] \in TabsIn(seen)
  BY <1>5, MembersOfSession
<1>7. /\ DOMAIN EachTab(seen, f) = DOMAIN seen
      /\ \A a \in DOMAIN seen :
              /\ Alike(EachTab(seen, f)[a], seen[a])
                 /\ EachTab(seen, f)[a].active = seen[a].active
              /\ EachTab(seen, f)[a].tabs = [b \in DOMAIN seen[a].tabs |-> f[seen[a].tabs[b]]]
  BY <1>5, EachTabIs
<1> DEFINE r == Tidy(h)
<1> HIDE DEF r
<1>8. /\ DOMAIN r = DOMAIN h
      /\ \A a \in DOMAIN h :
              /\ Alike(r[a], seen[a]) /\ r[a].active = seen[a].active
              /\ r[a].tabs = [b \in DOMAIN seen[a].tabs |-> Refocused(seen[a].tabs[b])]
  BY <1>2, <1>4, <1>6, <1>7 DEF r
<1>9. ASSUME NEW a \in DOMAIN h
      PROVE  /\ Alike(r[a], h[a])
             /\ DOMAIN r[a].tabs = DOMAIN Keep(h[a].tabs, FullTabs(h[a]))
             /\ \A b \in DOMAIN Keep(h[a].tabs, FullTabs(h[a])) :
                   r[a].tabs[b] = Refocused(Keep(h[a].tabs, FullTabs(h[a]))[b])
             /\ h[a].active \in IdsIn(Keep(h[a].tabs, FullTabs(h[a])))
                => r[a].active = h[a].active
  <2>1. /\ Alike(seen[a], h[a]) /\ seen[a].tabs = Keep(h[a].tabs, FullTabs(h[a]))
        /\ h[a].active \in IdsIn(Keep(h[a].tabs, FullTabs(h[a])))
           => seen[a].active = h[a].active
    BY <1>3
  <2>2. /\ Alike(r[a], seen[a]) /\ r[a].active = seen[a].active
        /\ r[a].tabs = [b \in DOMAIN seen[a].tabs |-> Refocused(seen[a].tabs[b])]
    BY <1>8
  <2>3. Alike(r[a], h[a])
    BY <2>1, <2>2 DEF Alike
  <2> DEFINE tabs == Keep(h[a].tabs, FullTabs(h[a]))
  <2> HIDE DEF tabs
  <2>4. r[a].tabs = [b \in DOMAIN tabs |-> Refocused(tabs[b])]
    BY <2>1, <2>2 DEF tabs
  <2>5. DOMAIN r[a].tabs = DOMAIN tabs
        /\ \A b \in DOMAIN tabs : r[a].tabs[b] = Refocused(tabs[b])
    BY <2>4
  <2>6. QED
    BY <2>1, <2>2, <2>3, <2>5 DEF tabs
<1>10. QED
  BY <1>8, <1>9 DEF r

LEMMA SameWorkspace ==
  ASSUME NEW u, IsWorkspace(u), NEW w, IsWorkspace(w), Alike(u, w), u.active = w.active,
         DOMAIN u.tabs = DOMAIN w.tabs, \A b \in DOMAIN w.tabs : u.tabs[b] = w.tabs[b]
  PROVE  u = w
<1>1. IsSeq(u.tabs) /\ IsSeq(w.tabs)
  BY DEF IsWorkspace
<1>2. u.tabs = w.tabs
  BY <1>1 DEF IsSeq
<1>3. QED
  BY <1>2 DEF IsWorkspace, Workspace, Alike

LEMMA SameSession ==
  ASSUME NEW r, IsSession(r), NEW h, IsSession(h), DOMAIN r = DOMAIN h,
         \A a \in DOMAIN h : r[a] = h[a]
  PROVE  r = h
<1>1. IsSeq(r) /\ IsSeq(h)
  BY DEF IsSession
<1>2. QED
  BY <1>1 DEF IsSeq

\* Tidying up leaves alone what needs none.
LEMMA TidyKeeps ==
  ASSUME NEW h, IsSession(h), \A a \in DOMAIN h : FullTabs(h[a]) # {}, NEW i \in DOMAIN h,
         \A b \in DOMAIN h[i].tabs :
           h[i].tabs[b].layout # << >> /\ h[i].tabs[b].focused \in PaneIds(h[i].tabs[b].layout),
         h[i].active \in IdsIn(h[i].tabs)
  PROVE  Tidy(h)[i] = h[i]
<1> DEFINE r    == Tidy(h)
           tabs == Keep(h[i].tabs, FullTabs(h[i]))
<1>1. IsWorkspace(h[i]) /\ IsSeq(h[i].tabs)
  BY MembersOfSession DEF IsWorkspace
<1>2. tabs = h[i].tabs
  <2>1. FullTabs(h[i]) = DOMAIN h[i].tabs
    BY DEF FullTabs
  <2>2. QED
    BY <1>1, <2>1, KeepAll
<1>3. /\ DOMAIN r = DOMAIN h
      /\ Alike(r[i], h[i]) /\ DOMAIN r[i].tabs = DOMAIN tabs
      /\ \A b \in DOMAIN tabs : r[i].tabs[b] = Refocused(tabs[b])
      /\ h[i].active \in IdsIn(tabs) => r[i].active = h[i].active
  BY TidyIs
<1>4. IsWorkspace(r[i])
  <2>1. IsSession(r)
    BY TidyWithin DEF Within
  <2> HIDE DEF r
  <2>2. QED
    BY <1>3, <2>1, MembersOfSession
<1> HIDE DEF r, tabs
<1>5. \A b \in DOMAIN tabs : Refocused(tabs[b]) = tabs[b]
  BY <1>2 DEF Refocused
<1>6. /\ Alike(r[i], h[i]) /\ DOMAIN r[i].tabs = DOMAIN h[i].tabs /\ r[i].active = h[i].active
      /\ \A b \in DOMAIN h[i].tabs : r[i].tabs[b] = h[i].tabs[b]
  BY <1>2, <1>3, <1>5
<1>7. r[i] = h[i]
  BY ONLY <1>1, <1>4, <1>6, SameWorkspace
<1>8. QED
  BY <1>7 DEF r

\* In a sound session every tab has panes, the focused one among them, and every
\* workspace has a tab.
LEMMA SoundTabs ==
  ASSUME NEW n, NEW h, Sound(h, n), NEW a \in DOMAIN h
  PROVE  /\ h[a].active \in IdsIn(h[a].tabs) /\ FullTabs(h[a]) # {}
         /\ IsWorkspace(h[a]) /\ IsSeq(h[a].tabs) /\ DistinctIds(h[a].tabs)
         /\ \A b \in DOMAIN h[a].tabs :
              /\ h[a].tabs[b] \in TabsIn(h) /\ IsTab(h[a].tabs[b])
                 /\ h[a].tabs[b].id \in 0 .. n - 1
              /\ h[a].tabs[b].layout # << >> /\ Leaves(h[a].tabs[b].layout) # {}
              /\ PaneIds(h[a].tabs[b].layout) \subseteq 0 .. n - 1
              /\ h[a].tabs[b].focused \in PaneIds(h[a].tabs[b].layout)
<1>1. IsSession(h)
  BY DEF Sound, Numbered
<1>2. \A b \in DOMAIN h[a].tabs : h[a].tabs[b] \in TabsIn(h)
  BY <1>1, MembersOfSession
<1>3. /\ h[a].active \in IdsIn(h[a].tabs) /\ IsWorkspace(h[a]) /\ IsSeq(h[a].tabs)
      /\ DistinctIds(h[a].tabs)
  BY SoundWorkspace
<1>4. \A b \in DOMAIN h[a].tabs :
              /\ h[a].tabs[b] \in TabsIn(h) /\ IsTab(h[a].tabs[b])
                 /\ h[a].tabs[b].id \in 0 .. n - 1
              /\ h[a].tabs[b].layout # << >> /\ Leaves(h[a].tabs[b].layout) # {}
              /\ PaneIds(h[a].tabs[b].layout) \subseteq 0 .. n - 1
              /\ h[a].tabs[b].focused \in PaneIds(h[a].tabs[b].layout)
  BY <1>2, FullTab
<1>5. FullTabs(h[a]) # {}
  BY <1>3, <1>4 DEF FullTabs, IdsIn
<1>6. QED
  BY <1>3, <1>4, <1>5

\* The same workspaces; all but the i-th are untouched.
Others(r, h, i) ==
  DOMAIN r = DOMAIN h /\ Alike(r[i], h[i]) /\ \A a \in DOMAIN h : a # i => r[a] = h[a]

LEMMA OnlyTabOthers ==
  ASSUME NEW r, NEW h, NEW i, NEW j, OnlyTab(r, h, i, j) PROVE Others(r, h, i)
BY DEF OnlyTab, Others

LEMMA WithoutNone ==
  ASSUME NEW n \in Nat, NEW h, Sound(h, n), NEW tab, \A t \in TabsIn(h) : t.id # tab
  PROVE  WithoutTab(h, tab) = h
<1> DEFINE f  == [t \in TabsIn(h) |-> IF t.id = tab THEN [t EXCEPT !.layout = << >>] ELSE t]
           h1 == EachTab(h, f)
<1>1. WithoutTab(h, tab) = Tidy(h1) /\ IsSession(h)
  BY DEF WithoutTab, Sound, Numbered
<1>2. \A a \in DOMAIN h : \A b \in DOMAIN h[a].tabs : f[h[a].tabs[b]] = h[a].tabs[b]
  BY SoundTabs
<1> HIDE DEF f
<1>3. DOMAIN h1 = DOMAIN h /\ \A a \in DOMAIN h : h1[a] = h[a]
  <2>1. /\ DOMAIN h1 = DOMAIN h
        /\ \A a \in DOMAIN h : (\A b \in DOMAIN h[a].tabs : f[h[a].tabs[b]] = h[a].tabs[b])
           => h1[a] = h[a]
    <3>1. IsSession(h)
      BY <1>1
    <3>2. /\ DOMAIN EachTab(h, f) = DOMAIN h
          /\ \A a \in DOMAIN h :
              /\ Alike(EachTab(h, f)[a], h[a]) /\ EachTab(h, f)[a].active = h[a].active
              /\ EachTab(h, f)[a].tabs = [b \in DOMAIN h[a].tabs |-> f[h[a].tabs[b]]]
              /\ (\A b \in DOMAIN h[a].tabs : f[h[a].tabs[b]] = h[a].tabs[b])
                 => EachTab(h, f)[a] = h[a]
      BY ONLY <3>1, EachTabIs
    <3> HIDE DEF h1
    <3>3. h1 = EachTab(h, f)
      BY DEF h1
    <3>4. QED
      BY ONLY <3>2, <3>3
  <2> HIDE DEF h1
  <2>2. QED
    BY <1>2, <2>1
<1>4. h1 = h
  <2>1. h1 = [a \in DOMAIN h |-> h1[a]]
    BY DEF EachTab
  <2>2. h = [a \in DOMAIN h |-> h[a]]
    BY <1>1 DEF IsSession, IsSeq
  <2>3. QED
    BY <1>3, <2>1, <2>2
<1>5. \A a \in DOMAIN h : Tidy(h)[a] = h[a]
  BY <1>1, SoundTabs, TidyKeeps
<1>6. DOMAIN Tidy(h) = DOMAIN h
  BY <1>1, SoundTabs, TidyIs
<1>7. IsSession(Tidy(h))
  BY <1>1, TidyWithin DEF Within
<1>8. QED
  BY <1>1, <1>4, <1>5, <1>6, <1>7, SameSession

TabGone(r, h, i, j) == Others(r, h, i) /\ r[i].tabs = Keep(h[i].tabs, DOMAIN h[i].tabs \ {j})

\* A tab that is closed beside others is missing from its workspace, and that is all.
LEMMA WithoutTabIs ==
  ASSUME NEW n \in Nat, NEW h, Sound(h, n), NEW i, NEW j, NEW tab, IdAt(h, i, j, tab),
         Len(h[i].tabs) > 1, NEW r, r = WithoutTab(h, tab)
  PROVE  TabGone(r, h, i, j)
<1> SUFFICES ASSUME i \in DOMAIN h, j \in DOMAIN h[i].tabs, tab = h[i].tabs[j].id,
                    \A a \in DOMAIN h : \A b \in DOMAIN h[a].tabs :
                        a # i \/ b # j => h[a].tabs[b].id # tab
             PROVE  Others(r, h, i) /\ r[i].tabs = Keep(h[i].tabs, DOMAIN h[i].tabs \ {j})
  BY DEF TabGone, IdAt, IsPlace, TabAt
<1> DEFINE f  == [t \in TabsIn(h) |-> IF t.id = tab THEN [t EXCEPT !.layout = << >>] ELSE t]
           h1 == EachTab(h, f)
           K  == DOMAIN h[i].tabs \ {j}
<1>1. r = Tidy(h1) /\ IsSession(h)
  BY DEF WithoutTab, Sound, Numbered
<1>2. \A a \in DOMAIN h : \A b \in DOMAIN h[a].tabs :
        a # i \/ b # j => f[h[a].tabs[b]] = h[a].tabs[b]
  BY SoundTabs
<1>3. f[h[i].tabs[j]].id = tab /\ f[h[i].tabs[j]].layout = << >>
  <2>1. h[i].tabs[j] \in TabsIn(h) /\ IsTab(h[i].tabs[j])
    BY SoundTabs
  <2>2. f[h[i].tabs[j]] = [h[i].tabs[j] EXCEPT !.layout = << >>]
    BY <2>1
  <2>3. QED
    BY <2>1, <2>2 DEF IsTab, Tab
<1>4. IsSession(h1)
  <2>1. \A t \in TabsIn(h) : IsTab(f[t])
    <3> SUFFICES ASSUME NEW t \in TabsIn(h) PROVE IsTab(f[t])
      OBVIOUS
    <3>1. IsTab(t)
      BY <1>1, MembersOfSession
    <3> DEFINE u == [t EXCEPT !.layout = << >>]
    <3>2. IsTab(u)
      BY <3>1, EmptyLayout, RelaidTab
    <3>3. f[t] = t \/ f[t] = u
      OBVIOUS
    <3>4. QED
      BY <3>1, <3>2, <3>3
  <2> HIDE DEF f
  <2>2. QED
    BY <1>1, <2>1, EachTabChanged
<1> HIDE DEF f
<1>5. OnlyTab(h1, h, i, j) /\ h1[i].tabs[j] = f[h[i].tabs[j]]
  BY <1>1, <1>2, <1>3, EachTabOne
<1> HIDE DEF h1
<1>6. K \in SUBSET DOMAIN h[i].tabs /\ K # {} /\ IsSeq(h[i].tabs)
  <2>1. IsSeq(h[i].tabs)
    BY SoundTabs
  <2>2. Len(h[i].tabs) \in Nat /\ DOMAIN h[i].tabs = 1 .. Len(h[i].tabs)
    BY <2>1 DEF IsSeq
  <2>3. 1 \in DOMAIN h[i].tabs /\ 2 \in DOMAIN h[i].tabs
    BY <2>2
  <2>4. QED
    BY <2>1, <2>3
<1>7. FullTabs(h1[i]) = K /\ DOMAIN h1[i].tabs = DOMAIN h[i].tabs
      /\ \A b \in K : h1[i].tabs[b] = h[i].tabs[b]
  BY <1>3, <1>5, SoundTabs DEF FullTabs, OnlyTab
<1>8. \A a \in DOMAIN h : FullTabs(h1[a]) # {}
  BY <1>5, <1>6, <1>7, SoundTabs DEF OnlyTab
<1>9. ASSUME NEW a \in DOMAIN h, a # i PROVE r[a] = h[a]
  <2>1. h1[a] = h[a] /\ a \in DOMAIN h1 /\ \A b \in DOMAIN h1 : FullTabs(h1[b]) # {}
    BY <1>5, <1>8, <1>9 DEF OnlyTab
  <2>2. /\ h1[a].active \in IdsIn(h1[a].tabs)
        /\ \A b \in DOMAIN h1[a].tabs :
             h1[a].tabs[b].layout # << >>
             /\ h1[a].tabs[b].focused \in PaneIds(h1[a].tabs[b].layout)
    BY <2>1, SoundTabs
  <2>3. Tidy(h1)[a] = h1[a]
    BY ONLY <1>4, <2>1, <2>2, TidyKeeps
  <2>4. QED
    BY <1>1, <2>1, <2>3
<1>10. Keep(h1[i].tabs, K) = Keep(h[i].tabs, K)
  <2>0. K \in SUBSET (1 .. Len(h[i].tabs)) /\ Len(h[i].tabs) \in Nat
    BY <1>6 DEF IsSeq
  <2>1. \A k \in 1 .. Cardinality(K) : Pos(K, k) \in K
    BY ONLY <2>0, PosIs
  <2>2. \A s : Keep(s, K) = [k \in 1 .. Cardinality(K) |-> s[Pos(K, k)]]
    BY DEF Keep, Pos
  <2>3. \A k \in 1 .. Cardinality(K) : h1[i].tabs[Pos(K, k)] = h[i].tabs[Pos(K, k)]
    BY <1>7, <2>1
  <2> HIDE DEF K
  <2>4. QED
    BY <2>2, <2>3
<1> DEFINE tabs == Keep(h[i].tabs, K)
<1>11. /\ DOMAIN r = DOMAIN h /\ Alike(r[i], h1[i]) /\ DOMAIN r[i].tabs = DOMAIN tabs
       /\ \A b \in DOMAIN tabs : r[i].tabs[b] = Refocused(tabs[b])
  <2>1. DOMAIN h1 = DOMAIN h /\ \A a \in DOMAIN h1 : FullTabs(h1[a]) # {}
    BY <1>5, <1>8 DEF OnlyTab
  <2>2. /\ DOMAIN Tidy(h1) = DOMAIN h1
        /\ Alike(Tidy(h1)[i], h1[i])
        /\ DOMAIN Tidy(h1)[i].tabs = DOMAIN Keep(h1[i].tabs, FullTabs(h1[i]))
        /\ \A b \in DOMAIN Keep(h1[i].tabs, FullTabs(h1[i])) :
             Tidy(h1)[i].tabs[b] = Refocused(Keep(h1[i].tabs, FullTabs(h1[i]))[b])
    BY <1>4, <2>1, TidyIs
  <2>3. QED
    BY <1>1, <1>7, <1>10, <2>1, <2>2
<1> HIDE DEF K
<1>12. IsSeq(tabs) /\ \A b \in DOMAIN tabs : \E c \in DOMAIN h[i].tabs : tabs[b] = h[i].tabs[c]
  BY <1>6, KeepIds, KeepIsSeq
<1> HIDE DEF tabs
<1>13. \A b \in DOMAIN tabs : Refocused(tabs[b]) = tabs[b]
  BY <1>12, SoundTabs DEF Refocused
<1>14. IsSeq(r[i].tabs)
  <2>1. IsSession(r)
    BY <1>1, <1>4, TidyWithin DEF Within
  <2>2. QED
    BY <1>11, <2>1, MembersOfSession DEF IsWorkspace
<1>15. r[i].tabs = tabs
  BY <1>11, <1>12, <1>13, <1>14 DEF IsSeq
<1>16. Alike(r[i], h[i])
  BY <1>5, <1>11 DEF Alike, OnlyTab
<1>17. QED
  BY <1>9, <1>11, <1>15, <1>16 DEF Others, tabs, K

LEMMA WithoutPaneIs ==
  ASSUME NEW n \in Nat, NEW h, Sound(h, n), NEW i, NEW j, NEW t, t = TabAt(h, i, j),
         NEW pane, PaneAt(h, i, j, pane), PaneIds(t.layout) # {pane},
         NEW r, r = WithoutPane(h, pane)
  PROVE  /\ OnlyTab(r, h, i, j)
         /\ TabAt(r, i, j).label = t.label /\ TabAt(r, i, j).layout = Closed(t.layout, pane)
<1> SUFFICES ASSUME i \in DOMAIN h, j \in DOMAIN h[i].tabs, t = h[i].tabs[j],
                    pane \in PaneIds(t.layout),
                    \A a \in DOMAIN h : \A b \in DOMAIN h[a].tabs :
                      a # i \/ b # j => pane \notin PaneIds(h[a].tabs[b].layout)
             PROVE  /\ OnlyTab(r, h, i, j)
                    /\ r[i].tabs[j].label = t.label
                       /\ r[i].tabs[j].layout = Closed(t.layout, pane)
  BY DEF PaneAt, IdAt, IsPlace, TabAt, TabBecomes
<1> DEFINE left(u) == IF PaneIds(u.layout) = {pane} THEN << >> ELSE Closed(u.layout, pane)
           f == [u \in TabsIn(h) |->
                   IF pane \notin PaneIds(u.layout) THEN u
                   ELSE [u EXCEPT !.layout = IF PaneIds(@) = {pane} THEN << >> ELSE Closed(@,
                   pane)]]
           h1 == EachTab(h, f)
           v  == [t EXCEPT !.layout = Closed(t.layout, pane)]
<1>1. r = Tidy(h1) /\ IsSession(h)
  BY DEF WithoutPane, Sound, Numbered
<1>2. \A a \in DOMAIN h : \A b \in DOMAIN h[a].tabs : h[a].tabs[b] \in TabsIn(h)
      /\ IsTab(h[a].tabs[b])
  BY SoundTabs
<1>3. \A a \in DOMAIN h : \A b \in DOMAIN h[a].tabs :
        a # i \/ b # j => f[h[a].tabs[b]] = h[a].tabs[b]
  BY <1>2
<1>4. IsTab(t) /\ f[t] = v
  BY <1>2
<1>5. IsTab(v) /\ v.id = t.id /\ v.label = t.label /\ v.focused = t.focused
      /\ v.layout = Closed(t.layout, pane) /\ v.layout # << >>
  <2> DEFINE x == Closed(t.layout, pane)
  <2>1. IsLayout(x) /\ PanesApart(x) /\ PaneIds(x) = PaneIds(t.layout) \ {pane}
    BY <1>4, ClosedIsLayout DEF IsTab
  <2>2. x # << >>
    BY <2>1, EmptyLayout
  <2> HIDE DEF x
  <2>3. v = [t EXCEPT !.layout = x]
    BY DEF x
  <2>4. t = [id |-> t.id, label |-> t.label, focused |-> t.focused, layout |-> t.layout]
    BY <1>4 DEF IsTab, Tab
  <2>5. IsTab(v)
    BY ONLY <1>4, <2>1, <2>3, RelaidTab
  <2>6. v.id = t.id /\ v.label = t.label /\ v.focused = t.focused /\ v.layout = x
    BY ONLY <2>3, <2>4
  <2>7. QED
    BY <2>2, <2>5, <2>6 DEF x
<1>6. IsSession(h1)
  <2>1. ASSUME NEW u \in TabsIn(h) PROVE IsTab(f[u])
    <3>1. IsTab(u)
      BY <1>1, MembersOfSession
    <3>2. CASE pane \notin PaneIds(u.layout)
      BY <3>1, <3>2
    <3>3. CASE pane \in PaneIds(u.layout)
      <4> DEFINE y == [u EXCEPT !.layout = left(u)]
      <4>1. IsTab(y)
        BY <3>1, <3>3, WithoutOnePane
      <4>2. f[u] = y
        BY <3>3
      <4>3. QED
        BY <4>1, <4>2
    <3>4. QED
      BY <3>2, <3>3
  <2> HIDE DEF f
  <2>2. QED
    BY <1>1, <2>1, EachTabChanged
<1> HIDE DEF f, v
<1>7. OnlyTab(h1, h, i, j) /\ h1[i].tabs[j] = v
  <2>1. f[h[i].tabs[j]] = v /\ f[h[i].tabs[j]].id = h[i].tabs[j].id
    BY <1>4, <1>5
  <2>2. OnlyTab(h1, h, i, j) /\ h1[i].tabs[j] = f[h[i].tabs[j]]
    BY <1>1, <1>3, <2>1, EachTabOne
  <2>3. QED
    BY <2>1, <2>2
<1> HIDE DEF h1
<1>8. ASSUME NEW a \in DOMAIN h1
      PROVE  FullTabs(h1[a]) = DOMAIN h1[a].tabs /\ FullTabs(h1[a]) # {}
  <2>1. CASE a = i
    BY <1>5, <1>7, <2>1, SoundTabs DEF OnlyTab, FullTabs
  <2>2. CASE a # i
    <3>1. h1[a] = h[a] /\ a \in DOMAIN h
      BY <1>7, <2>2 DEF OnlyTab
    <3>2. QED
      BY <3>1, SoundTabs DEF FullTabs
  <2>3. QED
    BY <2>1, <2>2
<1>9. ASSUME NEW a \in DOMAIN h, a # i PROVE r[a] = h[a]
  <2>1. h1[a] = h[a] /\ a \in DOMAIN h1 /\ \A b \in DOMAIN h1 : FullTabs(h1[b]) # {}
    BY <1>7, <1>8, <1>9 DEF OnlyTab
  <2>2. /\ h1[a].active \in IdsIn(h1[a].tabs)
        /\ \A b \in DOMAIN h1[a].tabs :
             h1[a].tabs[b].layout # << >>
             /\ h1[a].tabs[b].focused \in PaneIds(h1[a].tabs[b].layout)
    BY <2>1, SoundTabs
  <2>3. Tidy(h1)[a] = h1[a]
    BY ONLY <1>6, <2>1, <2>2, TidyKeeps
  <2>4. QED
    BY <1>1, <2>1, <2>3
<1>10. /\ i \in DOMAIN h1 /\ DOMAIN h1 = DOMAIN h
       /\ DOMAIN h1[i].tabs = DOMAIN h[i].tabs
       /\ h1[i].active \in IdsIn(h1[i].tabs)
  <2>1. \A b \in DOMAIN h[i].tabs : h1[i].tabs[b].id = h[i].tabs[b].id
    BY <1>7 DEF OnlyTab
  <2>2. QED
    BY <1>7, <2>1, SoundTabs DEF OnlyTab, IdsIn
<1>11. Keep(h1[i].tabs, FullTabs(h1[i])) = h1[i].tabs
  <2>1. IsSeq(h1[i].tabs)
    BY <1>6, <1>10, MembersOfSession DEF IsWorkspace
  <2>2. QED
    BY <1>8, <1>10, <2>1, KeepAll
<1>12. /\ DOMAIN r = DOMAIN h1 /\ Alike(r[i], h1[i]) /\ DOMAIN r[i].tabs = DOMAIN h1[i].tabs
       /\ \A b \in DOMAIN h1[i].tabs : r[i].tabs[b] = Refocused(h1[i].tabs[b])
       /\ r[i].active = h1[i].active
  <2>1. /\ DOMAIN Tidy(h1) = DOMAIN h1
        /\ \A a \in DOMAIN h1 :
             /\ Alike(Tidy(h1)[a], h1[a])
             /\ DOMAIN Tidy(h1)[a].tabs = DOMAIN Keep(h1[a].tabs, FullTabs(h1[a]))
             /\ \A b \in DOMAIN Keep(h1[a].tabs, FullTabs(h1[a])) :
                  Tidy(h1)[a].tabs[b] = Refocused(Keep(h1[a].tabs, FullTabs(h1[a]))[b])
             /\ h1[a].active \in IdsIn(Keep(h1[a].tabs, FullTabs(h1[a])))
                  => Tidy(h1)[a].active = h1[a].active
    BY <1>6, <1>8, TidyIs
  <2>2. QED
    BY <1>1, <1>10, <1>11, <2>1
<1>13. ASSUME NEW b \in DOMAIN h[i].tabs, b # j PROVE r[i].tabs[b] = h[i].tabs[b]
  <2>1. h1[i].tabs[b] = h[i].tabs[b]
    BY <1>7, <1>13 DEF OnlyTab
  <2>2. r[i].tabs[b] = Refocused(h1[i].tabs[b])
    BY <1>10, <1>12
  <2>3. h[i].tabs[b].focused \in PaneIds(h[i].tabs[b].layout)
    BY SoundTabs
  <2>4. QED
    BY <2>1, <2>2, <2>3 DEF Refocused
<1>14. /\ r[i].tabs[j].id = t.id /\ r[i].tabs[j].label = t.label
       /\ r[i].tabs[j].layout = Closed(t.layout, pane)
  <2>1. r[i].tabs[j] = Refocused(v)
    BY <1>7, <1>10, <1>12
  <2>2. v = [id |-> v.id, label |-> v.label, focused |-> v.focused, layout |-> v.layout]
    BY <1>5 DEF IsTab, Tab
  <2>3. Refocused(v).id = v.id /\ Refocused(v).label = v.label /\ Refocused(v).layout = v.layout
    BY <2>2 DEF Refocused
  <2>4. QED
    BY <1>5, <2>1, <2>3
<1>15. Alike(r[i], h[i]) /\ r[i].active = h[i].active
  BY <1>7, <1>12 DEF Alike, OnlyTab
<1>16. OnlyTab(r, h, i, j)
  BY <1>9, <1>10, <1>12, <1>13, <1>14, <1>15 DEF OnlyTab
<1>17. QED
  BY <1>14, <1>16

LEMMA RenamedIs ==
  ASSUME NEW n \in Nat, NEW h, Sound(h, n), NEW i, NEW j, NEW t, t = TabAt(h, i, j),
         NEW tab, IdAt(h, i, j, tab), NEW label, NEW r, r = Renamed(h, tab, label)
  PROVE  TabBecomes(r, h, i, j, Tab(t.id, label, t.focused, t.layout))
<1> SUFFICES ASSUME i \in DOMAIN h, j \in DOMAIN h[i].tabs, t = h[i].tabs[j],
                    tab = t.id,
                    \A a \in DOMAIN h : \A b \in DOMAIN h[a].tabs : a # i \/ b # j
                    => h[a].tabs[b].id # tab
             PROVE  OnlyTab(r, h, i, j) /\ r[i].tabs[j] = Tab(t.id, label, t.focused, t.layout)
  BY DEF PaneAt, IdAt, IsPlace, TabAt, TabBecomes
<1> DEFINE f == [u \in TabsIn(h) |-> IF u.id = tab THEN [u EXCEPT !.label = label] ELSE u]
           x == Tab(t.id, label, t.focused, t.layout)
<1>1. r = EachTab(h, f) /\ IsSession(h)
  BY DEF Renamed, Sound, Numbered
<1>2. \A a \in DOMAIN h : \A b \in DOMAIN h[a].tabs : h[a].tabs[b] \in TabsIn(h)
      /\ IsTab(h[a].tabs[b])
  BY SoundTabs
<1>3. \A a \in DOMAIN h : \A b \in DOMAIN h[a].tabs :
        a # i \/ b # j => f[h[a].tabs[b]] = h[a].tabs[b]
  BY <1>2
<1>4. t = [id |-> t.id, label |-> t.label, focused |-> t.focused, layout |-> t.layout]
      /\ f[t] = [t EXCEPT !.label = label]
  BY <1>2 DEF IsTab, Tab
<1>5. f[t] = x /\ x.id = t.id
  BY <1>4 DEF Tab
<1> HIDE DEF f, x
<1>6. OnlyTab(EachTab(h, f), h, i, j) /\ EachTab(h, f)[i].tabs[j] = f[h[i].tabs[j]]
  BY <1>1, <1>3, <1>5, EachTabOne
<1>7. QED
  BY <1>1, <1>5, <1>6 DEF x

LEMMA PaneFocusedIs ==
  ASSUME NEW n \in Nat, NEW h, Sound(h, n), NEW i, NEW j, NEW t, t = TabAt(h, i, j),
         NEW pane, PaneAt(h, i, j, pane), NEW r, r = PaneFocused(h, pane)
  PROVE  TabBecomes(r, h, i, j, Tab(t.id, t.label, pane, t.layout))
<1> SUFFICES ASSUME i \in DOMAIN h, j \in DOMAIN h[i].tabs, t = h[i].tabs[j],
                    pane \in PaneIds(t.layout),
                    \A a \in DOMAIN h : \A b \in DOMAIN h[a].tabs :
                      a # i \/ b # j => pane \notin PaneIds(h[a].tabs[b].layout)
             PROVE  OnlyTab(r, h, i, j) /\ r[i].tabs[j] = Tab(t.id, t.label, pane, t.layout)
  BY DEF PaneAt, IdAt, IsPlace, TabAt, TabBecomes
<1> DEFINE f == [u \in TabsIn(h) |-> IF pane \in PaneIds(u.layout) THEN [u EXCEPT !.focused = pane] ELSE u]
           x == Tab(t.id, t.label, pane, t.layout)
<1>1. r = EachTab(h, f) /\ IsSession(h)
  BY DEF PaneFocused, Sound, Numbered
<1>2. \A a \in DOMAIN h : \A b \in DOMAIN h[a].tabs : h[a].tabs[b] \in TabsIn(h)
      /\ IsTab(h[a].tabs[b])
  BY SoundTabs
<1>3. \A a \in DOMAIN h : \A b \in DOMAIN h[a].tabs :
        a # i \/ b # j => f[h[a].tabs[b]] = h[a].tabs[b]
  BY <1>2
<1>4. t = [id |-> t.id, label |-> t.label, focused |-> t.focused, layout |-> t.layout]
      /\ f[t] = [t EXCEPT !.focused = pane]
  BY <1>2 DEF IsTab, Tab
<1>5. f[t] = x /\ x.id = t.id
  BY <1>4 DEF Tab
<1> HIDE DEF f, x
<1>6. OnlyTab(EachTab(h, f), h, i, j) /\ EachTab(h, f)[i].tabs[j] = f[h[i].tabs[j]]
  BY <1>1, <1>3, <1>5, EachTabOne
<1>7. QED
  BY <1>1, <1>5, <1>6 DEF x

LEMMA PaneSplitIs ==
  ASSUME NEW n \in Nat, NEW h, Sound(h, n), NEW i, NEW j, NEW t, t = TabAt(h, i, j),
         NEW target, PaneAt(h, i, j, target), NEW direction, NEW ratio, NEW pane,
         NEW r, r = PaneSplit(h, target, direction, ratio, pane)
  PROVE  TabBecomes(r, h, i, j,
         Tab(t.id, t.label, t.focused, SplitAt(t.layout, target, direction, ratio, pane)))
<1> SUFFICES ASSUME i \in DOMAIN h, j \in DOMAIN h[i].tabs, t = h[i].tabs[j],
                    target \in PaneIds(t.layout),
                    \A a \in DOMAIN h : \A b \in DOMAIN h[a].tabs :
                      a # i \/ b # j => target \notin PaneIds(h[a].tabs[b].layout)
             PROVE  OnlyTab(r, h, i, j) /\ r[i].tabs[j] = Tab(t.id, t.label, t.focused,
                    SplitAt(t.layout, target, direction, ratio, pane))
  BY DEF PaneAt, IdAt, IsPlace, TabAt, TabBecomes
<1> DEFINE f == [u \in TabsIn(h) |->
                   IF target \in PaneIds(u.layout)
                   THEN [u EXCEPT !.layout = SplitAt(@, target, direction, ratio, pane)] ELSE u]
           x == Tab(t.id, t.label, t.focused, SplitAt(t.layout, target, direction, ratio, pane))
<1>1. r = EachTab(h, f) /\ IsSession(h)
  BY DEF PaneSplit, Sound, Numbered
<1>2. \A a \in DOMAIN h : \A b \in DOMAIN h[a].tabs : h[a].tabs[b] \in TabsIn(h)
      /\ IsTab(h[a].tabs[b])
  BY SoundTabs
<1>3. \A a \in DOMAIN h : \A b \in DOMAIN h[a].tabs :
        a # i \/ b # j => f[h[a].tabs[b]] = h[a].tabs[b]
  BY <1>2
<1>4. t = [id |-> t.id, label |-> t.label, focused |-> t.focused, layout |-> t.layout]
      /\ f[t] = [t EXCEPT !.layout = SplitAt(t.layout, target, direction, ratio, pane)]
  BY <1>2 DEF IsTab, Tab
<1>5. f[t] = x /\ x.id = t.id
  BY <1>4 DEF Tab
<1> HIDE DEF f, x
<1>6. OnlyTab(EachTab(h, f), h, i, j) /\ EachTab(h, f)[i].tabs[j] = f[h[i].tabs[j]]
  BY <1>1, <1>3, <1>5, EachTabOne
<1>7. QED
  BY <1>1, <1>5, <1>6 DEF x

LEMMA PanesSwappedIs ==
  ASSUME NEW n \in Nat, NEW h, Sound(h, n), NEW i, NEW j, NEW t, t = TabAt(h, i, j),
         NEW one, PaneAt(h, i, j, one), NEW two, two \in PaneIds(t.layout),
         NEW r, r = PanesSwapped(h, one, two)
  PROVE  TabBecomes(r, h, i, j, Tab(t.id, t.label, t.focused, Swapped(t.layout, one, two)))
<1> SUFFICES ASSUME i \in DOMAIN h, j \in DOMAIN h[i].tabs, t = h[i].tabs[j],
                    one \in PaneIds(t.layout),
                    \A a \in DOMAIN h : \A b \in DOMAIN h[a].tabs :
                      a # i \/ b # j => one \notin PaneIds(h[a].tabs[b].layout)
             PROVE  OnlyTab(r, h, i, j) /\ r[i].tabs[j] = Tab(t.id, t.label, t.focused,
                    Swapped(t.layout, one, two))
  BY DEF PaneAt, IdAt, IsPlace, TabAt, TabBecomes
<1> DEFINE f == [u \in TabsIn(h) |->
                   IF {one, two} \subseteq PaneIds(u.layout)
                   THEN [u EXCEPT !.layout = Swapped(@, one, two)] ELSE u]
           x == Tab(t.id, t.label, t.focused, Swapped(t.layout, one, two))
<1>1. r = EachTab(h, f) /\ IsSession(h)
  BY DEF PanesSwapped, Sound, Numbered
<1>2. \A a \in DOMAIN h : \A b \in DOMAIN h[a].tabs : h[a].tabs[b] \in TabsIn(h)
      /\ IsTab(h[a].tabs[b])
  BY SoundTabs
<1>3. \A a \in DOMAIN h : \A b \in DOMAIN h[a].tabs :
        a # i \/ b # j => f[h[a].tabs[b]] = h[a].tabs[b]
  BY <1>2
<1>4. t = [id |-> t.id, label |-> t.label, focused |-> t.focused, layout |-> t.layout]
      /\ f[t] = [t EXCEPT !.layout = Swapped(t.layout, one, two)]
  BY <1>2 DEF IsTab, Tab
<1>5. f[t] = x /\ x.id = t.id
  BY <1>4 DEF Tab
<1> HIDE DEF f, x
<1>6. OnlyTab(EachTab(h, f), h, i, j) /\ EachTab(h, f)[i].tabs[j] = f[h[i].tabs[j]]
  BY <1>1, <1>3, <1>5, EachTabOne
<1>7. QED
  BY <1>1, <1>5, <1>6 DEF x

LEMMA TabFocusedIs ==
  ASSUME NEW n \in Nat, NEW h, Sound(h, n), NEW i, NEW j, NEW tab, IdAt(h, i, j, tab),
         NEW r, r = TabFocused(h, tab)
  PROVE  Others(r, h, i) /\ r[i].tabs = h[i].tabs /\ r[i].active = tab
<1> SUFFICES ASSUME i \in DOMAIN h, tab \in IdsIn(h[i].tabs),
                    \A a \in DOMAIN h : a # i => tab \notin IdsIn(h[a].tabs)
             PROVE  Others(r, h, i) /\ r[i].tabs = h[i].tabs /\ r[i].active = tab
  BY DEF IdAt, IsPlace, TabAt, IdsIn
<1>1. /\ DOMAIN r = DOMAIN h
      /\ \A a \in DOMAIN h : r[a] = IF tab \in IdsIn(h[a].tabs) THEN [h[a] EXCEPT !.active = tab] ELSE h[a]
  BY DEF TabFocused
<1>2. r[i] = [h[i] EXCEPT !.active = tab] /\ IsWorkspace(h[i])
  BY <1>1, SoundTabs
<1>3. Alike(r[i], h[i]) /\ r[i].active = tab /\ r[i].tabs = h[i].tabs
  BY <1>2, ActiveReplaced
<1>4. QED
  BY <1>1, <1>3 DEF Others

LEMMA AppendIs ==
  ASSUME NEW s, IsSeq(s), NEW e, NEW r, r = Append(s, e)
  PROVE  /\ IsSeq(r) /\ Len(s) \in Nat /\ Len(r) = Len(s) + 1 /\ DOMAIN r = 1 .. Len(s) + 1
         /\ DOMAIN s = 1 .. Len(s)
         /\ r[Len(s) + 1] = e /\ \A k \in DOMAIN s : r[k] = s[k]
<1> DEFINE S == Range(s) \cup {e}
<1>1. s \in Seq(S) /\ e \in S
  BY SeqMonotonic DEF IsSeq
<1>2. IsSeq(r)
  BY AppendIsSeq
<1> HIDE DEF S
<1>3. QED
  BY <1>1, <1>2

\* The name a tab gets in a workspace with n tabs.
LabelGiven(label, n) == IF label = None THEN AutoLabels[n + 1] ELSE label

\* u is behind what was there, the last tab of the i-th workspace.
TabJoins(r, h, i, u) ==
  /\ Others(r, h, i) /\ r[i].active = h[i].active
  /\ Len(r[i].tabs) = Len(h[i].tabs) + 1 /\ Len(h[i].tabs) \in Nat
  /\ DOMAIN h[i].tabs = 1 .. Len(h[i].tabs) /\ DOMAIN r[i].tabs = 1 .. Len(h[i].tabs) + 1
  /\ \A b \in DOMAIN h[i].tabs : TabAt(r, i, b) = TabAt(h, i, b)
  /\ TabAt(r, i, Len(h[i].tabs) + 1) = u

LEMMA WithTabIs ==
  ASSUME NEW h, IsSession(h), DistinctIds(h), NEW i \in DOMAIN h,
         NEW tab, IsTab(tab), NEW r, r = WithTab(h, h[i].id, tab)
  PROVE  TabJoins(r, h, i, Tab(tab.id, LabelGiven(tab.label, Len(h[i].tabs)), tab.focused,
         tab.layout))
<1> SUFFICES /\ Others(r, h, i) /\ r[i].active = h[i].active
             /\ Len(r[i].tabs) = Len(h[i].tabs) + 1 /\ Len(h[i].tabs) \in Nat
             /\ DOMAIN h[i].tabs = 1 .. Len(h[i].tabs)
                /\ DOMAIN r[i].tabs = 1 .. Len(h[i].tabs) + 1
             /\ \A b \in DOMAIN h[i].tabs : r[i].tabs[b] = h[i].tabs[b]
             /\ r[i].tabs[Len(h[i].tabs) + 1]
                  = Tab(tab.id, LabelGiven(tab.label, Len(h[i].tabs)), tab.focused, tab.layout)
  BY DEF TabJoins, TabAt
<1> DEFINE w    == h[i]
           name == LabelGiven(tab.label, Len(w.tabs))
           e    == [tab EXCEPT !.label = IF @ = None THEN AutoLabels[Len(w.tabs) + 1] ELSE @]
           row  == Append(w.tabs, e)
<1>1. /\ DOMAIN r = DOMAIN h
      /\ \A a \in DOMAIN h :
           r[a] = IF h[a].id # h[i].id THEN h[a]
                  ELSE [h[a] EXCEPT !.tabs = Append(@, [tab EXCEPT !.label =
                          IF @ = None THEN AutoLabels[Len(h[a].tabs) + 1] ELSE @])]
  BY DEF WithTab
<1>2. IsWorkspace(w) /\ IsSeq(w.tabs)
  BY MembersOfSession DEF IsWorkspace
<1>3. r[i] = [w EXCEPT !.tabs = row]
  BY <1>1
<1>4. \A a \in DOMAIN h : a # i => r[a] = h[a]
  BY <1>1 DEF DistinctIds
<1>5. e = Tab(tab.id, name, tab.focused, tab.layout)
  <2>1. tab = [id |-> tab.id, label |-> tab.label, focused |-> tab.focused,
        layout |-> tab.layout]
    BY DEF IsTab, Tab
  <2>2. e = [tab EXCEPT !.label = name]
    BY <2>1 DEF LabelGiven
  <2> HIDE DEF name, e
  <2>3. QED
    BY <2>1, <2>2 DEF Tab
<1> HIDE DEF w, e
<1>6. /\ Len(row) = Len(w.tabs) + 1 /\ Len(w.tabs) \in Nat /\ DOMAIN row = 1 .. Len(w.tabs) + 1
      /\ DOMAIN w.tabs = 1 .. Len(w.tabs)
      /\ row[Len(w.tabs) + 1] = e /\ \A k \in DOMAIN w.tabs : row[k] = w.tabs[k]
  BY <1>2, AppendIs
<1> HIDE DEF row
<1>7. Alike(r[i], w) /\ r[i].active = w.active /\ r[i].tabs = row
  BY <1>2, <1>3, TabsReplaced
<1> HIDE DEF name
<1>8. QED
  BY <1>1, <1>4, <1>5, <1>6, <1>7 DEF Others, w, name

LEMMA WithWorkspaceIs ==
  ASSUME NEW h, IsSession(h), DistinctIds(h), NEW id, id \notin IdsIn(h), NEW label, NEW cwd,
         NEW tab, IsTab(tab), NEW r, r = WithWorkspace(h, id, label, cwd, tab)
  PROVE  /\ Len(h) \in Nat /\ DOMAIN h = 1 .. Len(h) /\ DOMAIN r = 1 .. Len(h) + 1
         /\ Len(r) = Len(h) + 1
         /\ \A a \in DOMAIN h : r[a] = h[a]
         /\ r[Len(h) + 1].id = id /\ r[Len(h) + 1].cwd = cwd
         /\ r[Len(h) + 1].label = (IF label = None THEN cwd ELSE label)
         /\ Len(r[Len(h) + 1].tabs) = 1 /\ DOMAIN r[Len(h) + 1].tabs = {1}
         /\ r[Len(h) + 1].tabs[1] = Tab(tab.id, LabelGiven(tab.label, 0), tab.focused,
            tab.layout)
<1> DEFINE n  == Len(h)
           x  == IF label = None THEN cwd ELSE label
           w  == Workspace(id, x, cwd, tab.id, << >>)
           h1 == Append(h, w)
<1>1. r = WithTab(h1, id, tab)
  BY DEF WithWorkspace
<1>2. IsWorkspace(w) /\ w.id = id /\ w.label = x /\ w.cwd = cwd /\ w.tabs = << >>
  BY EmptyIsSeq DEF IsWorkspace, Workspace
<1> HIDE DEF w
<1>3. IsSeq(h) /\ \A u \in Range(h) : IsWorkspace(u)
  BY DEF IsSession
<1>4. /\ IsSeq(h1) /\ n \in Nat /\ Len(h1) = n + 1 /\ DOMAIN h1 = 1 .. n + 1
         /\ DOMAIN h = 1 .. n
      /\ h1[n + 1] = w /\ \A k \in DOMAIN h : h1[k] = h[k]
  <2>1. ASSUME NEW e, NEW r1, r1 = Append(h, e)
        PROVE  /\ IsSeq(r1) /\ Len(h) \in Nat /\ Len(r1) = Len(h) + 1
               /\ DOMAIN r1 = 1 .. Len(h) + 1 /\ DOMAIN h = 1 .. Len(h)
               /\ r1[Len(h) + 1] = e /\ \A k \in DOMAIN h : r1[k] = h[k]
    <3>0. IsSeq(h)
      BY <1>3
    <3>1. IsSeq(r1)
      BY ONLY <3>0, <2>1, AppendIs
    <3>2. Len(h) \in Nat
      BY ONLY <3>0, <2>1, AppendIs
    <3>3. Len(r1) = Len(h) + 1
      BY ONLY <3>0, <2>1, AppendIs
    <3>4. DOMAIN r1 = 1 .. Len(h) + 1
      BY ONLY <3>0, <2>1, AppendIs
    <3>5. DOMAIN h = 1 .. Len(h)
      BY ONLY <3>0, <2>1, AppendIs
    <3>6. r1[Len(h) + 1] = e
      BY ONLY <3>0, <2>1, AppendIs
    <3>7. \A k \in DOMAIN h : r1[k] = h[k]
      BY ONLY <3>0, <2>1, AppendIs
    <3>8. QED
      BY <3>1, <3>2, <3>3, <3>4, <3>5, <3>6, <3>7
  <2>2. h1 = Append(h, w)
    OBVIOUS
  <2> HIDE DEF h1
  <2>3. QED
    BY <2>1, <2>2
<1>5. IsSession(h1) /\ DistinctIds(h1)
  <2>1. Range(h1) \subseteq Range(h) \cup {w}
    BY <1>3, AppendIsSeq
  <2>2. DistinctIds(h1)
    BY <1>2, <1>3, AppendIds
  <2>3. QED
    BY <1>2, <1>3, <1>4, <2>1, <2>2 DEF IsSession
<1> HIDE DEF h1, n
<1>6. n + 1 \in DOMAIN h1 /\ h1[n + 1].id = id /\ h1[n + 1].tabs = << >>
  BY <1>2, <1>4
<1>7. /\ Others(r, h1, n + 1)
      /\ DOMAIN r[n + 1].tabs = 1 .. Len(h1[n + 1].tabs) + 1
      /\ Len(r[n + 1].tabs) = Len(h1[n + 1].tabs) + 1
      /\ r[n + 1].tabs[Len(h1[n + 1].tabs) + 1]
           = Tab(tab.id, LabelGiven(tab.label, Len(h1[n + 1].tabs)), tab.focused, tab.layout)
  <2> DEFINE m == n + 1
  <2>1. r = WithTab(h1, h1[m].id, tab) /\ m \in DOMAIN h1
    BY <1>1, <1>6
  <2> HIDE DEF m
  <2>2. TabJoins(r, h1, m, Tab(tab.id, LabelGiven(tab.label, Len(h1[m].tabs)), tab.focused,
        tab.layout))
    BY ONLY <1>5, <2>1, IsTab(tab), WithTabIs
  <2>3. QED
    BY <2>2 DEF m, TabJoins, TabAt
<1>8. Len(<< >>) = 0 /\ 1 .. 0 + 1 = {1} /\ 0 + 1 = 1
  OBVIOUS
<1>9. /\ DOMAIN r[n + 1].tabs = {1} /\ Len(r[n + 1].tabs) = 1
      /\ r[n + 1].tabs[1] = Tab(tab.id, LabelGiven(tab.label, 0), tab.focused, tab.layout)
  BY <1>6, <1>7, <1>8
<1>10. /\ DOMAIN r = 1 .. n + 1 /\ \A a \in DOMAIN h : r[a] = h[a]
       /\ r[n + 1].id = id /\ r[n + 1].label = x /\ r[n + 1].cwd = cwd
  BY <1>2, <1>4, <1>7 DEF Others, Alike
<1>11. Len(r) = n + 1
  <2>1. IsSession(r)
    BY <1>1, <1>5, WithTabWithin DEF Within
  <2>2. QED
    BY <1>4, <1>10, <2>1 DEF IsSession, IsSeq
<1>12. QED
  BY <1>4, <1>9, <1>10, <1>11 DEF n

LEMMA AddedIs ==
  ASSUME NEW n \in Nat, NEW h, Sound(h, n), NEW i \in DOMAIN h, NEW tab, IsTab(tab),
         Shown(tab, n),
         \A t \in TabsIn(h) : t.id # tab.id,
         NEW r, r = WithoutTab(WithTab(h, h[i].id, tab), None)
  PROVE  TabJoins(r, h, i, Tab(tab.id, LabelGiven(tab.label, Len(h[i].tabs)), tab.focused,
         tab.layout))
<1> DEFINE g == WithTab(h, h[i].id, tab)
<1>1. Sound(g, n)
  BY NewTabSound
<1>2. \A t \in TabsIn(g) : t.id # None
  BY <1>1, IdAssumption DEF Sound, Numbered
<1>3. IsSession(h) /\ DistinctIds(h)
  BY DEF Sound, Numbered
<1>4. g = WithTab(h, h[i].id, tab) /\ r = WithoutTab(g, None)
  OBVIOUS
<1> HIDE DEF g
<1>5. r = g
  BY <1>1, <1>2, <1>4, WithoutNone
<1>6. r = WithTab(h, h[i].id, tab)
  BY <1>4, <1>5
<1>7. QED
  BY ONLY <1>3, <1>6, i \in DOMAIN h, IsTab(tab), WithTabIs

\* The one tab of the i-th workspace is u.
OnlyHas(r, h, i, u) ==
  Others(r, h, i) /\ Len(r[i].tabs) = 1 /\ DOMAIN r[i].tabs = {1} /\ TabAt(r, i, 1) = u

LEMMA ReplacedIs ==
  ASSUME NEW n \in Nat, NEW h, Sound(h, n), NEW i, NEW tab, IsTab(tab), Shown(tab, n),
         \A t \in TabsIn(h) : t.id # tab.id,
         Len(h[i].tabs) = 1, NEW old, IdAt(h, i, 1, old),
         NEW r, r = WithoutTab(WithTab(h, h[i].id, tab), old)
  PROVE  OnlyHas(r, h, i, Tab(tab.id, LabelGiven(tab.label, 1), tab.focused, tab.layout))
<1> DEFINE g == WithTab(h, h[i].id, tab)
           e == Tab(tab.id, LabelGiven(tab.label, 1), tab.focused, tab.layout)
<1>1. Sound(g, n)
  BY NewTabSound
<1>2. i \in DOMAIN h
  BY DEF IdAt, IsPlace
<1>3. IsSession(h) /\ DistinctIds(h)
  BY DEF Sound, Numbered
<1>4. g = WithTab(h, h[i].id, tab) /\ r = WithoutTab(g, old)
  OBVIOUS
<1>0. e.id = tab.id
  BY DEF Tab
<1>00. e = Tab(tab.id, LabelGiven(tab.label, Len(h[i].tabs)), tab.focused, tab.layout)
  OBVIOUS
<1> HIDE DEF g, e
<1>5. TabJoins(g, h, i, e)
  BY ONLY <1>00, <1>2, <1>3, <1>4, IsTab(tab), WithTabIs
<1>6. /\ Len(g[i].tabs) = 2 /\ DOMAIN g[i].tabs = {1, 2} /\ DOMAIN h[i].tabs = {1}
      /\ TabAt(g, i, 1) = TabAt(h, i, 1) /\ TabAt(g, i, 2) = e /\ Others(g, h, i)
  BY <1>5 DEF TabJoins
<1>8. IdAt(g, i, 1, old)
  <2>1. ASSUME NEW a \in DOMAIN g, NEW b \in DOMAIN g[a].tabs, a # i \/ b # 1
        PROVE  TabAt(g, a, b).id # old
    <3>1. CASE a # i
      <4>1. g[a] = h[a] /\ a \in DOMAIN h
        BY <1>6, <3>1 DEF Others
      <4>2. QED
        BY <3>1, <4>1 DEF IdAt, TabAt
    <3>2. CASE a = i
      <4>1. b = 2
        BY <1>6, <2>1, <3>2
      <4>2. h[i].tabs[1] \in TabsIn(h)
        BY <1>2, <1>6, SoundTabs
      <4>3. QED
        BY <1>0, <1>6, <3>2, <4>1, <4>2 DEF IdAt, TabAt
    <3>3. QED
      BY <3>1, <3>2
  <2>2. i \in DOMAIN g /\ 1 \in DOMAIN g[i].tabs /\ TabAt(g, i, 1).id = old
    BY <1>2, <1>6 DEF Others, IdAt
  <2>3. QED
    BY <2>1, <2>2 DEF IdAt, IsPlace
<1>10. TabGone(r, g, i, 1)
  <2>1. Len(g[i].tabs) > 1
    BY <1>6
  <2>2. QED
    BY ONLY <1>1, <1>4, <1>8, <2>1, n \in Nat, WithoutTabIs
<1>11. IsSeq(g[i].tabs)
  BY <1>1, <1>2, <1>6, SoundTabs DEF Others
<1> DEFINE s == g[i].tabs
           K == DOMAIN s \ {1}
           q == Keep(s, K)
<1>12. IsSeq(s) /\ 1 \in DOMAIN s /\ q = Keep(s, DOMAIN s \ {1}) /\ Len(s) = 2 /\ s[2] = e
       /\ r[i].tabs = q
  BY <1>6, <1>10, <1>11 DEF TabGone, TabAt
<1> HIDE DEF s, K, q
<1>13. IsButOne(q, s, 1)
  BY <1>12, KeepBut
<1>14. Len(q) = 1 /\ DOMAIN q = {1} /\ q[1] = e
  BY <1>12, <1>13 DEF IsButOne
<1>15. Others(r, h, i)
  BY <1>6, <1>10 DEF Others, Alike, TabGone
<1>16. QED
  BY <1>12, <1>14, <1>15 DEF e, OnlyHas, TabAt

\* r is s with e behind the first `at` elements.
IsInserted(r, s, at, e) ==
  /\ DOMAIN r = 1 .. Len(s) + 1 /\ r[at + 1] = e
  /\ \A k \in 1 .. at : r[k] = s[k]
  /\ \A k \in at + 2 .. Len(s) + 1 : r[k] = s[k - 1]

LEMMA InsertedAt ==
  ASSUME NEW s, IsSeq(s), NEW at \in 0 .. Len(s), NEW e
  PROVE  IsInserted(InsertAt(s, at + 1, e), s, at, e)
BY InsertAtIs DEF IsInserted

\* The j-th tab is at that index now, and those that were behind it have moved up.
TabMoves(r, h, i, j, index) ==
  /\ Others(r, h, i) /\ r[i].active = h[i].active /\ Len(h[i].tabs) \in Nat
  /\ Len(r[i].tabs) = Len(h[i].tabs)
  /\ DOMAIN r[i].tabs = 1 .. Len(h[i].tabs) /\ DOMAIN h[i].tabs = 1 .. Len(h[i].tabs)
  /\ TabAt(r, i, index + 1) = TabAt(h, i, j)
  /\ \A k \in 1 .. index : TabAt(r, i, k) = TabAt(h, i, k)
  /\ j = Len(h[i].tabs) => \A k \in index + 2 .. Len(h[i].tabs) : TabAt(r, i, k) = TabAt(h, i,
     k - 1)
  /\ j = index + 1 => \A k \in 1 .. Len(h[i].tabs) : TabAt(r, i, k) = TabAt(h, i, k)

LEMMA MovedIs ==
  ASSUME NEW n \in Nat, NEW h, Sound(h, n), NEW i, NEW j, NEW tab, IdAt(h, i, j, tab),
         NEW index \in 0 .. Len(h[i].tabs) - 1, j = index + 1 \/ j = Len(h[i].tabs),
         NEW r, r = Moved(h, tab, index)
  PROVE  TabMoves(r, h, i, j, index)
<1> DEFINE m == Len(h[i].tabs)
<1> SUFFICES ASSUME i \in DOMAIN h, j \in DOMAIN h[i].tabs, tab = h[i].tabs[j].id,
                    \A a \in DOMAIN h : \A b \in DOMAIN h[a].tabs : a # i
                    => h[a].tabs[b].id # tab
             PROVE  /\ Others(r, h, i) /\ r[i].active = h[i].active /\ m \in Nat
                    /\ Len(r[i].tabs) = m /\ DOMAIN r[i].tabs = 1 .. m
                       /\ DOMAIN h[i].tabs = 1 .. m
                    /\ r[i].tabs[index + 1] = h[i].tabs[j]
                    /\ \A k \in 1 .. index : r[i].tabs[k] = h[i].tabs[k]
                    /\ j = m => \A k \in index + 2 .. m : r[i].tabs[k] = h[i].tabs[k - 1]
                    /\ j = index + 1 => \A k \in 1 .. m : r[i].tabs[k] = h[i].tabs[k]
  BY DEF IdAt, IsPlace, TabAt, TabMoves
<1>0. m = Len(h[i].tabs) /\ index \in 0 .. m - 1 /\ (j = index + 1 \/ j = m)
  OBVIOUS
<1> HIDE DEF m
<1> DEFINE s     == h[i].tabs
           K     == {k \in DOMAIN s : s[k].id # tab}
           rest  == Keep(s, K)
           at    == IF index \in 0 .. Len(rest) THEN index ELSE Len(rest)
           e     == s[CHOOSE k \in DOMAIN s : s[k].id = tab]
           place == InsertAt(rest, at + 1, e)
<1>1. /\ DOMAIN r = DOMAIN h
      /\ \A a \in DOMAIN h : tab \notin IdsIn(h[a].tabs) => r[a] = h[a]
      /\ tab \in IdsIn(s) => r[i] = [h[i] EXCEPT !.tabs = place]
  BY DEF Moved
<1>2. IsWorkspace(h[i]) /\ IsSeq(s) /\ DistinctIds(s)
  BY SoundTabs
<1>3. tab \in IdsIn(s) /\ \A a \in DOMAIN h : a # i => tab \notin IdsIn(h[a].tabs)
  BY DEF IdsIn
<1>4. K = DOMAIN s \ {j} /\ e = s[j] /\ s = h[i].tabs /\ rest = Keep(s, K)
  BY <1>2 DEF DistinctIds
<1>5. at = (IF index \in 0 .. Len(rest) THEN index ELSE Len(rest))
      /\ place = InsertAt(rest, at + 1, e)
  OBVIOUS
<1> HIDE DEF s, K, e, rest, place, at
<1>6. j \in DOMAIN s /\ m = Len(s)
  BY <1>0, <1>4
<1>7. /\ IsSeq(rest) /\ Len(rest) = Len(s) - 1
      /\ Len(s) \in Nat /\ j \in 1 .. Len(s)
      /\ \A k \in 1 .. j - 1 : rest[k] = s[k]
      /\ \A k \in j .. Len(s) - 1 : rest[k] = s[k + 1]
  <2>1. IsButOne(rest, s, j)
    BY <1>2, <1>4, <1>6, KeepBut
  <2>2. QED
    BY <2>1 DEF IsButOne
<1>8. at = index /\ m \in Nat /\ index \in 0 .. m - 1 /\ at \in 0 .. Len(rest)
      /\ Len(rest) = m - 1
  BY <1>0, <1>5, <1>6, <1>7
<1>9. /\ DOMAIN place = 1 .. Len(rest) + 1 /\ place[at + 1] = e
      /\ \A k \in 1 .. at : place[k] = rest[k]
      /\ \A k \in at + 2 .. Len(rest) + 1 : place[k] = rest[k - 1]
  <2>1. IsInserted(place, rest, at, e)
    BY ONLY <1>5, <1>7, <1>8, InsertedAt
  <2>2. QED
    BY <2>1 DEF IsInserted
<1>10. IsSeq(place)
  BY ONLY <1>5, <1>7, <1>8, InsertAtIsSeq
<1>11. DOMAIN place = 1 .. m /\ Len(place) = m /\ DOMAIN s = 1 .. m
  BY <1>2, <1>6, <1>8, <1>9, <1>10 DEF IsSeq
<1>12. \A k \in 1 .. index : place[k] = s[k]
  <2>1. j > index
    BY <1>0, <1>8
  <2>2. \A k \in 1 .. index : k \in 1 .. j - 1
    BY <1>7, <1>8, <2>1
  <2>3. QED
    BY <1>7, <1>8, <1>9, <2>2
<1>13. ASSUME j = m, NEW k \in index + 2 .. m PROVE place[k] = s[k - 1]
  <2>1. k - 1 \in 1 .. j - 1 /\ k \in at + 2 .. Len(rest) + 1
    BY <1>8, <1>13
  <2>2. QED
    BY <1>7, <1>9, <2>1
<1>14. ASSUME j = index + 1, NEW k \in 1 .. m PROVE place[k] = s[k]
  <2>1. CASE k \in 1 .. index
    BY <1>12, <2>1
  <2>2. CASE k = index + 1
    BY <1>4, <1>8, <1>9, <1>14, <2>2
  <2>3. CASE k > index + 1
    <3>1. k - 1 \in j .. Len(s) - 1 /\ k \in at + 2 .. Len(rest) + 1 /\ (k - 1) + 1 = k
      BY <1>6, <1>8, <1>14, <2>3
    <3>2. place[k] = rest[k - 1] /\ rest[k - 1] = s[(k - 1) + 1]
      BY <1>7, <1>9, <3>1
    <3>3. QED
      BY <3>1, <3>2
  <2>4. QED
    BY <1>8, <2>1, <2>2, <2>3
<1>15. Alike(r[i], h[i]) /\ r[i].active = h[i].active /\ r[i].tabs = place
  <2> DEFINE w == h[i]
             u == r[i]
  <2>1. IsWorkspace(w) /\ u = [w EXCEPT !.tabs = place]
    BY <1>1, <1>2, <1>3
  <2> HIDE DEF w, u
  <2>2. Alike(u, w) /\ u.active = w.active /\ u.tabs = place
    BY ONLY <2>1, TabsReplaced
  <2>3. QED
    BY <2>2 DEF w, u
<1>16. Others(r, h, i)
  BY <1>1, <1>3, <1>15 DEF Others
<1>17. place[index + 1] = s[j]
  BY <1>4, <1>8, <1>9
<1>18. QED
  BY <1>4, <1>8, <1>11, <1>12, <1>13, <1>14, <1>15, <1>16, <1>17

(***************************************************************************)
(* Layouts but for the ids of their panes.                                 *)
(***************************************************************************)
\* The same split, or panes in the same directory.
LookAlike(a, b) ==
  a = b \/ \E x, y, cwd : a = Pane(x, cwd) /\ b = Pane(y, cwd)

LEMMA StripSame ==
  ASSUME NEW a, NEW b, DOMAIN a = DOMAIN b, \A p \in DOMAIN b : LookAlike(a[p], b[p])
  PROVE  strip_pane_ids(a) = strip_pane_ids(b)
<1> DEFINE bare(c, p) == IF p \in Leaves(c) THEN [c[p] EXCEPT !.pane_id = None] ELSE c[p]
<1>1. ASSUME NEW p \in DOMAIN b PROVE bare(a, p) = bare(b, p)
  <2>1. CASE a[p] = b[p]
    BY <2>1 DEF Leaves
  <2>2. CASE a[p] # b[p]
    <3>1. PICK x, y, cwd : a[p] = Pane(x, cwd) /\ b[p] = Pane(y, cwd)
      BY <2>2 DEF LookAlike
    <3>2. p \in Leaves(a) /\ p \in Leaves(b)
      BY <3>1 DEF Leaves, Pane
    <3>3. [a[p] EXCEPT !.pane_id = None] = Pane(None, cwd)
          /\ [b[p] EXCEPT !.pane_id = None] = Pane(None, cwd)
      BY <3>1 DEF Pane
    <3>4. QED
      BY <3>2, <3>3
  <2>3. QED
    BY <2>1, <2>2
<1>2. strip_pane_ids(a) = [p \in DOMAIN b |-> bare(a, p)]
      /\ strip_pane_ids(b) = [p \in DOMAIN b |-> bare(b, p)]
  BY DEF strip_pane_ids
<1> HIDE DEF bare
<1>3. QED
  BY <1>1, <1>2

\* layout.apply rebuilds the layout it is given.
LEMMA StripFilled ==
  ASSUME NEW layout, IsLayout(layout), NEW n \in Nat
  PROVE  strip_pane_ids(Filled(strip_pane_ids(layout), n)) = strip_pane_ids(layout)
<1> DEFINE root == strip_pane_ids(layout)
           full == Filled(root, n)
<1>1. IsLayout(root) /\ Leaves(root) = Leaves(layout) /\ DOMAIN root = DOMAIN layout
  BY StripIsLayout DEF strip_pane_ids
<1>2. IsLayout(full) /\ Leaves(full) = Leaves(root) /\ DOMAIN full = DOMAIN root
  <2> HIDE DEF root
  <2>1. QED
    BY <1>1, FilledIsLayout DEF Filled
<1>3. ASSUME NEW p \in DOMAIN layout PROVE LookAlike(full[p], layout[p])
  <2>1. CASE p \notin Leaves(layout)
    <3>1. root[p] = layout[p]
      BY <2>1 DEF strip_pane_ids
    <3>2. full[p] = root[p]
      <4> HIDE DEF root
      <4>1. QED
        BY <1>1, <2>1 DEF Filled
    <3>3. QED
      BY <3>1, <3>2 DEF LookAlike
  <2>2. CASE p \in Leaves(layout)
    <3> DEFINE cwd == layout[p].cwd
    <3>1. layout[p] = Pane(layout[p].pane_id, cwd)
      BY <2>2 DEF IsLayout
    <3>2. root[p] = Pane(None, cwd)
      <4>1. root[p] = [layout[p] EXCEPT !.pane_id = None]
        BY <2>2 DEF strip_pane_ids
      <4> HIDE DEF cwd
      <4>2. QED
        BY <3>1, <4>1 DEF Pane
    <3> HIDE DEF cwd
    <3>3. \E x : full[p] = Pane(x, cwd)
      <4> HIDE DEF root
      <4> DEFINE x == n - 1 + (CHOOSE k \in DOMAIN leaves(root) : leaves(root)[k] = p)
      <4>1. full[p] = [root[p] EXCEPT !.pane_id = x]
        BY <1>1, <2>2 DEF Filled
      <4> HIDE DEF x
      <4>2. full[p] = Pane(x, cwd)
        BY <3>2, <4>1 DEF Pane
      <4>3. QED
        BY <4>2
    <3>4. QED
      BY <3>1, <3>3 DEF LookAlike
  <2>3. QED
    BY <2>1, <2>2
<1> HIDE DEF root, full
<1>4. DOMAIN full = DOMAIN layout
  BY <1>1, <1>2
<1>5. strip_pane_ids(full) = strip_pane_ids(layout)
  BY <1>3, <1>4, StripSame
<1>6. QED
  BY <1>5 DEF full, root

(***************************************************************************)
(* A closed pane's place beside its sibling, and the way back there.       *)
(***************************************************************************)
IsBesideOne(layout, pane) == \E f \in locate(layout, pane) : DOMAIN f.sibling = {<< >>}

\* The pane's split, its side of it and the other child.
PlaceOf(layout, pane, path, top, side, rest) ==
  /\ path = PathOf(layout, pane) /\ top = Parent(path) /\ side = Side(path)
  /\ rest = Append(top, Other(side))

LEMMA PlaceIs ==
  ASSUME NEW layout, IsLayout(layout), PanesApart(layout), IsBinary(layout),
         NEW pane \in PaneIds(layout), PaneIds(layout) # {pane},
         NEW path, NEW top, NEW side, NEW rest, PlaceOf(layout, pane, path, top, side, rest)
  PROVE  /\ path \in Leaves(layout) /\ layout[path].pane_id = pane
         /\ path \in Paths /\ top \in Paths /\ rest \in Paths
         /\ side \in {First, Second} /\ Other(side) \in {First, Second} /\ Other(side) # side
         /\ path = Append(top, side)
         /\ path # top /\ rest # top /\ path # rest /\ path # << >>
         /\ top \in DOMAIN layout
            /\ layout[top] = Split(layout[top].direction, layout[top].ratio)
         /\ rest \in DOMAIN layout /\ DOMAIN layout \subseteq Paths
<1> DEFINE D == DOMAIN layout
           L == Leaves(layout)
<1>1. path \in L /\ layout[path].pane_id = pane
  BY PathIsLeaf DEF PlaceOf
<1>2. D \subseteq Paths /\ L \subseteq D
  BY DEF IsLayout, Leaves, Paths
<1>3. \A p \in L : \A q \in D : Below(p, q) => q = p
  BY DEF IsLayout
<1>4. PICK o \in L : o # path
  <2>1. PICK id \in PaneIds(layout) : id # pane
    BY DEF PaneIds
  <2>2. PICK o \in L : layout[o].pane_id = id
    BY <2>1 DEF PaneIds
  <2>3. QED
    BY <1>1, <2>1, <2>2
<1>5. path \in Paths /\ Len(path) # 0
  <2>1. Len(path) = 0 => Below(path, o)
    BY <1>1, <1>2, <1>4, PathIsSeq, BelowIs
  <2>2. QED
    BY <1>1, <1>2, <1>3, <1>4, <2>1
<1>6. /\ top \in Paths /\ side \in {First, Second} /\ Other(side) \in {First, Second}
      /\ Other(side) # side /\ path = Append(top, side)
  BY <1>5, ChildOfParent DEF PlaceOf
<1>7. path # << >>
  BY <1>5
<1>8. rest = Append(top, Other(side))
  BY DEF PlaceOf
<1>9. path # top /\ Below(top, path) /\ rest # top /\ rest \in Paths
  BY <1>6, <1>8, BelowChild, ChildIs
<1>10. path # rest
  BY <1>6, <1>8, ChildIs
<1>11. top \in D
  BY <1>1, <1>2, <1>7 DEF IsBinary, PlaceOf
<1>12. top \notin L
  BY <1>1, <1>2, <1>3, <1>9
<1>13. /\ layout[top] = Split(layout[top].direction, layout[top].ratio)
       /\ Append(top, First) \in D /\ Append(top, Second) \in D
  BY <1>11, <1>12 DEF IsBinary
<1>14. rest \in D
  BY <1>6, <1>8, <1>13
<1> QED
  BY <1>1, <1>2, <1>5, <1>6, <1>7, <1>9, <1>10, <1>11, <1>13, <1>14

LEMMA LocateIs ==
  ASSUME NEW layout, IsLayout(layout), PanesApart(layout), IsBinary(layout),
         NEW pane \in PaneIds(layout), PaneIds(layout) # {pane},
         NEW path, NEW top, NEW side, NEW rest, PlaceOf(layout, pane, path, top, side, rest)
  PROVE  locate(layout, pane) = {[direction |-> layout[top].direction,
         ratio |-> layout[top].ratio,
                                  side |-> side, sibling |-> Subtree(layout, rest)]}
<1>1. path \in Leaves(layout) /\ layout[path].pane_id = pane /\ path # << >>
  BY PlaceIs
<1>2. {q \in Leaves(layout) : layout[q].pane_id = pane /\ q # << >>} = {path}
  BY <1>1 DEF PanesApart
<1>3. top = Parent(path) /\ side = Side(path) /\ rest = Append(Parent(path), Other(Side(path)))
  BY DEF PlaceOf
<1> QED
  BY <1>2, <1>3 DEF locate

LEMMA EmptyPath ==
  ASSUME NEW p \in Paths
  PROVE  p \o << >> = p /\ << >> \in Paths /\ From(p, p) = << >> /\ Below(p, p)
<1>1. << >> \in Paths /\ << >> \in Seq({})
  BY DEF Paths
<1>2. p \o << >> = p
  BY DEF Paths
<1>3. Below(p, p \o << >>) /\ From(p, p \o << >>) = << >>
  BY <1>1, BelowIsConcat
<1> QED
  BY <1>1, <1>2, <1>3

\* The sibling is one pane: it is what the rest of the split holds.
LEMMA SiblingIs ==
  ASSUME NEW layout, IsLayout(layout), PanesApart(layout), IsBinary(layout),
         NEW pane \in PaneIds(layout), PaneIds(layout) # {pane}, IsBesideOne(layout, pane),
         NEW path, NEW top, NEW side, NEW rest, PlaceOf(layout, pane, path, top, side, rest)
  PROVE  /\ rest \in Leaves(layout)
         /\ \A q \in DOMAIN layout : Below(top, q) <=> q \in {top, path, rest}
         /\ Subtree(layout, rest) = [x \in {<< >>} |-> layout[rest]]
<1> DEFINE D == DOMAIN layout
           L == Leaves(layout)
           up == Subtree(layout, rest)
<1>1. /\ path \in L /\ path \in Paths /\ top \in Paths /\ rest \in Paths
      /\ side \in {First, Second} /\ Other(side) \in {First, Second} /\ Other(side) # side
      /\ path = Append(top, side) /\ path # top /\ rest # top /\ path # rest
      /\ top \in D /\ rest \in D /\ D \subseteq Paths
  BY PlaceIs
<1>2. rest = Append(top, Other(side))
  BY DEF PlaceOf
<1>3. \A p \in L : \A q \in D : Below(p, q) => q = p
  BY DEF IsLayout
<1>4. DOMAIN up = {<< >>}
  <2>1. \A f \in locate(layout, pane) : f.sibling = up
    BY LocateIs
  <2> QED
    BY <2>1 DEF IsBesideOne
<1>5. /\ DOMAIN up = {From(rest, q) : q \in {r \in D : Below(rest, r)}}
      /\ up = [x \in DOMAIN up |-> layout[rest \o x]]
  BY DEF Subtree
<1> HIDE DEF up
<1>6. ASSUME NEW q \in D, Below(rest, q) PROVE q = rest
  <2>1. From(rest, q) = << >>
    BY <1>4, <1>5, <1>6
  <2>2. q = rest \o From(rest, q)
    BY <1>1, <1>6, BelowIsConcat
  <2> QED
    BY <1>1, <2>1, <2>2, EmptyPath
<1>7. rest \in L
  <2> SUFFICES ASSUME rest \notin L PROVE FALSE
    OBVIOUS
  <2>1. Append(rest, First) \in D
    BY <1>1 DEF IsBinary
  <2>2. Below(rest, Append(rest, First)) /\ Append(rest, First) # rest
    BY <1>1, BelowChild
  <2> QED
    BY <1>6, <2>1, <2>2
<1>8. ASSUME NEW q \in D PROVE Below(top, q) <=> q \in {top, path, rest}
  <2>1. Below(top, top) /\ Below(top, path) /\ Below(top, rest)
    BY <1>1, <1>2, BelowChild, EmptyPath
  <2>2. ASSUME Below(top, q), q # top PROVE q \in {path, rest}
    <3>1. q \in Paths
      BY <1>1
    <3>2. PICK s \in {First, Second} : Below(Append(top, s), q)
      BY <1>1, <2>2, <3>1, BelowSomeChild
    <3>3. s = side \/ s = Other(side)
      BY <1>1
    <3>4. Below(path, q) \/ Below(rest, q)
      BY <1>1, <1>2, <3>2, <3>3
    <3> QED
      BY <1>1, <1>3, <1>6, <3>4
  <2> QED
    BY <2>1, <2>2
<1>9. up = [x \in {<< >>} |-> layout[rest]]
  <2>1. rest \o << >> = rest
    BY <1>1, EmptyPath
  <2> QED
    BY <1>4, <1>5, <2>1
<1> QED
  BY <1>7, <1>8, <1>9 DEF up

\* The rest is where the split was.
IsClosedUp(left, layout, path, top, rest) ==
  /\ DOMAIN left = DOMAIN layout \ {path, rest} /\ left[top] = layout[rest]
  /\ \A q \in DOMAIN left : q # top => left[q] = layout[q]

LEMMA ClosedUp ==
  ASSUME NEW layout, IsLayout(layout), PanesApart(layout), IsBinary(layout),
         NEW pane \in PaneIds(layout), PaneIds(layout) # {pane}, IsBesideOne(layout, pane),
         NEW path, NEW top, NEW side, NEW rest, PlaceOf(layout, pane, path, top, side, rest),
         NEW left, left = Closed(layout, pane)
  PROVE  IsClosedUp(left, layout, path, top, rest)
<1> DEFINE D == DOMAIN layout
           up == Subtree(layout, rest)
           kept == {q \in D : ~Below(top, q)}
<1>1. /\ path \in D /\ top \in Paths /\ path # top /\ rest # top /\ path # rest /\ top \in D
  BY PlaceIs DEF Leaves
<1>2. /\ \A q \in D : Below(top, q) <=> q \in {top, path, rest}
      /\ up = [x \in {<< >>} |-> layout[rest]]
  BY SiblingIs
<1>3. /\ DOMAIN left = kept \cup {top \o q : q \in DOMAIN up}
      /\ \A q \in DOMAIN left : left[q] = IF q \in kept THEN layout[q] ELSE up[From(top, q)]
  <2>1. left = [q \in kept \cup {top \o x : x \in DOMAIN up} |->
                  IF q \in kept THEN layout[q] ELSE up[From(top, q)]]
    BY DEF Closed, PlaceOf
  <2> HIDE DEF kept, up
  <2> QED
    BY <2>1
<1>4. DOMAIN up = {<< >>} /\ up[<< >>] = layout[rest]
  BY <1>2
<1>5. top \o << >> = top /\ From(top, top) = << >> /\ Below(top, top)
  BY <1>1, EmptyPath
<1> HIDE DEF up
<1>6. DOMAIN left = kept \cup {top}
  BY <1>3, <1>4, <1>5
<1>7. kept \cup {top} = D \ {path, rest}
  BY <1>1, <1>2
<1>8. top \notin kept
  BY <1>5
<1> HIDE DEF kept
<1>9. left[top] = layout[rest]
  BY <1>3, <1>4, <1>5, <1>6, <1>8
<1>10. \A q \in DOMAIN left : q # top => left[q] = layout[q]
  BY <1>3, <1>6
<1> QED
  BY <1>6, <1>7, <1>9, <1>10 DEF IsClosedUp

LEMMA PathOfPane ==
  ASSUME NEW layout, PanesApart(layout), NEW p \in DOMAIN layout, layout[p].type = "pane"
  PROVE  PathOf(layout, layout[p].pane_id) = p /\ layout[p].pane_id \in PaneIds(layout)
         /\ p \in Leaves(layout)
<1>1. p \in Leaves(layout)
  BY DEF Leaves
<1>2. layout[p].pane_id \in PaneIds(layout)
  BY <1>1 DEF PaneIds
<1>3. PathOf(layout, layout[p].pane_id) \in Leaves(layout)
      /\ layout[PathOf(layout, layout[p].pane_id)].pane_id = layout[p].pane_id
  BY <1>2, PathIsLeaf
<1> QED
  BY <1>1, <1>2, <1>3 DEF PanesApart

LEMMA PaneFields == \A id, cwd : Pane(id, cwd).type = "pane" /\ Pane(id, cwd).pane_id = id
/\ Pane(id, cwd).cwd = cwd
  BY DEF Pane

\* The node is beside what is left of the split, in its place.
IsSplitAgain(new, layout, path, top, rest, node) ==
  /\ DOMAIN new = DOMAIN layout /\ new[top] = layout[top]
  /\ \A q \in DOMAIN layout : q \notin {top, path, rest} => new[q] = layout[q]
  /\ new[Append(top, First)] = layout[rest] /\ new[Append(top, Second)] = node

\* The split beside the pane that moved up has the old split's place.
LEMMA SplitBeside ==
  ASSUME NEW layout, IsLayout(layout), PanesApart(layout), IsBinary(layout),
         NEW pane \in PaneIds(layout), PaneIds(layout) # {pane}, IsBesideOne(layout, pane),
         NEW path, NEW top, NEW side, NEW rest, PlaceOf(layout, pane, path, top, side, rest),
         NEW left, left = Closed(layout, pane), NEW target, target = layout[rest].pane_id,
         NEW node, NEW new,
         new = SplitAt(left, target, layout[top].direction, layout[top].ratio, node)
  PROVE  target \in PaneIds(left) /\ IsSplitAgain(new, layout, path, top, rest, node)
<1> DEFINE D == DOMAIN layout
           one == Append(top, First)
           two == Append(top, Second)
<1>1. /\ path \in Leaves(layout) /\ top \in Paths /\ top \in D /\ path \in D /\ rest \in D
      /\ side \in {First, Second} /\ Other(side) \in {First, Second} /\ Other(side) # side
      /\ path = Append(top, side) /\ path # top /\ rest # top /\ path # rest
      /\ layout[top] = Split(layout[top].direction, layout[top].ratio)
  BY PlaceIs DEF Leaves
<1>2. rest = Append(top, Other(side))
  BY DEF PlaceOf
<1>3. {path, rest} = {one, two}
  BY <1>1, <1>2
<1>4. one # two
  BY <1>1, <1>2
<1>5. /\ DOMAIN left = D \ {path, rest} /\ left[top] = layout[rest]
      /\ \A q \in DOMAIN left : q # top => left[q] = layout[q]
  <2>1. IsClosedUp(left, layout, path, top, rest)
    BY ClosedUp
  <2> QED
    BY <2>1 DEF IsClosedUp
<1>6. IsLayout(left) /\ PanesApart(left)
  BY ClosedIsLayout
<1>7. rest \in Leaves(layout)
  BY SiblingIs
<1>8. top \in DOMAIN left /\ left[top].type = "pane" /\ left[top].pane_id = target
  BY <1>1, <1>5, <1>7 DEF Leaves
<1>9. PathOf(left, target) = top /\ target \in PaneIds(left)
  BY <1>6, <1>8, PathOfPane
<1> HIDE DEF one, two
<1>10. new = [p \in DOMAIN left \cup {one, two} |->
                CASE p = top -> Split(layout[top].direction, layout[top].ratio)
                  [] p = one -> left[top]
                  [] p = two -> node
                  [] OTHER -> left[p]]
  BY <1>9 DEF SplitAt, one, two
<1>11. DOMAIN left \cup {one, two} = D
  BY <1>1, <1>3, <1>5
<1>12. DOMAIN new = D
  BY <1>10, <1>11
<1>13. top # one /\ top # two /\ one \in D /\ two \in D
  BY <1>1, <1>3
<1>14. new[top] = layout[top] /\ new[one] = left[top] /\ new[two] = node
  BY <1>1, <1>4, <1>10, <1>11, <1>13
<1>15. ASSUME NEW q \in D, q \notin {top, path, rest} PROVE new[q] = layout[q]
  <2>1. q # top /\ q # one /\ q # two /\ q \in DOMAIN left
    BY <1>3, <1>5, <1>15
  <2>2. new[q] = left[q]
    BY <1>10, <2>1
  <2> QED
    BY <1>5, <2>1, <2>2
<1> QED
  BY <1>5, <1>9, <1>12, <1>14, <1>15 DEF one, two, IsSplitAgain

LEMMA PutBack ==
  ASSUME NEW layout, IsLayout(layout), PanesApart(layout), IsBinary(layout),
         NEW pane \in PaneIds(layout), PaneIds(layout) # {pane}, IsBesideOne(layout, pane),
         NEW path, NEW top, NEW side, NEW rest, PlaceOf(layout, pane, path, top, side, rest),
         NEW left, left = Closed(layout, pane), NEW target, target = layout[rest].pane_id,
         NEW id, id \notin PaneIds(left), NEW new,
         new = SplitAt(left, target, layout[top].direction, layout[top].ratio,
         Pane(id, layout[path].cwd))
  PROVE  /\ side = Second => strip_pane_ids(new) = strip_pane_ids(layout)
         /\ side = First => strip_pane_ids(Swapped(new, id, target)) = strip_pane_ids(layout)
<1> DEFINE D == DOMAIN layout
           node == Pane(id, layout[path].cwd)
<1>1. /\ path \in Leaves(layout) /\ path \in D /\ rest \in D /\ top \in D
      /\ side \in {First, Second} /\ Other(side) # side /\ Other(side) \in {First, Second}
      /\ path = Append(top, side) /\ path # top /\ rest # top /\ path # rest
  BY PlaceIs DEF Leaves
<1>2. rest = Append(top, Other(side))
  BY DEF PlaceOf
<1>3. /\ target \in PaneIds(left) /\ DOMAIN new = D /\ new[top] = layout[top]
      /\ \A q \in D : q \notin {top, path, rest} => new[q] = layout[q]
      /\ new[Append(top, First)] = layout[rest] /\ new[Append(top, Second)] = node
  <2>1. target \in PaneIds(left) /\ IsSplitAgain(new, layout, path, top, rest, node)
    BY SplitBeside
  <2> QED
    BY <2>1 DEF IsSplitAgain
<1>4. LookAlike(node, layout[path])
  <2>1. layout[path] = Pane(layout[path].pane_id, layout[path].cwd)
    BY <1>1 DEF IsLayout
  <2> QED
    BY <2>1 DEF LookAlike
<1>5. \A x : LookAlike(x, x)
  BY DEF LookAlike
<1> HIDE DEF node
<1>6. CASE side = Second
  <2>1. new[path] = node /\ new[rest] = layout[rest]
    BY <1>1, <1>2, <1>3, <1>6
  <2>2. \A q \in D : LookAlike(new[q], layout[q])
    BY <1>3, <1>4, <1>5, <2>1
  <2>3. strip_pane_ids(new) = strip_pane_ids(layout)
    BY <1>3, <2>2, StripSame
  <2> QED
    BY <1>6, <2>3 DEF First, Second
<1>7. CASE side = First
  <2>1. new[rest] = node /\ new[path] = layout[rest]
    BY <1>1, <1>2, <1>3, <1>7
  <2>2. IsLayout(left) /\ PanesApart(left)
    BY ClosedIsLayout
  <2>3. PanesApart(new)
    BY <1>3, <2>2, SplitIsLayout
  <2>4. rest \in Leaves(layout) /\ layout[rest].type = "pane"
    BY SiblingIs DEF Leaves
  <2>5. node.type = "pane" /\ node.pane_id = id
    BY PaneFields DEF node
  <2>6. PathOf(new, id) = rest
    BY <1>1, <1>3, <2>1, <2>3, <2>5, PathOfPane
  <2>7. PathOf(new, target) = path
    <3>1. new[path].type = "pane" /\ new[path].pane_id = target /\ path \in DOMAIN new
      BY <1>1, <1>3, <2>1, <2>4
    <3> QED
      BY <2>3, <3>1, PathOfPane
  <2> DEFINE back == Swapped(new, id, target)
  <2>8. back = [new EXCEPT ![rest] = new[path], ![path] = new[rest]]
    BY <2>6, <2>7 DEF Swapped
  <2>9. DOMAIN back = D /\ back[rest] = layout[rest] /\ back[path] = node
        /\ \A q \in D : q \notin {path, rest} => back[q] = new[q]
    BY <1>1, <1>3, <2>1, <2>8
  <2> HIDE DEF back
  <2>10. \A q \in D : LookAlike(back[q], layout[q])
    BY <1>3, <1>4, <1>5, <2>9
  <2>11. strip_pane_ids(back) = strip_pane_ids(layout)
    BY <2>9, <2>10, StripSame
  <2> QED
    BY <1>7, <2>11 DEF back, First, Second
<1> QED
  BY <1>1, <1>6, <1>7

LEMMA OneList ==
  ASSUME NEW f, f = [k \in 1 .. 1 |-> f[k]]
  PROVE  f = <<f[1]>>
<1>1. IsSeq(f) /\ Len(f) = 1
  BY ListIsSeq
<1>2. <<f[1]>> \in Seq({f[1]}) /\ Len(<<f[1]>>) = 1 /\ <<f[1]>>[1] = f[1]
  OBVIOUS
<1>3. f \in Seq(Range(f)) /\ f[1] \in Range(f)
  <2>1. f \in Seq(Range(f))
    BY <1>1 DEF IsSeq
  <2>2. 1 \in DOMAIN f
    OBVIOUS
  <2> QED
    BY <2>1, <2>2 DEF Range
<1>4. <<f[1]>> \in Seq(Range(f))
  BY <1>3
<1>5. \A k \in 1 .. Len(f) : f[k] = <<f[1]>>[k]
  BY <1>1
<1> QED
  BY <1>1, <1>2, <1>3, <1>4, <1>5, SameSeq

LEMMA LeafPanes ==
  ASSUME NEW id, NEW cwd
  PROVE  leaf_pane_ids(Leaf(id, cwd)) = <<id>>
<1> DEFINE l == Leaf(id, cwd)
<1>1. DOMAIN l = {<< >>} /\ l[<< >>] = Pane(id, cwd)
  BY DEF Leaf
<1>2. IsLayout(l)
  BY LeafIsLayout
<1> HIDE DEF l
<1>3. Leaves(l) = {<< >>}
  BY <1>1, PaneFields DEF Leaves
<1>4. Cardinality(Leaves(l)) = 1
  BY <1>3, FS_Singleton
<1>5. DOMAIN leaves(l) = 1 .. 1 /\ leaves(l)[1] = << >>
  <2>1. DOMAIN leaves(l) = 1 .. 1 /\ \A k \in DOMAIN leaves(l) : leaves(l)[k] \in Leaves(l)
    BY <1>2, <1>4, LeavesAreListed
  <2> QED
    BY <1>3, <2>1
<1> DEFINE f == leaf_pane_ids(l)
<1>6. f = [k \in 1 .. 1 |-> l[leaves(l)[k]].pane_id]
  BY <1>5 DEF leaf_pane_ids
<1>7. f = [k \in 1 .. 1 |-> f[k]] /\ f[1] = l[leaves(l)[1]].pane_id
  BY <1>6
<1>8. l[leaves(l)[1]].pane_id = id
  BY <1>1, <1>5, PaneFields
<1> HIDE DEF f
<1>9. f = <<f[1]>>
  BY <1>7, OneList
<1> QED
  BY <1>7, <1>8, <1>9 DEF f, l

\* The panes of a subtree are listed.
LEMMA SubtreeList ==
  ASSUME NEW layout, IsLayout(layout), NEW top
  PROVE  IsSeq(leaf_pane_ids(Subtree(layout, top)))
<1> DEFINE sub == Subtree(layout, top)
           f == leaf_pane_ids(sub)
           n == Cardinality(Leaves(sub))
           B == {r \in DOMAIN layout : Below(top, r)}
<1>1. IsFiniteSet(DOMAIN sub)
  <2>1. IsFiniteSet(B)
    BY FS_Subset DEF IsLayout
  <2>2. DOMAIN sub = {From(top, q) : q \in B}
    BY DEF Subtree
  <2> DEFINE g == [q \in B |-> From(top, q)]
             S == {g[q] : q \in B}
  <2>3. g \in Surjection(B, S)
    BY DEF Surjection
  <2>4. S = DOMAIN sub
    BY <2>2
  <2> HIDE DEF g, S, B
  <2>5. IsFiniteSet(S)
    BY <2>1, <2>3, FS_Surjection
  <2> QED
    BY <2>4, <2>5
<1>2. n \in Nat
  <2>1. Leaves(sub) \subseteq DOMAIN sub
    BY DEF Leaves
  <2>2. IsFiniteSet(Leaves(sub))
    BY <1>1, <2>1, FS_Subset
  <2> QED
    BY <2>2, FS_CardinalityType
<1> HIDE DEF sub
<1>3. DOMAIN leaves(sub) = 1 .. n
  BY DEF leaves
<1>4. f = [k \in 1 .. n |-> f[k]]
  BY <1>3 DEF leaf_pane_ids
<1> HIDE DEF f, n
<1>5. IsSeq(f)
  BY <1>2, <1>4, ListIsSeq
<1> QED
  BY <1>5 DEF f, sub

LEMMA SplitCall ==
  ASSUME NEW layout, IsLayout(layout), PanesApart(layout), IsBinary(layout),
         NEW pane \in PaneIds(layout), PaneIds(layout) # {pane},
         NEW path, NEW top, NEW side, NEW rest, PlaceOf(layout, pane, path, top, side, rest),
         NEW tab, tab.layout = layout, NEW panes, NEW first \in panes,
         NEW c, c = split_beside(tab, pane, first, panes)
  PROVE  /\ c.call = "pane.split" /\ c.pane = pane /\ c.cwd = layout[path].cwd
            /\ c.target \in panes
         /\ IsBesideOne(layout, pane) /\ layout[rest].pane_id \in panes =>
              /\ c.target = layout[rest].pane_id /\ c.direction = layout[top].direction
              /\ c.ratio = layout[top].ratio /\ (c.swap <=> side = First)
<1> DEFINE sub      == Subtree(layout, rest)
           f        == [direction |-> layout[top].direction, ratio |-> layout[top].ratio,
                        side |-> side, sibling |-> sub]
           siblings == leaf_pane_ids(sub)
           K        == {k \in DOMAIN siblings : siblings[k] \in panes}
           there    == Keep(siblings, K)
           anchor   == IF there = << >> THEN first ELSE there[1]
           single   == siblings = <<anchor>>
<1>1. locate(layout, pane) = {f}
  BY LocateIs
<1>2. f.direction = layout[top].direction /\ f.ratio = layout[top].ratio /\ f.side = side
      /\ f.sibling = sub
  OBVIOUS
<1> HIDE DEF f
<1>3. (IF locate(layout, pane) = {} THEN [direction |-> "right", ratio |-> 5, side |-> Second,
      sibling |-> << >>]
       ELSE CHOOSE x \in locate(layout, pane) : TRUE) = f
  BY <1>1
<1>4. path = PathOf(layout, pane)
  BY DEF PlaceOf
<1>5. split_beside(tab, pane, first, panes) =
        [call |-> "pane.split", target |-> anchor, direction |-> f.direction,
         ratio |-> IF f.side = First /\ ~single THEN Complement(f.ratio) ELSE f.ratio,
         pane |-> pane, cwd |-> tab.layout[PathOf(tab.layout, pane)].cwd,
         swap |-> f.side = First /\ single]
  <2> DEFINE place == IF locate(layout, pane) = {} THEN [direction |-> "right", ratio |-> 5,
      side |-> Second, sibling |-> << >>]
                      ELSE CHOOSE x \in locate(layout, pane) : TRUE
  <2>1. place = f
    BY <1>3
  <2>2. split_beside(tab, pane, first, panes) =
      LET sib    == leaf_pane_ids(place.sibling)
          th     == Keep(sib, {k \in DOMAIN sib : sib[k] \in panes})
          an     == IF th = << >> THEN first ELSE th[1]
          one    == sib = <<an>>
      IN [call |-> "pane.split", target |-> an, direction |-> place.direction,
         ratio |-> IF place.side = First /\ ~one THEN Complement(place.ratio) ELSE place.ratio,
         pane |-> pane, cwd |-> tab.layout[PathOf(tab.layout, pane)].cwd,
         swap |-> place.side = First /\ one]
    BY DEF split_beside
  <2> HIDE DEF place
  <2> QED
    BY <2>1, <2>2, <1>2
<1>6. anchor \in panes
  <2>1. CASE there = << >>
    BY <2>1
  <2>2. CASE there # << >>
    <3>1. IsSeq(siblings)
      BY SubtreeList
    <3> HIDE DEF siblings
    <3>0. K \in SUBSET DOMAIN siblings
      OBVIOUS
    <3>a. \A k \in K : siblings[k] \in panes
      OBVIOUS
    <3> HIDE DEF K
    <3>b. IsSeq(there)
      BY <3>0, <3>1, KeepIsSeq
    <3>c. \A j \in DOMAIN there : \E k \in K : there[j] = siblings[k]
      BY <3>0, <3>1, KeepIds
    <3>2. IsSeq(there) /\ \A j \in DOMAIN there : \E k \in K : there[j] = siblings[k]
      BY <3>b, <3>c
    <3> HIDE DEF there
    <3>3. 1 \in DOMAIN there
      BY <2>2, <3>2 DEF IsSeq
    <3>4. there[1] \in panes
      BY <3>2, <3>3, <3>a
    <3> QED
      BY <2>2, <3>4
  <2> QED
    BY <2>1, <2>2
<1> HIDE DEF anchor, single
<1>7. /\ c.call = "pane.split" /\ c.pane = pane
         /\ c.cwd = tab.layout[PathOf(tab.layout, pane)].cwd
      /\ c.target = anchor /\ c.direction = f.direction /\ (c.swap <=> f.side = First /\ single)
      /\ c.ratio = (IF f.side = First /\ ~single THEN Complement(f.ratio) ELSE f.ratio)
  <2> DEFINE ratio == IF f.side = First /\ ~single THEN Complement(f.ratio) ELSE f.ratio
             cwd   == tab.layout[PathOf(tab.layout, pane)].cwd
             swap  == f.side = First /\ single
  <2>1. c = [call |-> "pane.split", target |-> anchor, direction |-> f.direction,
             ratio |-> ratio, pane |-> pane, cwd |-> cwd, swap |-> swap]
    BY <1>5
  <2> HIDE DEF ratio, cwd, swap
  <2>2. /\ c.call = "pane.split" /\ c.pane = pane /\ c.cwd = cwd /\ c.target = anchor
        /\ c.direction = f.direction /\ c.ratio = ratio
    BY ONLY <2>1
  <2>3. c.swap = swap
    BY ONLY <2>1
  <2> QED
    BY <2>2, <2>3 DEF ratio, cwd, swap
<1>8. ASSUME IsBesideOne(layout, pane), layout[rest].pane_id \in panes
      PROVE  anchor = layout[rest].pane_id /\ single
  <2> DEFINE target == layout[rest].pane_id
  <2>1. sub = [x \in {<< >>} |-> layout[rest]] /\ rest \in Leaves(layout)
    BY <1>8, SiblingIs
  <2>2. layout[rest] = Pane(target, layout[rest].cwd)
    BY <2>1 DEF IsLayout
  <2>3. sub = Leaf(target, layout[rest].cwd)
    BY <2>1, <2>2 DEF Leaf
  <2> HIDE DEF sub
  <2>4. siblings = <<target>>
    BY <2>3, LeafPanes
  <2> HIDE DEF siblings, target
  <2>5. IsSeq(siblings) /\ DOMAIN siblings = {1} /\ siblings[1] = target
    BY <2>4, OneIsSeq
  <2>6. K = DOMAIN siblings
    BY <1>8, <2>5 DEF target
  <2>7. there = <<target>>
    BY <2>4, <2>5, <2>6, KeepAll
  <2> HIDE DEF there
  <2>8. anchor = target
    BY <2>7 DEF anchor
  <2> QED
    BY <2>4, <2>8 DEF single, target
<1> QED
  BY <1>2, <1>4, <1>6, <1>7, <1>8

==============================================================================
