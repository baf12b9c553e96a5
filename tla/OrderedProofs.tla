---------------------------- MODULE OrderedProofs ----------------------------
(***************************************************************************)
(* Facts about selections in an order.                                     *)
(***************************************************************************)
EXTENDS Ordered, FiniteSetTheorems, SequenceTheorems, WellFoundedInduction, TLAPS

\* Every nonempty set of naturals has a least member: its initial segments are
\* finite sets, on which strict inclusion is well founded.
LEMMA LeastNat ==
  ASSUME NEW T \in SUBSET Nat, T # {}
  PROVE  \E x \in T : \A y \in T : x <= y
<1> DEFINE Below == {0 .. x : x \in T}
           R == StrictSubsetOrdering(Nat)
<1>1. Below \subseteq FiniteSubsetsOf(Nat)
  <2> SUFFICES ASSUME NEW x \in T PROVE 0 .. x \in FiniteSubsetsOf(Nat)
    OBVIOUS
  <2>1. 0 \in Int /\ x \in Int /\ 0 .. x \subseteq Nat
    OBVIOUS
  <2>2. QED
    BY <2>1, FS_Interval DEF FiniteSubsetsOf
<1>2. Below # {}
  OBVIOUS
<1>3. \E b \in Below : \A c \in Below : <<c, b>> \notin R
  <2> HIDE DEF Below, R
  <2>1. IsWellFoundedOn(StrictSubsetOrdering(Nat), FiniteSubsetsOf(Nat))
    BY FS_StrictSubsetOrderingWellFounded
  <2>2. QED
    BY <1>1, <1>2, <2>1, WFMin DEF R
<1>4. PICK x \in T : \A y \in T : <<0 .. y, 0 .. x>> \notin R
  BY <1>3
<1>5. ASSUME NEW y \in T, ~(x <= y) PROVE FALSE
  <2>1. 0 .. y \subseteq 0 .. x /\ x \in 0 .. x /\ x \notin 0 .. y
    BY <1>5
  <2>2. 0 .. y \in SUBSET Nat /\ 0 .. x \in SUBSET Nat
    OBVIOUS
  <2>3. <<0 .. y, 0 .. x>> \in R
    BY <2>1, <2>2 DEF StrictSubsetOrdering
  <2>4. QED
    BY <1>4, <2>3
<1>6. QED
  BY <1>5

\* A key that can order a finite set: natural numbers, all different.
IsKey(key) ==
  /\ IsFiniteSet(DOMAIN key)
  /\ key \in [DOMAIN key -> Nat]
  /\ \A i, j \in DOMAIN key : key[i] = key[j] => i = j

\* A rank is below the size of the set, and a larger key has a larger rank.
LEMMA RankBounds ==
  ASSUME NEW key, IsKey(key), NEW i \in DOMAIN key
  PROVE  /\ Rank(key, i) \in 0 .. Cardinality(DOMAIN key) - 1
         /\ \A j \in DOMAIN key : key[i] < key[j] => Rank(key, i) < Rank(key, j)
<1> DEFINE Below(j) == {m \in DOMAIN key : key[m] < key[j]}
<1>1. \A j \in DOMAIN key : IsFiniteSet(Below(j)) /\ Cardinality(Below(j)) \in Nat
  BY FS_Subset, FS_CardinalityType DEF IsKey
<1>3. Cardinality(DOMAIN key) \in Nat
  BY FS_CardinalityType DEF IsKey
<1>2. Cardinality(Below(i)) < Cardinality(DOMAIN key)
  <2>1. Below(i) \subseteq DOMAIN key /\ i \notin Below(i)
    BY DEF IsKey
  <2>2. Below(i) # DOMAIN key
    BY <2>1
  <2> HIDE DEF Below
  <2>3. Cardinality(Below(i)) <= Cardinality(DOMAIN key)
        /\ Cardinality(Below(i)) # Cardinality(DOMAIN key)
    BY <2>1, <2>2, FS_Subset DEF IsKey
  <2>4. QED
    BY <2>3, <1>1, <1>3
<1>4. ASSUME NEW j \in DOMAIN key, key[i] < key[j]
      PROVE  Cardinality(Below(i)) < Cardinality(Below(j))
  <2>1. Below(i) \subseteq Below(j) /\ i \in Below(j) /\ i \notin Below(i)
    BY <1>4 DEF IsKey
  <2>2. QED
    BY <2>1, <1>1, FS_Subset
<1>5. QED
  BY <1>1, <1>2, <1>3, <1>4 DEF Rank

\* Every rank is taken: the k-th member of a finite ordered set exists.
LEMMA RankOnto ==
  ASSUME NEW key, IsKey(key), NEW k \in 1 .. Cardinality(DOMAIN key)
  PROVE  \E i \in DOMAIN key : Rank(key, i) = k - 1
<1> DEFINE n == Cardinality(DOMAIN key)
           R == (0 .. n - 1) \ {k - 1}
           f == [i \in DOMAIN key |-> Rank(key, i)]
<1>1. n \in Nat
  BY FS_CardinalityType DEF IsKey
<1>2. SUFFICES ASSUME \A i \in DOMAIN key : Rank(key, i) # k - 1
               PROVE  FALSE
  OBVIOUS
<1>3. f \in [DOMAIN key -> R]
  BY <1>2, RankBounds
<1>4. IsFiniteSet(R) /\ Cardinality(R) = n - 1
  <2> HIDE DEF n
  <2>0. 0 \in Int /\ n - 1 \in Int
    BY <1>1
  <2>1. IsFiniteSet(0 .. n - 1) /\ Cardinality(0 .. n - 1) = IF 0 > n - 1 THEN 0 ELSE n - 1 - 0 + 1
    BY ONLY <2>0, FS_Interval
  <2>2. k - 1 \in 0 .. n - 1
    BY <1>1 DEF n
  <2>3. Cardinality(0 .. n - 1) = n
    BY <1>1, <2>1, <2>2
  <2>4. QED
    BY <2>1, <2>2, <2>3, FS_RemoveElement
<1>5. PICK i, j \in DOMAIN key : i # j /\ f[i] = f[j]
  <2>1. IsFiniteSet(DOMAIN key) /\ Cardinality(R) < Cardinality(DOMAIN key)
    BY <1>1, <1>4 DEF IsKey
  <2> HIDE DEF R, f
  <2>2. QED
    BY <2>1, <1>3, <1>4, FS_PigeonHole
<1>6. key[i] < key[j] \/ key[j] < key[i]
  BY <1>5 DEF IsKey
<1>7. QED
  BY <1>3, <1>5, <1>6, RankBounds

\* r consists of elements of s, no position of s taken twice.
IsSelection(r, s) ==
  \E at \in [DOMAIN r -> DOMAIN s] :
    /\ \A i, j \in DOMAIN r : i # j => at[i] # at[j]
    /\ \A i \in DOMAIN r : r[i] = s[at[i]]

\* Keep lists the elements of s at the positions in K, each position once.
LEMMA KeepIs ==
  ASSUME NEW S, NEW s \in Seq(S), NEW K \in SUBSET DOMAIN s
  PROVE  /\ Keep(s, K) \in Seq(S)
         /\ \E at \in [DOMAIN Keep(s, K) -> K] :
              /\ \A i, j \in DOMAIN Keep(s, K) : i # j => at[i] # at[j]
              /\ \A i \in DOMAIN Keep(s, K) : Keep(s, K)[i] = s[at[i]]
              /\ \A m \in K : \E i \in DOMAIN Keep(s, K) : at[i] = m
<1> DEFINE key == [i \in K |-> i]
           n   == Cardinality(K)
           at  == [k \in 1 .. n |-> CHOOSE i \in K : Rank(key, i) = k - 1]
<1>1. IsFiniteSet(K) /\ n \in Nat
  <2>1. 1 \in Int /\ Len(s) \in Int /\ DOMAIN s = 1 .. Len(s)
    OBVIOUS
  <2>2. IsFiniteSet(1 .. Len(s))
    BY ONLY <2>1, FS_Interval
  <2>3. QED
    BY <2>1, <2>2, FS_Subset, FS_CardinalityType
<1>2. IsKey(key) /\ DOMAIN key = K
  BY <1>1 DEF IsKey
<1>3. \A k \in 1 .. n : at[k] \in K /\ Rank(key, at[k]) = k - 1
  <2> SUFFICES ASSUME NEW k \in 1 .. n
               PROVE  at[k] \in K /\ Rank(key, at[k]) = k - 1
    OBVIOUS
  <2>1. \E i \in K : Rank(key, i) = k - 1
    BY <1>2, RankOnto
  <2>2. QED
    BY <2>1
<1>4. Keep(s, K) = [k \in 1 .. n |-> s[at[k]]]
  BY DEF Keep
<1>5. at \in [1 .. n -> K] /\ \A i, j \in 1 .. n : i # j => at[i] # at[j]
  <2>1. at \in [1 .. n -> K]
    BY <1>3
  <2> HIDE DEF n, at
  <2>2. \A i, j \in 1 .. n : i # j => Rank(key, at[i]) # Rank(key, at[j])
    BY <1>1, <1>3
  <2>3. QED
    BY <2>1, <2>2
<1> HIDE DEF n, at, key
<1>6. Keep(s, K) \in Seq(S) /\ DOMAIN Keep(s, K) = 1 .. n
  <2>1. [k \in 1 .. n |-> s[at[k]]] \in [1 .. n -> S]
    BY <1>5
  <2>2. QED
    BY <1>1, <1>4, <2>1, SeqDef
<1>7. at \in [DOMAIN Keep(s, K) -> K]
  BY <1>5, <1>6
<1>8. ASSUME NEW m \in K PROVE \E i \in 1 .. n : at[i] = m
  <2> DEFINE i == Rank(key, m) + 1
  <2>1. Rank(key, m) \in 0 .. n - 1
    BY <1>2, RankBounds DEF n
  <2>2. i \in 1 .. n /\ i - 1 = Rank(key, m)
    BY <1>1, <2>1
  <2> HIDE DEF i
  <2>3. at[i] \in K /\ Rank(key, at[i]) = Rank(key, m)
    BY <1>3, <2>2
  <2>4. /\ key[at[i]] = at[i] /\ key[m] = m /\ at[i] \in Nat /\ m \in Nat
        /\ at[i] \in DOMAIN key /\ m \in DOMAIN key
    BY <1>2, <2>3 DEF key
  <2>5. ~(key[at[i]] < key[m]) /\ ~(key[m] < key[at[i]])
    <3>1. Rank(key, at[i]) \in 0 .. n - 1
      BY <2>1, <2>3
    <3>2. ~(Rank(key, m) < Rank(key, m))
      BY <2>1
    <3>3. QED
      BY <1>2, <2>3, <2>4, <3>2, RankBounds
  <2>6. at[i] = m
    BY <2>4, <2>5
  <2>7. QED
    BY <2>2, <2>6
<1>9. QED
  BY <1>4, <1>5, <1>6, <1>7, <1>8

LEMMA KeepSelects ==
  ASSUME NEW S, NEW s \in Seq(S), NEW K \in SUBSET DOMAIN s
  PROVE  Keep(s, K) \in Seq(S) /\ IsSelection(Keep(s, K), s)
<1>1. PICK at \in [DOMAIN Keep(s, K) -> K] :
        /\ \A i, j \in DOMAIN Keep(s, K) : i # j => at[i] # at[j]
        /\ \A i \in DOMAIN Keep(s, K) : Keep(s, K)[i] = s[at[i]]
  BY KeepIs
<1>2. at \in [DOMAIN Keep(s, K) -> DOMAIN s]
  OBVIOUS
<1>3. QED
  BY <1>1, <1>2, KeepIs DEF IsSelection

==============================================================================
