----------------------------- MODULE CaptureProofs -----------------------------
(***************************************************************************)
(* Theorems about Capture: what its steps keep true; and, with that, how   *)
(* it implements UndoLog and what becomes of every close.                  *)
(***************************************************************************)
EXTENDS Capture, OrderedProofs

(***************************************************************************)
(* The undo stack as a value.                                              *)
(***************************************************************************)
\* A prefix of a selection is one.
LEMMA TruncateSelects ==
  ASSUME NEW E, NEW S, NEW r \in Seq(E), NEW s \in Seq(S), IsSelection(r, s)
  PROVE  /\ Truncate(r) \in Seq(E) /\ Len(Truncate(r)) <= StackCap
         /\ IsSelection(Truncate(r), s)
<1>1. /\ Truncate(r) \in Seq(E) /\ Len(Truncate(r)) <= StackCap
      /\ DOMAIN Truncate(r) \subseteq DOMAIN r
      /\ \A i \in DOMAIN Truncate(r) : Truncate(r)[i] = r[i]
  BY StackCapAssumption DEF Truncate
<1>2. PICK at \in [DOMAIN r -> DOMAIN s] :
         /\ \A i, j \in DOMAIN r : i # j => at[i] # at[j]
         /\ \A i \in DOMAIN r : r[i] = s[at[i]]
  BY DEF IsSelection
<1> DEFINE t == Truncate(r)
           cut == [i \in DOMAIN t |-> at[i]]
<1>3. /\ cut \in [DOMAIN t -> DOMAIN s]
      /\ \A i, j \in DOMAIN t : i # j => cut[i] # cut[j]
      /\ \A i \in DOMAIN t : t[i] = s[cut[i]]
  BY <1>1, <1>2
<1> HIDE DEF cut
<1>4. QED
  BY <1>1, <1>3 DEF IsSelection

\* Pruning keeps the allocator and some of the entries, none of them twice.
LEMMA PruneSelects ==
  ASSUME NEW E, NEW stack \in [entries : Seq(E), next_id : Nat], NEW clock
  PROVE  LET p == prune_entries(stack, clock)
         IN  /\ p \in [entries : Seq(E), next_id : Nat]
             /\ p.next_id = stack.next_id
             /\ Len(p.entries) <= StackCap
             /\ IsSelection(p.entries, stack.entries)
<1> DEFINE s == stack.entries
           young == {i \in DOMAIN s : \/ EntryTTL = 0
                                      \/ Elapsed(clock, s[i].closed_at_ms) <= EntryTTL}
           p == prune_entries(stack, clock)
<1>1. s \in Seq(E) /\ young \in SUBSET DOMAIN s
  OBVIOUS
<1>2. p = [entries |-> Truncate(Keep(s, young)), next_id |-> stack.next_id]
  BY DEF prune_entries
<1> HIDE DEF p, young, s
<1>3. Keep(s, young) \in Seq(E) /\ IsSelection(Keep(s, young), s)
  BY ONLY <1>1, KeepSelects
<1>4. /\ Truncate(Keep(s, young)) \in Seq(E)
      /\ Len(Truncate(Keep(s, young))) <= StackCap
      /\ IsSelection(Truncate(Keep(s, young)), s)
  BY ONLY <1>1, <1>3, TruncateSelects
<1>5. stack.next_id \in Nat
  OBVIOUS
<1>6. /\ p \in [entries : Seq(E), next_id : Nat]
      /\ p.next_id = stack.next_id /\ p.entries = Truncate(Keep(s, young))
  BY <1>2, <1>4, <1>5
<1>7. QED
  BY <1>4, <1>6 DEF p, s

\* While all ids on the stack are below the allocator, the allocator decides.
LEMMA NextEntryId ==
  ASSUME NEW stack, stack.next_id \in Nat, IdsOf(stack) \subseteq Nat,
         \A id \in IdsOf(stack) : id < stack.next_id
  PROVE  next_entry_id(stack) = IF stack.next_id >= 1 THEN stack.next_id ELSE 1
<1> DEFINE bounds == {1, stack.next_id} \cup {id + 1 : id \in IdsOf(stack)}
           top    == IF stack.next_id >= 1 THEN stack.next_id ELSE 1
<1>1. top \in bounds /\ \A m \in bounds : m \in Nat /\ m <= top
  OBVIOUS
<1>2. \A n \in bounds : (\A m \in bounds : m <= n) => n = top
  BY <1>1
<1> HIDE DEF bounds, top
<1>3. (CHOOSE n \in bounds : \A m \in bounds : m <= n) = top
  BY <1>1, <1>2
<1>4. QED
  BY <1>3 DEF next_entry_id, bounds, top

(***************************************************************************)
(* What the operations on the stack do to its members and their ids.       *)
(***************************************************************************)
Members(s) == {s[i] : i \in DOMAIN s}

\* No two positions bear the same id.
Distinct(s) == \A i, j \in DOMAIN s : s[i].id = s[j].id => i = j

LEMMA SelectionMembers ==
  ASSUME NEW r, NEW s, IsSelection(r, s)
  PROVE  Members(r) \subseteq Members(s) /\ (Distinct(s) => Distinct(r))
<1>1. PICK at \in [DOMAIN r -> DOMAIN s] :
         /\ \A i, j \in DOMAIN r : i # j => at[i] # at[j]
         /\ \A i \in DOMAIN r : r[i] = s[at[i]]
  BY DEF IsSelection
<1>2. Members(r) \subseteq Members(s)
  BY <1>1 DEF Members
<1>3. ASSUME Distinct(s), NEW i \in DOMAIN r, NEW j \in DOMAIN r, r[i].id = r[j].id
      PROVE  i = j
  BY <1>1, <1>3 DEF Distinct
<1>4. QED
  BY <1>2, <1>3 DEF Distinct

LEMMA TruncateMembers ==
  ASSUME NEW E, NEW s \in Seq(E)
  PROVE  /\ Truncate(s) \in Seq(E) /\ Len(Truncate(s)) <= StackCap
         /\ Members(Truncate(s)) \subseteq Members(s)
         /\ Distinct(s) => Distinct(Truncate(s))
<1> DEFINE id == [i \in DOMAIN s |-> i]
<1>1. id \in [DOMAIN s -> DOMAIN s] /\ \A i \in DOMAIN s : s[i] = s[id[i]]
  OBVIOUS
<1>2. \A i, j \in DOMAIN s : i # j => id[i] # id[j]
  OBVIOUS
<1> HIDE DEF id
<1>3. IsSelection(s, s)
  BY <1>1, <1>2 DEF IsSelection
<1>4. QED
  BY <1>3, TruncateSelects, SelectionMembers

LEMMA ConcatMembers ==
  ASSUME NEW E, NEW r \in Seq(E), NEW s \in Seq(E)
  PROVE  /\ r \o s \in Seq(E)
         /\ Members(r \o s) \subseteq Members(r) \cup Members(s)
         /\ (/\ Distinct(r) /\ Distinct(s)
             /\ \A d \in Members(r), e \in Members(s) : d.id # e.id)
            => Distinct(r \o s)
<1>1. /\ r \o s \in Seq(E) /\ Len(r \o s) = Len(r) + Len(s)
      /\ \A i \in DOMAIN (r \o s) :
           \/ i \in DOMAIN r /\ (r \o s)[i] = r[i]
           \/ i - Len(r) \in DOMAIN s /\ i > Len(r) /\ (r \o s)[i] = s[i - Len(r)]
  OBVIOUS
<1>2. Members(r \o s) \subseteq Members(r) \cup Members(s)
  BY <1>1 DEF Members
<1>3. ASSUME Distinct(r), Distinct(s),
             \A d \in Members(r), e \in Members(s) : d.id # e.id,
             NEW i \in DOMAIN (r \o s), NEW j \in DOMAIN (r \o s),
             (r \o s)[i].id = (r \o s)[j].id
      PROVE  i = j
  <2>1. /\ i \in Int /\ j \in Int /\ Len(r) \in Nat
        /\ \A k \in DOMAIN r, l \in DOMAIN s : r[k].id # s[l].id
    BY <1>3 DEF Members
  <2>2. CASE i \in DOMAIN r /\ (r \o s)[i] = r[i] /\ j \in DOMAIN r /\ (r \o s)[j] = r[j]
    BY <1>3, <2>2 DEF Distinct
  <2>3. CASE /\ i - Len(r) \in DOMAIN s /\ (r \o s)[i] = s[i - Len(r)]
             /\ j - Len(r) \in DOMAIN s /\ (r \o s)[j] = s[j - Len(r)]
    <3>1. i - Len(r) = j - Len(r)
      BY <1>3, <2>3 DEF Distinct
    <3>2. QED
      BY <2>1, <3>1
  <2>4. QED
    BY <1>1, <1>3, <2>1, <2>2, <2>3
<1>4. QED
  BY <1>1, <1>2, <1>3 DEF Distinct

\* Popping position i leaves a selection that no longer has the popped id.
LEMMA PopMembers ==
  ASSUME NEW E, NEW stack \in [entries : Seq(E), next_id : Nat],
         NEW i \in DOMAIN stack.entries
  PROVE  LET rest == pop_at(stack, i)
         IN  /\ rest \in [entries : Seq(E), next_id : Nat]
             /\ rest.next_id = stack.next_id
             /\ Len(rest.entries) <= Len(stack.entries)
             /\ Members(rest.entries) \subseteq Members(stack.entries)
             /\ Distinct(stack.entries) =>
                  /\ Distinct(rest.entries)
                  /\ \A e \in Members(rest.entries) : e.id # stack.entries[i].id
<1> DEFINE s == stack.entries
           a == SubSeq(s, 1, i - 1)
           c == SubSeq(s, i + 1, Len(s))
           r == a \o c
           at(j) == IF j < i THEN j ELSE j + 1
<1>1. /\ s \in Seq(E) /\ i \in DOMAIN s /\ Len(s) \in Nat /\ i \in 1 .. Len(s)
      /\ DOMAIN s = 1 .. Len(s)
  OBVIOUS
<1>5. pop_at(stack, i) = [entries |-> r, next_id |-> stack.next_id]
  <2>1. pop_at(stack, i) = [stack EXCEPT !.entries = r]
    BY DEF pop_at
  <2> HIDE DEF r
  <2>2. QED
    BY <2>1
<1> HIDE DEF s
<1>2. /\ r \in Seq(E) /\ Len(r) = Len(s) - 1 /\ DOMAIN r = 1 .. Len(s) - 1
      /\ \A j \in DOMAIN r : r[j] = s[at(j)]
  <2>1. /\ a \in Seq(E) /\ Len(a) = i - 1
        /\ \A j \in 1 .. i - 1 : a[j] = s[j]
    BY <1>1, SubSeqProperties
  <2>2. /\ c \in Seq(E) /\ Len(c) = Len(s) - i
        /\ \A j \in 1 .. Len(s) - i : c[j] = s[i + j]
    <3>1. i + 1 \in Int /\ Len(s) \in Int /\ \A k \in i + 1 .. Len(s) : s[k] \in E
      BY <1>1
    <3>2. /\ c \in Seq(E) /\ Len(c) = IF i + 1 <= Len(s) THEN Len(s) - (i + 1) + 1 ELSE 0
          /\ \A j \in 1 .. Len(s) - (i + 1) + 1 : c[j] = s[(i + 1) + j - 1]
      BY ONLY <3>1, SubSeqProperties
    <3> HIDE DEF c
    <3>3. Len(s) - (i + 1) + 1 = Len(s) - i
      BY <1>1
    <3>4. Len(c) = Len(s) - i
      BY <1>1, <3>2
    <3>5. ASSUME NEW j \in 1 .. Len(s) - i PROVE c[j] = s[i + j]
      <4>1. c[j] = s[(i + 1) + j - 1] /\ (i + 1) + j - 1 = i + j
        BY <1>1, <3>2, <3>3
      <4>2. QED
        BY <4>1
    <3>6. QED
      BY <3>2, <3>4, <3>5
  <2> HIDE DEF a, c
  <2>3. /\ r \in Seq(E) /\ Len(r) = Len(a) + Len(c)
        /\ \A j \in 1 .. Len(a) + Len(c) : r[j] = IF j <= Len(a) THEN a[j] ELSE c[j - Len(a)]
    BY <2>1, <2>2, ConcatProperties
  <2> HIDE DEF r
  <2>4. Len(r) = Len(s) - 1 /\ DOMAIN r = 1 .. Len(s) - 1
    BY <1>1, <2>1, <2>2, <2>3
  <2>5. ASSUME NEW j \in 1 .. Len(s) - 1
        PROVE  r[j] = s[at(j)]
    <3>1. CASE j < i
      <4>1. j \in 1 .. Len(a) + Len(c) /\ j <= Len(a) /\ j \in 1 .. i - 1
        BY <1>1, <2>1, <2>2, <3>1
      <4>2. r[j] = a[j] /\ a[j] = s[j]
        BY <2>1, <2>3, <4>1
      <4>3. QED
        BY <3>1, <4>2
    <3>2. CASE ~(j < i)
      <4> DEFINE n == Len(s)
      <4>0. n \in Nat /\ i \in 1 .. n /\ Len(a) = i - 1 /\ Len(c) = n - i
        BY <1>1, <2>1, <2>2
      <4> HIDE DEF n
      <4>1. /\ j - (i - 1) \in 1 .. Len(s) - i /\ i + (j - (i - 1)) = j + 1
            /\ j \in 1 .. Len(a) + Len(c) /\ ~(j <= Len(a)) /\ j - Len(a) = j - (i - 1)
        <5>1. j \in 1 .. n - 1
          BY DEF n
        <5>2. /\ j - (i - 1) \in 1 .. n - i /\ i + (j - (i - 1)) = j + 1
              /\ j \in 1 .. (i - 1) + (n - i) /\ ~(j <= i - 1)
          <6>1. i \in Int /\ j \in Int /\ n \in Int /\ i <= j /\ j <= n - 1 /\ 1 <= i
            BY <3>2, <4>0, <5>1
          <6>2. QED
            BY ONLY <6>1
        <5>3. QED
          BY <4>0, <5>2 DEF n
      <4>2. r[j] = c[j - (i - 1)]
        BY <2>3, <4>1
      <4>3. c[j - (i - 1)] = s[i + (j - (i - 1))]
        BY ONLY <2>2, <4>1
      <4>4. r[j] = s[j + 1]
        BY <4>1, <4>2, <4>3
      <4>5. QED
        BY <3>2, <4>4
    <3>3. QED
      BY <3>1, <3>2
  <2>6. QED
    BY <2>3, <2>4, <2>5
<1> HIDE DEF r
<1>3. \A j \in DOMAIN r : at(j) \in DOMAIN s \ {i}
  BY <1>1, <1>2
<1>4. \A j, k \in DOMAIN r : at(j) = at(k) => j = k
  BY <1>1, <1>2
<1> HIDE DEF at
<1>6. Members(r) \subseteq Members(s)
  BY <1>2, <1>3 DEF Members
<1>7. Distinct(s) => Distinct(r) /\ \A e \in Members(r) : e.id # s[i].id
  BY <1>1, <1>2, <1>3, <1>4 DEF Distinct, Members
<1>8. stack.next_id \in Nat /\ Len(r) <= Len(s)
  BY <1>1, <1>2
<1>9. QED
  BY <1>2, <1>5, <1>6, <1>7, <1>8 DEF s

\* Pushing back an entry whose id is not on the stack puts it on top.
LEMMA PushBackMembers ==
  ASSUME NEW E, NEW stack \in [entries : Seq(E), next_id : Nat], NEW entry \in E,
         Len(stack.entries) <= StackCap
  PROVE  LET more == push_back(stack, entry)
         IN  /\ more \in [entries : Seq(E), next_id : Nat]
             /\ more.next_id = stack.next_id
             /\ Len(more.entries) <= StackCap
             /\ Members(more.entries) \subseteq Members(stack.entries) \cup {entry}
             /\ Distinct(stack.entries) => Distinct(more.entries)
<1> DEFINE s == stack.entries
           t == <<entry>> \o s
<1>1. s \in Seq(E) /\ <<entry>> \in Seq(E) /\ stack.next_id \in Nat
  OBVIOUS
<1>2. IdsOf(stack) = {e.id : e \in Members(s)}
  BY DEF IdsOf, Members
<1>3. CASE entry.id \in IdsOf(stack)
  BY <1>3 DEF push_back
<1>4. CASE entry.id \notin IdsOf(stack)
  <2>1. push_back(stack, entry) = [entries |-> Truncate(t), next_id |-> stack.next_id]
    BY <1>4 DEF push_back
  <2>2. Members(<<entry>>) = {entry} /\ Distinct(<<entry>>)
    BY DEF Members, Distinct
  <2>3. \A d \in Members(<<entry>>), e \in Members(s) : d.id # e.id
    BY <1>2, <1>4, <2>2
  <2> HIDE DEF s
  <2>4. /\ t \in Seq(E)
        /\ Members(t) \subseteq Members(s) \cup {entry}
        /\ Distinct(s) => Distinct(t)
    BY <1>1, <2>2, <2>3, ConcatMembers
  <2> HIDE DEF t
  <2>5. /\ Truncate(t) \in Seq(E) /\ Len(Truncate(t)) <= StackCap
        /\ Members(Truncate(t)) \subseteq Members(t)
        /\ Distinct(t) => Distinct(Truncate(t))
    BY <2>4, TruncateMembers
  <2>6. QED
    BY <1>1, <2>1, <2>4, <2>5 DEF s
<1>5. QED
  BY <1>3, <1>4

\* New captures go on top of what fits below them.
LEMMA PushCapturesMembers ==
  ASSUME NEW E, NEW stack \in [entries : Seq(E), next_id : Nat],
         NEW new \in Seq(E), new # << >>, new[Len(new)].id \in Nat
  PROVE  LET more == push_captures(stack, new)
         IN  /\ more \in [entries : Seq(E), next_id : Nat]
             /\ more.next_id = new[Len(new)].id + 1
             /\ Len(more.entries) <= StackCap
             /\ Members(more.entries) \subseteq Members(stack.entries) \cup Members(new)
             /\ (/\ Distinct(stack.entries) /\ Distinct(new)
                 /\ \A d \in Members(new), e \in Members(stack.entries) : d.id # e.id)
                => Distinct(more.entries)
<1> DEFINE s == stack.entries
           t == new \o s
<1>1. s \in Seq(E)
  OBVIOUS
<1>2. push_captures(stack, new) = [entries |-> Truncate(t), next_id |-> new[Len(new)].id + 1]
  BY DEF push_captures
<1> HIDE DEF s
<1>3. /\ t \in Seq(E)
      /\ Members(t) \subseteq Members(new) \cup Members(s)
      /\ (/\ Distinct(s) /\ Distinct(new)
          /\ \A d \in Members(new), e \in Members(s) : d.id # e.id)
         => Distinct(t)
  BY <1>1, ConcatMembers
<1> HIDE DEF t
<1>4. /\ Truncate(t) \in Seq(E) /\ Len(Truncate(t)) <= StackCap
      /\ Members(Truncate(t)) \subseteq Members(t)
      /\ Distinct(t) => Distinct(Truncate(t))
  BY <1>3, TruncateMembers
<1>5. QED
  BY <1>2, <1>3, <1>4 DEF s

\* Pruning removes entries and changes nothing else.
LEMMA PruneMembers ==
  ASSUME NEW E, NEW stack \in [entries : Seq(E), next_id : Nat], NEW clock
  PROVE  LET p == prune_entries(stack, clock)
         IN  /\ p \in [entries : Seq(E), next_id : Nat]
             /\ p.next_id = stack.next_id
             /\ Len(p.entries) <= StackCap
             /\ Members(p.entries) \subseteq Members(stack.entries)
             /\ Distinct(stack.entries) => Distinct(p.entries)
BY PruneSelects, SelectionMembers

(***************************************************************************)
(* What inference makes of a burst.                                        *)
(***************************************************************************)
LEMMA BurstPositions ==
  ASSUME NEW b \in Bursts
  PROVE  /\ Len(b.events) \in Nat \ {0}
         /\ DOMAIN b.events = 1 .. Len(b.events)
         /\ \A i \in DOMAIN b.events : b.events[i] \in Events
         /\ Capturing(b) \in SUBSET DOMAIN b.events
         /\ IsFiniteSet(Capturing(b)) /\ Cardinality(Capturing(b)) \in Nat
<1> DEFINE s == b.events
<1>1. s \in Seq(Events) /\ s # << >>
  BY DEF Bursts
<1> HIDE DEF s
<1>2. /\ Len(s) \in Nat \ {0} /\ DOMAIN s = 1 .. Len(s)
      /\ \A i \in DOMAIN s : s[i] \in Events
  BY <1>1, EmptySeq, LenProperties
<1>3. Capturing(b) \in SUBSET DOMAIN s
  BY DEF Capturing, s
<1>4. IsFiniteSet(DOMAIN s)
  BY <1>2, FS_Interval
<1>5. QED
  BY <1>2, <1>3, <1>4, FS_Subset, FS_CardinalityType DEF s

\* Two numbers written with a leading digit and a smaller second one differ
\* unless both digits agree.
LEMMA TwoDigits ==
  ASSUME NEW n \in Nat, NEW p \in Nat, NEW q \in Nat, NEW i \in 0 .. n, NEW j \in 0 .. n,
         p * (n + 1) + i = q * (n + 1) + j
  PROVE  i = j
<1>1. CASE p < q
  <2>1. (p + 1) * (n + 1) <= q * (n + 1)
    BY <1>1
  <2>2. QED
    BY <2>1
<1>2. CASE q < p
  <2>1. (q + 1) * (n + 1) <= p * (n + 1)
    BY <1>2
  <2>2. QED
    BY <2>1
<1>3. CASE p = q
  BY <1>3
<1>4. QED
  BY <1>1, <1>2, <1>3

LEMMA CaptureOrderIsKey ==
  ASSUME NEW b \in Bursts
  PROVE  IsKey(CaptureOrder(b)) /\ DOMAIN CaptureOrder(b) = Capturing(b)
<1> DEFINE n == Len(b.events)
           start(i) == IF IsWorkspaceClose(b, i) THEN 0
                       ELSE CHOOSE j \in Partition(b, i) : \A k \in Partition(b, i) : j <= k
           key == CaptureOrder(b)
<1>1. key = [i \in Capturing(b) |-> start(i) * (n + 1) + i]
  BY DEF CaptureOrder
<1>2. ASSUME NEW i \in Capturing(b)
      PROVE  start(i) \in Nat
  <2>1. CASE IsWorkspaceClose(b, i)
    BY <2>1
  <2>2. CASE ~IsWorkspaceClose(b, i)
    <3>1. i \in Partition(b, i)
      BY <2>2 DEF Capturing, Partition
    <3>2. Partition(b, i) \in SUBSET Nat
      BY BurstPositions DEF Partition, Remaining
    <3>3. \E j \in Partition(b, i) : \A k \in Partition(b, i) : j <= k
      BY <3>1, <3>2, LeastNat
    <3>4. QED
      BY <2>2, <3>2, <3>3
  <2>3. QED
    BY <2>1, <2>2
<1> HIDE DEF start
<1>3. n \in Nat /\ \A i \in Capturing(b) : i \in 0 .. n /\ start(i) \in Nat
  BY <1>2, BurstPositions
<1> HIDE DEF n
<1>4. \A i \in Capturing(b) : start(i) * (n + 1) + i \in Nat
  BY <1>3
<1>5. \A i, j \in Capturing(b) :
        start(i) * (n + 1) + i = start(j) * (n + 1) + j => i = j
  BY <1>3, TwoDigits
<1> HIDE DEF key
<1>6. key \in [Capturing(b) -> Nat]
  BY <1>1, <1>4
<1>7. \A i, j \in Capturing(b) : key[i] = key[j] => i = j
  BY <1>1, <1>5
<1>8. QED
  BY <1>6, <1>7, BurstPositions DEF IsKey, key

\* A captured position becomes a well-formed entry that undoes a close at least.
LEMMA EntryType ==
  ASSUME NEW b \in Bursts, NEW i \in Capturing(b), NEW id \in Nat \ {0}
  PROVE  Entry(b, i, id) \in Entries
<1> DEFINE ev == b.events[i]
<1>1. /\ i \in DOMAIN b.events /\ ev \in Events
      /\ \A j \in DOMAIN b.events : b.events[j].t0 \in Nat /\ b.events[j].hook \in Hooks
  BY BurstPositions DEF Events
<1>2. ClosedAt(b, i) \in Nat
  <2> DEFINE times == {b.events[j].t0 : j \in DOMAIN b.events}
  <2>1. times \in SUBSET Nat /\ times # {}
    BY <1>1
  <2> HIDE DEF times
  <2>2. \E t \in times : \A u \in times : t <= u
    BY <2>1, LeastNat
  <2>3. \E t \in times : \A j \in DOMAIN b.events : t <= b.events[j].t0
    BY <2>2 DEF times
  <2>4. (CHOOSE t \in times : \A j \in DOMAIN b.events : t <= b.events[j].t0) \in Nat
    BY <2>1, <2>3
  <2>5. QED
    BY <1>1, <2>4 DEF ClosedAt, times
<1>3. Granularity(b, i) \in {"pane", "tab", "workspace", "workspace_group"}
  BY DEF Granularity
<1>4. CapturedPanes(b, i) \in SUBSET Ids
  <2>1. \A w \in b.frozen : PanesOf(w) \in SUBSET Ids
    BY SnapshotsAssumption DEF Bursts
  <2>2. CASE ev.name = "workspace.closed"
    BY <2>1, <2>2 DEF CapturedPanes
  <2>3. CASE ev.name = "tab.closed"
    <3>1. \A w \in b.frozen : ev.tab \in DOMAIN w.tabs => w.tabs[ev.tab] \in SUBSET Ids
      BY <2>1 DEF PanesOf
    <3>2. TabPanes(b, ev.tab) \in SUBSET Ids
      BY <3>1 DEF TabPanes
    <3>3. QED
      BY <2>3, <3>2 DEF CapturedPanes
  <2>4. CASE ev.name \notin {"workspace.closed", "tab.closed"}
    <3>1. ev.pane # None
      BY <2>4 DEF Capturing, Captures, IsWorkspaceClose
    <3>2. ev.pane \in Ids
      BY <1>1, <3>1 DEF Events
    <3>3. QED
      BY <2>4, <3>2 DEF CapturedPanes
  <2>5. QED
    BY <2>2, <2>3, <2>4
<1>5. Undoes(b, i) \in (SUBSET Hooks) \ {{}}
  <2>1. Remaining(b) \subseteq DOMAIN b.events
    BY DEF Remaining
  <2>2. IsWorkspaceClose(b, i) => i \notin Remaining(b)
    BY DEF Remaining
  <2>3. \A j \in Partition(b, i) : j \in DOMAIN b.events
    BY <2>1 DEF Partition
  <2>4. QED
    BY <1>1, <2>1, <2>2, <2>3 DEF Undoes
<1>6. QED
  BY <1>2, <1>3, <1>4, <1>5 DEF Entry, Entries

LEMMA RecordsAreNotNone ==
  (\A b \in Bursts : b # NoBurst) /\ (\A e \in Entries : e # NoEntry)
<1>1. ASSUME NEW b \in Bursts PROVE b # NoBurst
  <2>1. "first_ms" \in DOMAIN b /\ "first_ms" \notin DOMAIN NoBurst
    BY DEF Bursts, NoBurst
  <2>2. QED
    BY <2>1
<1>2. ASSUME NEW e \in Entries PROVE e # NoEntry
  <2>1. "id" \in DOMAIN e /\ "id" \notin DOMAIN NoEntry
    BY DEF Entries, NoEntry
  <2>2. QED
    BY <2>1
<1>3. QED
  BY <1>1, <1>2

\* Inference gives one entry for each capturing position, with consecutive ids.
LEMMA Inferred ==
  ASSUME NEW b \in Bursts, NEW next \in Nat \ {0}
  PROVE  LET new == infer_entries(b, next)
         IN  /\ new \in Seq(Entries)
             /\ DOMAIN new = 1 .. Cardinality(Capturing(b))
             /\ Len(new) = Cardinality(Capturing(b))
             /\ \A k \in DOMAIN new : new[k].id = next + k - 1
             /\ \A k \in DOMAIN new : new[k].closes \subseteq HooksOf(b)
<1> DEFINE key == CaptureOrder(b)
           n == Cardinality(Capturing(b))
           entries == {Entry(b, i, next + Rank(key, i)) : i \in Capturing(b)}
           pick(k) == CHOOSE e \in entries : e.id = next + k - 1
           new == infer_entries(b, next)
<1>1. new = [k \in 1 .. n |-> pick(k)]
  BY DEF infer_entries
<1>2. /\ IsKey(key) /\ DOMAIN key = Capturing(b)
      /\ n \in Nat
  BY CaptureOrderIsKey, BurstPositions
<1>3. \A i \in Capturing(b) : Rank(key, i) \in Nat
  <2> SUFFICES ASSUME NEW i \in Capturing(b) PROVE Rank(key, i) \in Nat
    OBVIOUS
  <2> HIDE DEF key
  <2>1. Rank(key, i) \in 0 .. Cardinality(DOMAIN key) - 1
    BY <1>2, RankBounds
  <2>2. QED
    BY <2>1
<1>4. entries \in SUBSET Entries
  <2> SUFFICES ASSUME NEW i \in Capturing(b)
               PROVE  Entry(b, i, next + Rank(key, i)) \in Entries
    OBVIOUS
  <2>1. next + Rank(key, i) \in Nat \ {0}
    BY <1>3
  <2>2. QED
    BY <2>1, EntryType
<1>0. ASSUME NEW e \in entries
      PROVE  e.closes \subseteq HooksOf(b)
  <2>1. PICK i \in Capturing(b) : e = Entry(b, i, next + Rank(key, i))
    OBVIOUS
  <2>2. e.closes = Undoes(b, i)
    BY <2>1 DEF Entry
  <2>3. Remaining(b) \subseteq DOMAIN b.events /\ Partition(b, i) \subseteq DOMAIN b.events
    BY DEF Remaining, Partition
  <2>4. Undoes(b, i) \subseteq HooksOf(b)
    <3>1. i \in DOMAIN b.events /\ b # NoBurst
      BY BurstPositions, RecordsAreNotNone
    <3>2. QED
      BY <2>3, <3>1 DEF Undoes, HooksOf
  <2>5. QED
    BY <2>2, <2>4
<1>5. ASSUME NEW k \in 1 .. n
      PROVE  pick(k) \in Entries /\ pick(k) \in entries /\ pick(k).id = next + k - 1
  <2>1. \E i \in Capturing(b) : Rank(key, i) = k - 1
    <3> HIDE DEF key
    <3>1. k \in 1 .. Cardinality(DOMAIN key)
      BY <1>2
    <3>2. QED
      BY <3>1, <1>2, RankOnto
  <2>2. PICK i \in Capturing(b) : Rank(key, i) = k - 1
    BY <2>1
  <2>3. Entry(b, i, next + Rank(key, i)) \in entries
    OBVIOUS
  <2>4. Entry(b, i, next + Rank(key, i)).id = next + k - 1
    BY <2>2 DEF Entry
  <2> HIDE DEF entries
  <2>5. \E e \in entries : e.id = next + k - 1
    BY <2>3, <2>4
  <2>6. QED
    BY <1>4, <2>5
<1> HIDE DEF pick, n
<1>6. new \in Seq(Entries) /\ DOMAIN new = 1 .. n /\ Len(new) = n
  <2>1. [k \in 1 .. n |-> pick(k)] \in [1 .. n -> Entries]
    BY <1>5
  <2>2. QED
    BY <1>1, <1>2, <2>1, SeqDef, LenProperties
<1>7. \A k \in DOMAIN new : new[k].id = next + k - 1
  BY <1>1, <1>5, <1>6
<1>9. \A k \in DOMAIN new : new[k].closes \subseteq HooksOf(b)
  <2> SUFFICES ASSUME NEW k \in 1 .. n PROVE new[k].closes \subseteq HooksOf(b)
    BY <1>6
  <2>1. new[k] \in entries
    BY <1>1, <1>5
  <2> HIDE DEF entries, new
  <2>2. QED
    BY <1>0, <2>1
<1>8. QED
  BY <1>6, <1>7, <1>9 DEF n

\* A finalization gives fresh ids to what it captures and leaves a stack of the
\* old entries and the new ones, each at most once.
LEMMA FinalizedStack ==
  ASSUME NEW stack \in [entries : Seq(Entries), next_id : Nat],
         Len(stack.entries) <= StackCap, Distinct(stack.entries),
         NEW C \in SUBSET Entries, Members(stack.entries) \subseteq C,
         \A e \in C : e.id < stack.next_id,
         NEW b \in Bursts, NEW time
  PROVE  LET new  == captured(stack, b, time)
             more == finalize_locked(stack, new, time)
         IN  /\ new \in Seq(Entries) /\ Distinct(new)
             /\ more \in [entries : Seq(Entries), next_id : Nat]
             /\ Len(more.entries) <= StackCap
             /\ stack.next_id <= more.next_id
             /\ \A e \in Members(new) : stack.next_id <= e.id /\ e.id < more.next_id
             /\ \A e \in Members(new) : e.closes \subseteq HooksOf(b)
             /\ Members(more.entries) \subseteq Members(stack.entries) \cup Members(new)
             /\ Distinct(more.entries)
<1> DEFINE p    == prune_entries(stack, time)
           next == next_entry_id(p)
           new  == captured(stack, b, time)
           more == finalize_locked(stack, new, time)
           n    == Cardinality(Capturing(b))
<1>1. /\ p \in [entries : Seq(Entries), next_id : Nat]
      /\ p.next_id = stack.next_id /\ Len(p.entries) <= StackCap
      /\ Members(p.entries) \subseteq Members(stack.entries)
      /\ Distinct(p.entries)
  BY PruneMembers
<1> HIDE DEF p
<1>2. IdsOf(p) \subseteq Nat /\ \A id \in IdsOf(p) : id < p.next_id
  <2>1. \A e \in Members(p.entries) : e.id \in Nat /\ e.id < p.next_id
    BY <1>1 DEF Entries
  <2>2. QED
    BY <2>1 DEF IdsOf, Members
<1>3. next \in Nat \ {0} /\ stack.next_id <= next
  <2>1. p.next_id \in Nat
    BY <1>1
  <2>2. next = IF p.next_id >= 1 THEN p.next_id ELSE 1
    BY <1>2, <2>1, NextEntryId
  <2>3. QED
    BY <1>1, <2>1, <2>2
<1> HIDE DEF next
<1>4. new = infer_entries(b, next)
  BY DEF captured, next, p
<1>5. n \in Nat
  BY BurstPositions
<1>6. /\ new \in Seq(Entries) /\ DOMAIN new = 1 .. n /\ Len(new) = n
      /\ \A k \in DOMAIN new : new[k].id = next + k - 1
      /\ \A k \in DOMAIN new : new[k].closes \subseteq HooksOf(b)
  BY <1>3, <1>4, Inferred
<1> HIDE DEF n, new
<1>12. \A e \in Members(new) : e.closes \subseteq HooksOf(b)
  BY <1>6 DEF Members
<1>7. Distinct(new)
  BY <1>3, <1>5, <1>6 DEF Distinct
<1>8. \A e \in Members(new) : stack.next_id <= e.id /\ e.id < next + n /\ e.id \in Nat
  <2> SUFFICES ASSUME NEW k \in 1 .. n
               PROVE  stack.next_id <= new[k].id /\ new[k].id < next + n /\ new[k].id \in Nat
    BY <1>6 DEF Members
  <2>1. stack.next_id \in Nat /\ new[k].id = next + k - 1
    BY <1>6
  <2>2. QED
    BY <1>3, <1>5, <2>1
<1>9. CASE n = 0
  <2>1. new = << >>
    <3>1. new \in Seq(Entries) /\ Len(new) = 0
      BY <1>6, <1>9
    <3>2. QED
      BY ONLY <3>1, EmptySeq
  <2>2. more = stack /\ Members(new) = {}
    BY <2>1 DEF finalize_locked, Members
  <2>3. QED
    BY <1>6, <1>7, <1>12, <2>2 DEF new
<1>10. CASE n # 0
  <2>1. n \in DOMAIN new /\ new # << >> /\ new[Len(new)].id = next + n - 1
    BY <1>5, <1>6, <1>10
  <2>2. more = push_captures(p, new)
    BY <2>1 DEF finalize_locked, p
  <2>3. \A d \in Members(new), e \in Members(p.entries) : d.id # e.id
    <3> SUFFICES ASSUME NEW d \in Members(new), NEW e \in Members(p.entries)
                 PROVE  d.id # e.id
      OBVIOUS
    <3>1. e \in C /\ e.id < stack.next_id /\ stack.next_id <= d.id
      BY <1>1, <1>8
    <3>2. e.id \in Nat /\ d.id \in Nat /\ stack.next_id \in Nat
      BY <3>1, <1>8 DEF Entries
    <3>3. QED
      BY <3>1, <3>2
  <2>4. new[Len(new)].id \in Nat
    BY <2>1, <1>3, <1>5
  <2> HIDE DEF more
  <2>5. /\ more \in [entries : Seq(Entries), next_id : Nat]
        /\ more.next_id = new[Len(new)].id + 1
        /\ Len(more.entries) <= StackCap
        /\ Members(more.entries) \subseteq Members(p.entries) \cup Members(new)
        /\ Distinct(more.entries)
    BY <1>1, <1>6, <1>7, <2>1, <2>2, <2>3, <2>4, PushCapturesMembers
  <2>6. more.next_id = next + n /\ stack.next_id <= next + n
    <3>1. stack.next_id \in Nat
      OBVIOUS
    <3>2. QED
      BY <1>3, <1>5, <2>1, <2>5, <3>1
  <2>7. \A e \in Members(new) : stack.next_id <= e.id /\ e.id < more.next_id
    BY <1>8, <2>6
  <2>8. stack.next_id <= more.next_id
    BY <2>6
  <2>9. Members(more.entries) \subseteq Members(stack.entries) \cup Members(new)
    BY <1>1, <2>5
  <2>10. QED
    BY <1>6, <1>7, <1>12, <2>5, <2>7, <2>8, <2>9 DEF more, new
<1>11. QED
  BY <1>9, <1>10 DEF new

(***************************************************************************)
(* The inductive invariant.                                                *)
(***************************************************************************)
\* What is on the stack or in a reopen's hands was captured, under an id that
\* the persisted allocator has passed.
StackInv ==
  /\ \A e \in captures : e.id < closed.next_id
  /\ Members(closed.entries) \subseteq captures
  /\ \A r \in Reopens : popped[r] \in captures \cup {NoEntry}
  /\ IdsNeverReused

\* An entry is in one place: one position of the stack or one reopen.
Apart ==
  /\ Distinct(closed.entries)
  /\ \A r \in Reopens :
       popped[r] # NoEntry => \A e \in Members(closed.entries) : e.id # popped[r].id
  /\ \A q, r \in Reopens :
       (q # r /\ popped[q] # NoEntry /\ popped[r] # NoEntry) => popped[q].id # popped[r].id

Held == \A r \in Reopens : pc[r] \in {"restoring", "created"} => popped[r] # NoEntry

Short(b) ==
  b # NoBurst =>
    /\ b.first_ms <= b.last_ms
    /\ b.last_ms <= b.first_ms + BurstStale
    /\ \A i \in DOMAIN b.events : b.events[i].t0 <= b.last_ms

\* Bursts are short, and the one about to be written bears its writer's token.
BurstInv ==
  /\ Short(pending)
  /\ \A p \in Processes : Short(buffer[p])
  /\ \A h \in Hooks : pc[h] = "pushed" => buffer[h] # NoBurst /\ buffer[h].last_token = h
  /\ PendingHasOwner

\* One process at a time is between two writes, and what its second write takes
\* out of pending.json is settled by then.
Critical == {"pushed", "finalized", "unburst", "sweep", "prune"}

LockInv ==
  /\ \A p \in Processes : pc[p] \in Critical => lock = p
  /\ \A h \in Hooks :
       pc[h] = "pushed" => HooksOf(pending) \subseteq HooksOf(buffer[h]) \cup finalized \cup dropped
  /\ \A p \in Processes :
       pc[p] \in {"finalized", "unburst"} => HooksOf(pending) \subseteq finalized

IInv == TypeOK /\ StackInv /\ Apart /\ Held /\ BurstInv /\ LockInv

(***************************************************************************)
(* What one step does to a burst and to the stack.                         *)
(***************************************************************************)
LEMMA HooksOfBurst ==
  ASSUME NEW b \in Bursts \cup {NoBurst}
  PROVE  HooksOf(b) \in SUBSET Hooks
BY BurstPositions DEF HooksOf, Events

\* Joining a burst keeps its events unless the burst is over, and keeps it short.
LEMMA PushedBurst ==
  ASSUME NEW b \in Bursts \cup {NoBurst}, Short(b), NEW ev \in Events, NEW token \in Hooks,
         NEW frozen \in SUBSET UNION Snapshots
  PROVE  LET r == push_event(b, ev, token, frozen)
         IN  /\ r \in Bursts /\ Short(r)
             /\ r.last_token = token
             /\ \/ HooksOf(b) \subseteq HooksOf(r)
                \/ Expired(b, ev.t0) \/ Stale(b, ev.t0)
<1> DEFINE j == Joined(b, ev.t0)
           r == push_event(b, ev, token, frozen)
           new == b = NoBurst \/ Expired(b, ev.t0) \/ Stale(b, ev.t0)
           first == IF j.first_ms = 0 THEN ev.t0 ELSE j.first_ms
           last == IF ev.t0 > j.last_ms THEN ev.t0 ELSE j.last_ms
           fresh == {w \in frozen : \A x \in j.frozen : x.workspace_id # w.workspace_id}
<1>1. ev.t0 \in Nat /\ BurstStale \in Nat
  BY WindowAssumption DEF Events
<1>2. /\ j.first_ms \in Nat /\ j.last_ms \in Nat
      /\ j.events \in Seq(Events) /\ j.frozen \in SUBSET UNION Snapshots
      /\ j.first_ms <= j.last_ms /\ j.last_ms <= j.first_ms + BurstStale
      /\ ev.t0 <= j.first_ms + BurstStale
      /\ \A i \in DOMAIN j.events : j.events[i].t0 <= j.last_ms
  <2>1. CASE new
    <3>1. j = [first_ms |-> ev.t0, last_ms |-> ev.t0, last_token |-> None,
               events |-> << >>, frozen |-> {}]
      BY <2>1 DEF Joined
    <3>2. QED
      BY <1>1, <3>1
  <2>2. CASE ~new
    <3>1. j = b /\ b \in Bursts /\ b # NoBurst /\ ~Expired(b, ev.t0) /\ ~Stale(b, ev.t0)
      BY <2>2 DEF Joined
    <3>2. b.first_ms \in Nat /\ b.last_ms \in Nat /\ ~(Elapsed(ev.t0, b.first_ms) > BurstStale)
      BY <3>1 DEF Stale, Bursts
    <3>3. ev.t0 <= b.first_ms + BurstStale
      BY <1>1, <3>2 DEF Elapsed
    <3>4. QED
      BY <3>1, <3>2, <3>3 DEF Short, Bursts
  <2>3. QED
    BY <2>1, <2>2
<1>3. r = [first_ms |-> first, last_ms |-> last, last_token |-> token,
           events |-> Append(j.events, ev), frozen |-> j.frozen \cup fresh]
  BY DEF push_event
<1>4. HooksOf(b) \subseteq HooksOf(r) \/ Expired(b, ev.t0) \/ Stale(b, ev.t0)
  <2>1. CASE new
    BY <2>1 DEF HooksOf
  <2>2. CASE ~new
    <3>1. j = b /\ b \in Bursts
      BY <2>2 DEF Joined
    <3>2. \A i \in DOMAIN b.events :
            i \in DOMAIN r.events /\ r.events[i] = b.events[i]
      BY <1>2, <1>3, <3>1
    <3>3. r # NoBurst
      <4>1. "first_ms" \in DOMAIN r /\ "first_ms" \notin DOMAIN NoBurst
        BY <1>3 DEF NoBurst
      <4>2. QED
        BY <4>1
    <3>4. QED
      BY <3>2, <3>3 DEF HooksOf
  <2>3. QED
    BY <2>1, <2>2
<1> HIDE DEF j
<1>5. /\ first \in Nat /\ last \in Nat /\ first <= last /\ last <= first + BurstStale
      /\ ev.t0 <= last /\ j.last_ms <= last
  BY <1>1, <1>2
<1>6. /\ Append(j.events, ev) \in Seq(Events) \ {<< >>}
      /\ \A i \in DOMAIN Append(j.events, ev) :
           \/ i \in DOMAIN j.events /\ Append(j.events, ev)[i] = j.events[i]
           \/ Append(j.events, ev)[i] = ev
  <2> DEFINE s == j.events
  <2>1. s \in Seq(Events) /\ ev \in Events
    BY <1>2
  <2> HIDE DEF s
  <2>2. /\ Append(s, ev) \in Seq(Events) \ {<< >>}
        /\ \A i \in DOMAIN Append(s, ev) :
             \/ i \in DOMAIN s /\ Append(s, ev)[i] = s[i]
             \/ Append(s, ev)[i] = ev
    BY ONLY <2>1
  <2>3. QED
    BY <2>2 DEF s
<1>7. \A i \in DOMAIN j.events : j.events[i].t0 \in Nat
  <2>1. \A i \in DOMAIN j.events : j.events[i] \in Events
    BY <1>2
  <2>2. QED
    BY <2>1 DEF Events
<1> HIDE DEF last
<1>8. \A i \in DOMAIN Append(j.events, ev) : Append(j.events, ev)[i].t0 <= last
  <2>1. \A i \in DOMAIN j.events : j.events[i].t0 <= last
    BY <1>2, <1>5, <1>7
  <2>2. QED
    BY <1>5, <1>6, <2>1
<1> DEFINE events == Append(j.events, ev)
<1> HIDE DEF events, r
<1>9. r \in Bursts
  <2>1. j.frozen \cup fresh \in SUBSET UNION Snapshots
    BY <1>2
  <2> HIDE DEF fresh
  <2>2. events \in Seq(Events) \ {<< >>}
    BY <1>6 DEF events
  <2>3. QED
    BY <1>2, <1>3, <1>5, <2>1, <2>2 DEF Bursts, events
<1>10. Short(r)
  BY <1>3, <1>5, <1>8 DEF Short, events
<1>11. r.last_token = token
  BY <1>3
<1>12. QED
  BY <1>4, <1>9, <1>10, <1>11 DEF r

LEMMA FinalizeStep ==
  ASSUME TypeOK, StackInv, Apart, NEW b \in Bursts, Finalize(b), popped' = popped
  PROVE  /\ closed' \in [entries : Seq(Entries), next_id : Nat]
         /\ Len(closed'.entries) <= StackCap
         /\ captures' \in SUBSET Entries
         /\ finalized' = finalized \cup HooksOf(b) /\ finalized' \in SUBSET Hooks
         /\ StackInv' /\ Apart'
         /\ captures \subseteq captures'
         /\ \A e \in captures' \ captures : e.closes \subseteq HooksOf(b)
         /\ Members(closed'.entries) \subseteq Members(closed.entries) \cup (captures' \ captures)
<1> DEFINE new  == captured(closed, b, now)
           more == finalize_locked(closed, new, now)
<1>1. /\ closed \in [entries : Seq(Entries), next_id : Nat]
      /\ Len(closed.entries) <= StackCap /\ Distinct(closed.entries)
      /\ captures \in SUBSET Entries /\ Members(closed.entries) \subseteq captures
      /\ \A e \in captures : e.id < closed.next_id
  BY DEF TypeOK, StackInv, Apart
<1>2. /\ closed' = more
      /\ captures' = captures \cup Members(new)
      /\ finalized' = finalized \cup HooksOf(b)
  BY DEF Finalize, Members
<1>3. /\ new \in Seq(Entries) /\ Distinct(new)
      /\ more \in [entries : Seq(Entries), next_id : Nat]
      /\ Len(more.entries) <= StackCap
      /\ closed.next_id <= more.next_id
      /\ \A e \in Members(new) : closed.next_id <= e.id /\ e.id < more.next_id
      /\ \A e \in Members(new) : e.closes \subseteq HooksOf(b)
      /\ Members(more.entries) \subseteq Members(closed.entries) \cup Members(new)
      /\ Distinct(more.entries)
  BY <1>1, FinalizedStack
<1> HIDE DEF new, more
<1>4. Members(new) \in SUBSET Entries
  BY <1>3 DEF Members
<1>5. captures' \in SUBSET Entries /\ finalized' \in SUBSET Hooks
  BY <1>1, <1>2, <1>4, HooksOfBurst DEF TypeOK
<1>6. closed.next_id \in Nat /\ closed'.next_id \in Nat /\ \A e \in Entries : e.id \in Nat
  BY <1>1, <1>2, <1>3 DEF Entries
<1>7. \A d \in captures, e \in Members(new) : d.id # e.id
  BY <1>1, <1>3, <1>4, <1>6
<1>8. StackInv'
  <2>1. \A e \in captures' : e.id < closed'.next_id
    <3>1. ASSUME NEW e \in captures PROVE e.id < more.next_id
      <4>1. e.id \in Nat /\ e.id < closed.next_id /\ closed.next_id <= more.next_id
        BY <1>1, <1>3, <1>6
      <4>2. QED
        BY <4>1, <1>2, <1>6
    <3>2. QED
      BY <1>2, <1>3, <3>1
  <2>2. Members(closed'.entries) \subseteq captures'
    BY <1>1, <1>2, <1>3
  <2>3. \A r \in Reopens : popped'[r] \in captures' \cup {NoEntry}
    BY <1>2 DEF StackInv
  <2>4. IdsNeverReused'
    <3>1. \A d, e \in Members(new) : d.id = e.id => d = e
      BY <1>3 DEF Members, Distinct
    <3>2. QED
      BY <1>2, <1>7, <3>1 DEF StackInv, IdsNeverReused
  <2>5. QED
    BY <2>1, <2>2, <2>3, <2>4 DEF StackInv
<1>9. Apart'
  <2>1. \A r \in Reopens :
          popped[r] # NoEntry => \A e \in Members(more.entries) : e.id # popped[r].id
    BY <1>3, <1>7 DEF StackInv, Apart
  <2>2. QED
    BY <1>2, <1>3, <2>1 DEF Apart
<1>10. captures' \ captures = Members(new)
  BY <1>2, <1>7
<1>11. QED
  BY <1>2, <1>3, <1>5, <1>8, <1>9, <1>10

(***************************************************************************)
(* Every step keeps the invariant.                                         *)
(***************************************************************************)
LEMMA InitIInv == Init => IInv
<1> SUFFICES ASSUME Init PROVE IInv
  OBVIOUS
<1> USE DEF Init
<1>1. TypeOK
  <2>1. EmptyStack \in [entries : Seq(Entries), next_id : Nat] /\ Len(EmptyStack.entries) <= StackCap
    BY StackCapAssumption DEF EmptyStack
  <2>2. QED
    BY <2>1 DEF TypeOK
<1>2. Members(closed.entries) = {} /\ Distinct(closed.entries)
  <2>1. closed.entries = << >> /\ DOMAIN << >> = {}
    BY DEF EmptyStack
  <2>2. QED
    BY <2>1 DEF Members, Distinct
<1>3. StackInv /\ Apart /\ Held
  <2>1. captures = {} /\ \A r \in Reopens : popped[r] = NoEntry /\ pc[r] = "idle"
    BY DEF Processes
  <2>2. QED
    BY ONLY <1>2, <2>1 DEF StackInv, Apart, Held, IdsNeverReused
<1>4. BurstInv
  BY DEF BurstInv, Short, PendingHasOwner, Processes
<1>5. LockInv
  BY DEF LockInv, Processes, Critical
<1>6. QED
  BY <1>1, <1>3, <1>4, <1>5 DEF IInv

\* What PushEvent computes from the files.
LEMMA PushedEvent ==
  ASSUME IInv, NEW h \in Hooks, PushEvent(h)
  PROVE  /\ buffer' = [buffer EXCEPT ![h] = buffer'[h]]
         /\ buffer'[h] \in Bursts /\ Short(buffer'[h]) /\ buffer'[h].last_token = h
         /\ \/ HooksOf(pending) \subseteq HooksOf(buffer'[h])
            \/ Expired(pending, t0[h]) \/ Stale(pending, t0[h])
<1>1. PICK snap \in Snapshots, prev \in Snapshots :
         LET ev == EventOf(h)
         IN  buffer' = [buffer EXCEPT ![h] =
               push_event(pending, ev, h, freeze_for(best_snapshot(snap, prev, ev), ev))]
  BY DEF PushEvent
<1> DEFINE ev == EventOf(h)
           frozen == freeze_for(best_snapshot(snap, prev, ev), ev)
<1>2. ev \in Events /\ ev.t0 = t0[h]
  BY GestureAssumption DEF EventOf, Events, IInv, TypeOK, Processes
<1> HIDE DEF ev
<1>3. frozen \in SUBSET UNION Snapshots
  BY DEF freeze_for, best_snapshot
<1> HIDE DEF frozen
<1>4. pending \in Bursts \cup {NoBurst} /\ Short(pending)
  BY DEF IInv, TypeOK, BurstInv
<1> DEFINE r == push_event(pending, ev, h, frozen)
<1>5. /\ r \in Bursts /\ Short(r) /\ r.last_token = h
      /\ \/ HooksOf(pending) \subseteq HooksOf(r)
         \/ Expired(pending, ev.t0) \/ Stale(pending, ev.t0)
  BY <1>2, <1>3, <1>4, PushedBurst
<1>6. buffer' = [buffer EXCEPT ![h] = r]
  BY <1>1 DEF ev, frozen
<1> HIDE DEF r
<1>7. buffer'[h] = r
  BY <1>6 DEF IInv, TypeOK, Processes
<1>8. QED
  BY <1>2, <1>5, <1>6, <1>7

\* The three actions that finalize, seen from the stack.
LEMMA FinalizingStep ==
  ASSUME IInv,
         \/ \E h \in Hooks : PushEvent(h) \/ FinalizeBurst(h)
         \/ \E c \in Recoverers : RecoverBurst(c)
  PROVE  /\ closed' \in [entries : Seq(Entries), next_id : Nat]
         /\ Len(closed'.entries) <= StackCap
         /\ captures' \in SUBSET Entries
         /\ finalized \subseteq finalized' /\ finalized' \in SUBSET Hooks
         /\ StackInv' /\ Apart'
<1>1. popped' = popped
  BY DEF PushEvent, FinalizeBurst, RecoverBurst
<1>2. TypeOK /\ StackInv /\ Apart
  BY DEF IInv
<1>3. CASE Finalize(pending) /\ pending # NoBurst
  <2>1. pending \in Bursts
    BY <1>2, <1>3 DEF TypeOK
  <2>2. QED
    BY <1>1, <1>2, <1>3, <2>1, FinalizeStep
<1>4. CASE closed' = closed /\ captures' = captures /\ finalized' = finalized
  BY <1>1, <1>2, <1>4 DEF TypeOK, StackInv, Apart, IdsNeverReused
<1>5. QED
  BY <1>3, <1>4 DEF PushEvent, FinalizeExpired, FinalizeBurst, RecoverBurst, Expired, Abandoned, owns_finalization

LEMMA StepTypeOK == IInv /\ Next => TypeOK'
<1> SUFFICES ASSUME IInv, Next PROVE TypeOK'
  OBVIOUS
<1> USE DEF TypeOK, Goto, files, history
<1>0. TypeOK /\ Hooks \subseteq Processes /\ Reopens \subseteq Processes
      /\ Recoverers \subseteq Processes
  BY DEF IInv, Processes
<1>1. ASSUME NEW h \in Hooks, StartHook(h) PROVE TypeOK'
  BY <1>0, <1>1 DEF StartHook
<1>2. ASSUME NEW h \in Hooks, CheckHook(h) PROVE TypeOK'
  <2>1. \/ pc' = [pc EXCEPT ![h] = "done"] /\ t0' = [t0 EXCEPT ![h] = 0]
        \/ pc' = [pc EXCEPT ![h] = "push"] /\ t0' = t0
    BY <1>2 DEF CheckHook, Finish
  <2>2. UNCHANGED <<now, files, lock, buffer, popped, history, crashes>>
    BY <1>2 DEF CheckHook
  <2>3. CASE pc' = [pc EXCEPT ![h] = "done"] /\ t0' = [t0 EXCEPT ![h] = 0]
    BY <1>0, <2>2, <2>3
  <2>4. CASE pc' = [pc EXCEPT ![h] = "push"] /\ t0' = t0
    BY <1>0, <2>2, <2>4
  <2>5. QED
    BY <2>1, <2>3, <2>4
<1>3. ASSUME NEW h \in Hooks, PushEvent(h) PROVE TypeOK'
  <2>1. /\ closed' \in [entries : Seq(Entries), next_id : Nat]
        /\ Len(closed'.entries) <= StackCap
        /\ captures' \in SUBSET Entries /\ finalized' \in SUBSET Hooks
    BY <1>3, FinalizingStep
  <2>2. buffer' \in [Processes -> Bursts \cup {NoBurst}]
    BY <1>0, <1>3, PushedEvent
  <2>3. dropped' \in SUBSET Hooks
    BY <1>0, <1>3, HooksOfBurst DEF PushEvent
  <2>4. QED
    BY <1>0, <1>3, <2>1, <2>2, <2>3 DEF PushEvent, Acquire
<1>4. ASSUME NEW h \in Hooks, WritePending(h) PROVE TypeOK'
  BY <1>0, <1>4 DEF WritePending, Release
<1>5. ASSUME NEW h \in Hooks, FinalizeBurst(h) PROVE TypeOK'
  <2>1. /\ closed' \in [entries : Seq(Entries), next_id : Nat]
        /\ Len(closed'.entries) <= StackCap
        /\ captures' \in SUBSET Entries /\ finalized' \in SUBSET Hooks
    BY <1>5, FinalizingStep
  <2>2. QED
    BY <1>0, <1>5, <2>1 DEF FinalizeBurst, Acquire
<1>6. ASSUME NEW h \in Hooks, ClearPending(h) PROVE TypeOK'
  BY <1>0, <1>6 DEF ClearPending, Release, Finish
<1>7. ASSUME NEW h \in Hooks, LeaveBurst(h) PROVE TypeOK'
  BY <1>0, <1>7 DEF LeaveBurst, Unlocked, Finish
<1>8. ASSUME NEW r \in Reopens, Pop(r) PROVE TypeOK'
  <2>1. PICK i \in DOMAIN prune_entries(closed, now).entries :
          /\ popped' = [popped EXCEPT ![r] = prune_entries(closed, now).entries[i]]
          /\ closed' = pop_at(prune_entries(closed, now), i)
    BY <1>8 DEF Pop
  <2> DEFINE stack == prune_entries(closed, now)
  <2>2. stack \in [entries : Seq(Entries), next_id : Nat] /\ Len(stack.entries) <= StackCap
    BY <1>0, PruneMembers
  <2> HIDE DEF stack
  <2>3. /\ closed' \in [entries : Seq(Entries), next_id : Nat]
        /\ Len(closed'.entries) <= Len(stack.entries)
    BY <2>1, <2>2, PopMembers DEF stack
  <2>4. stack.entries[i] \in Entries /\ Len(closed'.entries) <= StackCap
    BY <2>1, <2>2, <2>3, StackCapAssumption DEF stack
  <2>5. popped' \in [Reopens -> Entries \cup {NoEntry}]
    BY <1>0, <2>1, <2>4 DEF stack
  <2>6. QED
    BY <1>0, <1>8, <2>3, <2>4, <2>5 DEF Pop, Unlocked
<1>9. ASSUME NEW r \in Reopens, FindNothing(r) \/ Create(r) PROVE TypeOK'
  BY <1>0, <1>9 DEF FindNothing, Create, Unlocked
<1>10. ASSUME NEW r \in Reopens, RecordCreated(r) PROVE TypeOK'
  <2>1. Rebuilt[r] \in Ids
    BY GestureAssumption
  <2>2. QED
    BY <1>0, <1>10, <2>1 DEF RecordCreated, record_self_created, Unlocked
<1>11. ASSUME NEW r \in Reopens, PushBack(r) PROVE TypeOK'
  <2>1. popped[r] \in Entries
    BY <1>0, <1>11 DEF IInv, Held, PushBack
  <2>2. /\ closed' \in [entries : Seq(Entries), next_id : Nat]
        /\ Len(closed'.entries) <= StackCap
    BY <1>0, <1>11, <2>1, PushBackMembers DEF PushBack
  <2>3. QED
    BY <1>0, <1>11, <2>2 DEF PushBack, Unlocked
<1>12. ASSUME NEW c \in Recoverers, Startup(c) PROVE TypeOK'
  BY <1>0, <1>12 DEF Startup
<1>13. ASSUME NEW c \in Recoverers, RecoverOnce(c) PROVE TypeOK'
  BY <1>0, <1>13 DEF RecoverOnce
<1>14. ASSUME NEW c \in Recoverers, RecoverBurst(c) PROVE TypeOK'
  <2>1. /\ closed' \in [entries : Seq(Entries), next_id : Nat]
        /\ Len(closed'.entries) <= StackCap
        /\ captures' \in SUBSET Entries /\ finalized' \in SUBSET Hooks
    BY <1>14, FinalizingStep
  <2>2. QED
    BY <1>0, <1>14, <2>1 DEF RecoverBurst, Acquire
<1>15. ASSUME NEW c \in Recoverers, RecoverPending(c) \/ ForgetCreated(c) PROVE TypeOK'
  BY <1>0, <1>15 DEF RecoverPending, ForgetCreated
<1>16. ASSUME NEW c \in Recoverers, PruneStack(c) PROVE TypeOK'
  <2>1. /\ closed' \in [entries : Seq(Entries), next_id : Nat]
        /\ Len(closed'.entries) <= StackCap
    BY <1>0, <1>16, PruneMembers DEF PruneStack
  <2>2. QED
    BY <1>0, <1>16, <2>1 DEF PruneStack, Release, Finish
<1>17. ASSUME NEW p \in Processes, Crash(p) PROVE TypeOK'
  BY <1>0, <1>17 DEF Crash
<1>18. CASE Tick
  BY <1>0, <1>18 DEF Tick
<1>19. QED
  BY <1>1, <1>2, <1>3, <1>4, <1>5, <1>6, <1>7, <1>8, <1>9, <1>10, <1>11, <1>12, <1>13, <1>14, <1>15, <1>16, <1>17, <1>18
     DEF Next, HookStep, ReopenStep, RecoverStep

LEMMA StepStack == IInv /\ Next => StackInv' /\ Apart'
<1> SUFFICES ASSUME IInv, Next PROVE StackInv' /\ Apart'
  OBVIOUS
<1>0. /\ StackInv /\ Apart
      /\ closed \in [entries : Seq(Entries), next_id : Nat] /\ Len(closed.entries) <= StackCap
      /\ popped \in [Reopens -> Entries \cup {NoEntry}]
  BY DEF IInv, TypeOK
<1>1. CASE \/ \E h \in Hooks : PushEvent(h) \/ FinalizeBurst(h)
           \/ \E c \in Recoverers : RecoverBurst(c)
  BY <1>1, FinalizingStep
<1>2. ASSUME NEW r \in Reopens, Pop(r) PROVE StackInv' /\ Apart'
  <2> DEFINE stack == prune_entries(closed, now)
  <2>1. PICK i \in DOMAIN stack.entries :
          /\ popped' = [popped EXCEPT ![r] = stack.entries[i]]
          /\ closed' = pop_at(stack, i)
    BY <1>2 DEF Pop
  <2>2. /\ stack \in [entries : Seq(Entries), next_id : Nat]
        /\ stack.next_id = closed.next_id
        /\ Members(stack.entries) \subseteq Members(closed.entries)
        /\ Distinct(stack.entries)
    BY <1>0, PruneMembers DEF Apart
  <2> HIDE DEF stack
  <2> DEFINE e == stack.entries[i]
  <2>3. /\ closed'.next_id = closed.next_id
        /\ Members(closed'.entries) \subseteq Members(stack.entries)
        /\ Distinct(closed'.entries)
        /\ \A d \in Members(closed'.entries) : d.id # e.id
    BY <2>1, <2>2, PopMembers
  <2>4. e \in Members(stack.entries) /\ e \in Members(closed.entries)
    BY <2>2 DEF Members
  <2> HIDE DEF e
  <2>5. popped' = [popped EXCEPT ![r] = e] /\ captures' = captures
    BY <1>2, <2>1 DEF Pop, history, e
  <2>6. popped'[r] = e /\ \A q \in Reopens \ {r} : popped'[q] = popped[q]
    BY <1>0, <2>5
  <2>7. StackInv'
    BY <1>0, <2>2, <2>3, <2>4, <2>5, <2>6 DEF StackInv, IdsNeverReused
  <2>8. Apart'
    <3>1. \A q \in Reopens \ {r} : popped[q] # NoEntry =>
            \A d \in Members(closed.entries) : d.id # popped[q].id
      BY <1>0 DEF Apart
    <3>2. \A q \in Reopens : popped'[q] # NoEntry =>
            \A d \in Members(closed'.entries) : d.id # popped'[q].id
      BY <2>2, <2>3, <2>6, <3>1
    <3>3. \A p, q \in Reopens :
            (p # q /\ popped'[p] # NoEntry /\ popped'[q] # NoEntry) => popped'[p].id # popped'[q].id
      BY <1>0, <2>4, <2>6, <3>1 DEF Apart
    <3>4. QED
      BY <2>3, <3>2, <3>3 DEF Apart
  <2>9. QED
    BY <2>7, <2>8
<1>3. ASSUME NEW r \in Reopens, PushBack(r) PROVE StackInv' /\ Apart'
  <2> DEFINE e == popped[r]
  <2>1. /\ e \in Entries /\ e # NoEntry /\ e \in captures
        /\ \A d \in Members(closed.entries) : d.id # e.id
        /\ \A q \in Reopens \ {r} : popped[q] # NoEntry => popped[q].id # e.id
    BY <1>0, <1>3 DEF IInv, Held, PushBack, StackInv, Apart
  <2>2. /\ closed' = push_back(closed, e) /\ captures' = captures
        /\ popped'[r] = NoEntry /\ \A q \in Reopens \ {r} : popped'[q] = popped[q]
    BY <1>0, <1>3 DEF PushBack, history
  <2> HIDE DEF e
  <2> DEFINE more == push_back(closed, e)
  <2>3. /\ closed'.next_id = closed.next_id
        /\ Members(closed'.entries) \subseteq Members(closed.entries) \cup {e}
        /\ Distinct(closed'.entries)
    <3>1. /\ more.next_id = closed.next_id
          /\ Members(more.entries) \subseteq Members(closed.entries) \cup {e}
          /\ Distinct(closed.entries) => Distinct(more.entries)
      <4>1. /\ closed \in [entries : Seq(Entries), next_id : Nat]
            /\ Len(closed.entries) <= StackCap /\ e \in Entries
        BY <1>0, <2>1
      <4>2. QED
        BY ONLY <4>1, PushBackMembers
    <3>2. Distinct(closed.entries)
      BY <1>0 DEF Apart
    <3>3. closed' = more
      BY <2>2
    <3> HIDE DEF more
    <3>4. QED
      BY <3>1, <3>2, <3>3
  <2>4. StackInv'
    BY <1>0, <2>1, <2>2, <2>3 DEF StackInv, IdsNeverReused
  <2>5. Apart'
    <3>1. \A q \in Reopens : popped'[q] # NoEntry =>
            \A d \in Members(closed'.entries) : d.id # popped'[q].id
      BY <1>0, <2>1, <2>2, <2>3 DEF Apart
    <3>2. \A p, q \in Reopens :
            (p # q /\ popped'[p] # NoEntry /\ popped'[q] # NoEntry) => popped'[p].id # popped'[q].id
      BY <1>0, <2>2 DEF Apart
    <3>3. QED
      BY <2>3, <3>1, <3>2 DEF Apart
  <2>6. QED
    BY <2>4, <2>5
<1>4. ASSUME NEW c \in Recoverers, PruneStack(c) PROVE StackInv' /\ Apart'
  <2>1. /\ closed'.next_id = closed.next_id
        /\ Members(closed'.entries) \subseteq Members(closed.entries)
        /\ Distinct(closed'.entries)
    BY <1>0, <1>4, PruneMembers DEF PruneStack, Apart
  <2>2. captures' = captures /\ popped' = popped
    BY <1>4 DEF PruneStack, history
  <2>3. QED
    BY <1>0, <2>1, <2>2 DEF StackInv, Apart, IdsNeverReused
<1>5. CASE UNCHANGED <<closed, captures, popped>>
  BY <1>0, <1>5 DEF StackInv, Apart, IdsNeverReused
<1>6. \/ \E h \in Hooks : PushEvent(h) \/ FinalizeBurst(h)
      \/ \E c \in Recoverers : RecoverBurst(c) \/ PruneStack(c)
      \/ \E r \in Reopens : Pop(r) \/ PushBack(r)
      \/ UNCHANGED <<closed, captures, popped>>
  BY DEF Next, HookStep, ReopenStep, RecoverStep, files, history, StartHook, CheckHook,
         WritePending, ClearPending, LeaveBurst, FindNothing, Create, RecordCreated, Startup, RecoverOnce,
         RecoverPending, ForgetCreated, Crash, Tick
<1>7. QED
  BY <1>1, <1>2, <1>3, <1>4, <1>5, <1>6

\* A reopen that is under way holds an entry.
LEMMA StepHeld == IInv /\ Next => Held'
<1> SUFFICES ASSUME IInv, Next, NEW r \in Reopens, pc'[r] \in {"restoring", "created"}
             PROVE  popped'[r] # NoEntry
  BY DEF Held
<1>1. /\ pc[r] \in {"restoring", "created"} => popped[r] # NoEntry
      /\ pc \in [Processes -> {"idle", "check", "push", "pushed", "sleep", "finalized",
                               "restoring", "created", "recover", "unburst", "sweep",
                               "prune", "done", "dead"}]
      /\ popped \in [Reopens -> Entries \cup {NoEntry}]
      /\ \A h \in Hooks : h # r
      /\ \A c \in Recoverers : c # r
      /\ r \in Processes
  BY ProcessAssumption DEF IInv, TypeOK, Held, Processes
<1>2. ASSUME Pop(r) PROVE popped'[r] # NoEntry
  <2> DEFINE stack == prune_entries(closed, now)
  <2>1. stack \in [entries : Seq(Entries), next_id : Nat]
    BY PruneMembers DEF IInv, TypeOK
  <2>2. PICK i \in DOMAIN stack.entries : popped' = [popped EXCEPT ![r] = stack.entries[i]]
    BY <1>2 DEF Pop
  <2>3. stack.entries[i] \in Entries
    BY <2>1, <2>2
  <2>4. QED
    BY <1>1, <2>2, <2>3, RecordsAreNotNone
<1>3. ASSUME ~Pop(r) PROVE popped'[r] = popped[r] /\ pc[r] \in {"restoring", "created"}
  <2>1. ASSUME NEW h \in Hooks, HookStep(h) PROVE popped' = popped /\ pc'[r] = pc[r]
    BY <1>1, <2>1 DEF HookStep, Goto, Finish, files, history, StartHook, CheckHook, PushEvent,
         WritePending, FinalizeBurst, ClearPending, LeaveBurst
  <2>2. ASSUME NEW c \in Recoverers, RecoverStep(c) PROVE popped' = popped /\ pc'[r] = pc[r]
    BY <1>1, <2>2 DEF RecoverStep, Goto, Finish, files, history, Startup, RecoverOnce,
         RecoverBurst, RecoverPending, ForgetCreated, PruneStack
  <2>3. ASSUME NEW q \in Reopens, ReopenStep(q)
        PROVE  popped'[r] = popped[r] /\ pc[r] \in {"restoring", "created"}
    <3>1. q \in Processes
      BY DEF Processes
    <3>2. CASE Pop(q)
      <4>1. q # r
        BY <1>3, <3>2
      <4>2. popped'[r] = popped[r] /\ pc'[r] = pc[r]
        BY <1>1, <3>1, <3>2, <4>1 DEF Pop, Goto
      <4>3. QED
        BY <4>2
    <3>3. CASE FindNothing(q) \/ Create(q) \/ RecordCreated(q)
      BY <1>1, <3>1, <3>3 DEF FindNothing, Create, RecordCreated, Goto, files, history
    <3>4. CASE PushBack(q)
      BY <1>1, <3>1, <3>4 DEF PushBack, Goto
    <3>5. QED
      BY <2>3, <3>2, <3>3, <3>4 DEF ReopenStep
  <2>4. ASSUME NEW p \in Processes, Crash(p)
        PROVE  popped'[r] = popped[r] /\ pc[r] \in {"restoring", "created"}
    BY <1>1, <2>4 DEF Crash, Goto
  <2>5. CASE Tick
    BY <2>5 DEF Tick
  <2>6. QED
    BY <2>1, <2>2, <2>3, <2>4, <2>5 DEF Next
<1>4. QED
  BY <1>1, <1>2, <1>3

\* Bursts stay short and owned.
LEMMA StepBurst == IInv /\ Next => BurstInv'
<1> SUFFICES ASSUME IInv, Next PROVE BurstInv'
  OBVIOUS
<1> DEFINE Token == \A h \in Hooks :
                      pc[h] = "pushed" => buffer[h] # NoBurst /\ buffer[h].last_token = h
           Buffers == \A p \in Processes : Short(buffer[p])
<1>0. /\ Short(pending) /\ Buffers /\ Token /\ PendingHasOwner
      /\ Hooks \subseteq Processes /\ Reopens \subseteq Processes /\ Recoverers \subseteq Processes
      /\ \A h \in Hooks : h \notin Reopens /\ h \notin Recoverers
      /\ DOMAIN pc = Processes /\ DOMAIN buffer = Processes /\ crashes \in Nat
      /\ pending \in Bursts \cup {NoBurst}
      /\ pending # NoBurst => pending.last_token \in Hooks
      /\ Short(NoBurst)
  BY ProcessAssumption DEF IInv, BurstInv, TypeOK, Processes, Bursts, Short
<1>1. ASSUME NEW h \in Hooks, PushEvent(h) PROVE BurstInv'
  <2>1. /\ buffer' = [buffer EXCEPT ![h] = buffer'[h]]
        /\ buffer'[h] \in Bursts /\ Short(buffer'[h]) /\ buffer'[h].last_token = h
    BY <1>1, PushedEvent
  <2>2. pc' = [pc EXCEPT ![h] = "pushed"] /\ pc[h] = "push" /\ pending' = pending /\ crashes' = crashes
    BY <1>1 DEF PushEvent, Goto
  <2>3. PendingHasOwner'
    BY <1>0, <2>2 DEF PendingHasOwner
  <2>4. Buffers'
    BY <1>0, <2>1
  <2>5. Token'
    BY <1>0, <2>1, <2>2, RecordsAreNotNone
  <2>6. QED
    BY <1>0, <2>2, <2>3, <2>4, <2>5 DEF BurstInv
<1>2. ASSUME NEW h \in Hooks, WritePending(h) PROVE BurstInv'
  <2>1. /\ pc[h] = "pushed" /\ pc' = [pc EXCEPT ![h] = "sleep"]
        /\ pending' = buffer[h] /\ buffer' = [buffer EXCEPT ![h] = NoBurst]
    BY <1>2 DEF WritePending, Goto
  <2>2. PendingHasOwner'
    BY <1>0, <2>1 DEF PendingHasOwner
  <2>3. QED
    BY <1>0, <2>1, <2>2 DEF BurstInv
<1>3. ASSUME NEW p \in Processes, Crash(p) PROVE BurstInv'
  <2>1. /\ pending' = pending /\ buffer' = [buffer EXCEPT ![p] = NoBurst]
        /\ pc' = [pc EXCEPT ![p] = "dead"] /\ crashes' = crashes + 1
    BY <1>3 DEF Crash, Goto, files
  <2>2. QED
    BY <1>0, <2>1 DEF BurstInv, PendingHasOwner
<1>4. CASE pending' = NoBurst /\ buffer' = buffer /\ \A h \in Hooks : pc'[h] = "pushed" => pc[h] = "pushed"
  BY <1>0, <1>4 DEF BurstInv, PendingHasOwner
<1>5. CASE /\ pending' = pending /\ buffer' = buffer /\ crashes' = crashes
           /\ \A h \in Hooks : pc'[h] = "pushed" => pc[h] = "pushed"
           /\ \A h \in Hooks : (pc[h] \in {"sleep", "finalized"} /\ pc'[h] \notin {"sleep", "finalized"})
                                 => ~owns_finalization(pending, h)
  BY <1>0, <1>5 DEF BurstInv, PendingHasOwner, owns_finalization
<1>6. ASSUME NEW h \in Hooks, HookStep(h), ~PushEvent(h), ~WritePending(h) PROVE BurstInv'
  <2>1. CASE ClearPending(h)
    BY <1>0, <1>4, <2>1 DEF ClearPending, Goto, Finish
  <2>2. CASE StartHook(h)
    BY <1>0, <1>5, <2>2 DEF StartHook, Goto, files
  <2>3. CASE CheckHook(h)
    <3>1. /\ pc[h] = "check" /\ \E to \in {"done", "push"} : pc' = [pc EXCEPT ![h] = to]
          /\ pending' = pending /\ buffer' = buffer /\ crashes' = crashes
      BY <2>3 DEF CheckHook, Goto, Finish, files
    <3>2. QED
      BY <1>0, <1>5, <3>1
  <2>4. CASE FinalizeBurst(h)
    BY <1>0, <1>5, <2>4 DEF FinalizeBurst, Goto
  <2>5. CASE LeaveBurst(h)
    BY <1>0, <1>5, <2>5 DEF LeaveBurst, Goto, Finish, files
  <2>6. QED
    BY <1>6, <2>1, <2>2, <2>3, <2>4, <2>5 DEF HookStep
<1>7. ASSUME NEW r \in Reopens, ReopenStep(r) PROVE BurstInv'
  <2>1. /\ pending' = pending /\ buffer' = buffer /\ crashes' = crashes
        /\ \E to : pc' = [pc EXCEPT ![r] = to]
    BY <1>7 DEF ReopenStep, Pop, FindNothing, Create, RecordCreated, PushBack, Goto, files, history
  <2>2. \A h \in Hooks : pc'[h] = pc[h]
    BY <1>0, <2>1
  <2>3. QED
    BY <1>5, <2>1, <2>2
<1>8. ASSUME NEW c \in Recoverers, RecoverStep(c) PROVE BurstInv'
  <2>1. /\ (pending' = pending /\ crashes' = crashes) \/ pending' = NoBurst
        /\ buffer' = buffer /\ \E to : pc' = [pc EXCEPT ![c] = to]
    BY <1>8 DEF RecoverStep, Startup, RecoverOnce, RecoverBurst, RecoverPending, ForgetCreated,
                PruneStack, Goto, Finish, files, history
  <2>2. \A h \in Hooks : pc'[h] = pc[h]
    BY <1>0, <2>1
  <2>3. QED
    BY <1>4, <1>5, <2>1, <2>2
<1>9. CASE Tick
  BY <1>0, <1>5, <1>9 DEF Tick, files
<1>10. QED
  BY <1>1, <1>2, <1>3, <1>6, <1>7, <1>8, <1>9 DEF Next

\* The lock and what the second write of a locked section may take away.
LEMMA StepLock == IInv /\ Next => LockInv'
<1> SUFFICES ASSUME IInv, Next PROVE LockInv'
  OBVIOUS
<1>0. /\ LockInv /\ lock \in Processes \cup {None} /\ None \notin Processes
      /\ Hooks \subseteq Processes /\ Reopens \subseteq Processes /\ Recoverers \subseteq Processes
      /\ \A h \in Hooks : h \notin Reopens /\ h \notin Recoverers
      /\ DOMAIN pc = Processes /\ DOMAIN buffer = Processes
      /\ pending \in Bursts \cup {NoBurst} /\ HooksOf(NoBurst) = {}
  BY ProcessAssumption DEF IInv, TypeOK, Processes, HooksOf
<1> USE DEF Critical
<1>1. ASSUME NEW h \in Hooks, PushEvent(h) PROVE LockInv'
  <2>1. /\ pc' = [pc EXCEPT ![h] = "pushed"] /\ lock = None /\ lock' = h /\ pending' = pending
        /\ finalized' = finalized \cup (IF Expired(pending, t0[h]) THEN HooksOf(pending) ELSE {})
        /\ dropped' = dropped \cup (IF Stale(pending, t0[h]) THEN HooksOf(pending) ELSE {})
    BY <1>1 DEF PushEvent, FinalizeExpired, Acquire, Goto, Finalize
  <2>2. \/ HooksOf(pending) \subseteq HooksOf(buffer'[h])
        \/ Expired(pending, t0[h]) \/ Stale(pending, t0[h])
    BY <1>1, PushedEvent
  <2>3. \A p \in Processes : pc[p] \notin Critical
    BY <1>0, <2>1 DEF LockInv
  <2>4. \A p \in Processes : pc'[p] \in Critical => p = h
    BY <1>0, <2>1, <2>3
  <2>5. HooksOf(pending) \subseteq HooksOf(buffer'[h]) \cup finalized' \cup dropped'
    BY <2>1, <2>2
  <2>6. pc'[h] = "pushed"
    BY <1>0, <2>1
  <2>7. QED
    BY <1>0, <2>1, <2>4, <2>5, <2>6 DEF LockInv
<1>2. CASE /\ pending' = pending /\ finalized \subseteq finalized' /\ dropped' = dropped
           /\ \A h \in Hooks : pc'[h] = "pushed" => pc[h] = "pushed" /\ buffer'[h] = buffer[h]
           /\ \A p \in Processes : pc'[p] \in Critical => (pc[p] \in Critical /\ lock' = lock) \/ lock' = p
           /\ \A p \in Processes : pc'[p] \in {"finalized", "unburst"} =>
                pc[p] = pc'[p] \/ HooksOf(pending) \subseteq finalized'
  BY <1>0, <1>2 DEF LockInv
<1>3. ASSUME NEW p \in Processes, lock = p, HooksOf(pending') = {} \/ pc'[p] = "sleep",
             \A q \in Processes : pc'[q] \in Critical => q = p,
             pc'[p] \notin {"pushed", "finalized", "unburst"}, lock' = p \/ pc'[p] \notin Critical
      PROVE  LockInv'
  BY <1>0, <1>3 DEF LockInv
<1>4. ASSUME NEW p \in Processes, pc[p] \in Critical, NEW q \in Processes, pc[q] \in Critical
      PROVE  p = q /\ lock = p
  BY <1>0, <1>4 DEF LockInv
<1>5. ASSUME NEW h \in Hooks, HookStep(h), ~PushEvent(h) PROVE LockInv'
  <2>1. CASE WritePending(h)
    <3>1. pc[h] = "pushed" /\ pc' = [pc EXCEPT ![h] = "sleep"]
      BY <2>1 DEF WritePending, Goto
    <3>2. QED
      BY <1>0, <1>3, <1>4, <3>1
  <2>2. CASE FinalizeBurst(h)
    <3>1. /\ pc' = [pc EXCEPT ![h] = "finalized"] /\ lock = None /\ lock' = h
          /\ pending' = pending /\ finalized' = finalized \cup HooksOf(pending)
          /\ dropped' = dropped /\ buffer' = buffer
      BY <2>2 DEF FinalizeBurst, Acquire, Goto, Finalize
    <3>2. \A p \in Processes : pc[p] \notin Critical
      BY <1>0, <3>1 DEF LockInv
    <3>3. QED
      BY <1>0, <1>2, <3>1, <3>2
  <2>3. CASE ClearPending(h)
    <3>1. pc[h] = "finalized" /\ pc' = [pc EXCEPT ![h] = "done"] /\ pending' = NoBurst
      BY <2>3 DEF ClearPending, Goto, Finish
    <3>2. QED
      BY <1>0, <1>3, <1>4, <3>1
  <2>4. CASE StartHook(h) \/ CheckHook(h) \/ LeaveBurst(h)
    <3>1. /\ pending' = pending /\ finalized' = finalized /\ dropped' = dropped
          /\ buffer' = buffer /\ lock' = lock
      BY <2>4 DEF StartHook, CheckHook, LeaveBurst, Unlocked, files, history
    <3>2. \E to \in {"check", "push", "done"} : pc' = [pc EXCEPT ![h] = to]
      BY <2>4 DEF StartHook, CheckHook, LeaveBurst, Goto, Finish
    <3>3. QED
      BY <1>0, <1>2, <3>1, <3>2
  <2>5. QED
    BY <1>5, <2>1, <2>2, <2>3, <2>4 DEF HookStep
<1>6. ASSUME NEW r \in Reopens, ReopenStep(r) PROVE LockInv'
  <2>1. /\ pending' = pending /\ finalized' = finalized /\ dropped' = dropped
        /\ buffer' = buffer /\ lock' = lock
        /\ \E to \in {"restoring", "created", "done"} : pc' = [pc EXCEPT ![r] = to]
    BY <1>6 DEF ReopenStep, Pop, FindNothing, Create, RecordCreated, PushBack, Unlocked, Goto, files, history
  <2>2. QED
    BY <1>0, <1>2, <2>1
<1>7. ASSUME NEW c \in Recoverers, RecoverStep(c) PROVE LockInv'
  <2>1. CASE Startup(c) \/ RecoverOnce(c)
    <3>1. /\ pending' = pending /\ finalized' = finalized /\ dropped' = dropped
          /\ buffer' = buffer /\ lock' = lock
          /\ \E to \in {"recover", "done"} : pc' = [pc EXCEPT ![c] = to]
      BY <2>1 DEF Startup, RecoverOnce, Goto, files, history
    <3>2. QED
      BY <1>0, <1>2, <3>1
  <2>2. CASE RecoverBurst(c)
    <3>1. /\ lock = None /\ lock' = c /\ pending' = pending /\ dropped' = dropped /\ buffer' = buffer
          /\ \/ /\ pc' = [pc EXCEPT ![c] = "unburst"]
                /\ finalized' = finalized \cup HooksOf(pending)
             \/ pc' = [pc EXCEPT ![c] = "sweep"] /\ finalized' = finalized
      BY <2>2 DEF RecoverBurst, Acquire, Goto, Finalize
    <3>2. \A p \in Processes : pc[p] \notin Critical
      BY <1>0, <3>1 DEF LockInv
    <3>3. QED
      BY <1>0, <1>2, <3>1, <3>2
  <2>3. CASE RecoverPending(c)
    <3>1. /\ pc[c] = "unburst" /\ pc' = [pc EXCEPT ![c] = "sweep"] /\ pending' = NoBurst
          /\ lock' = lock
      BY <2>3 DEF RecoverPending, Goto
    <3>2. QED
      BY <1>0, <1>3, <1>4, <3>1
  <2>4. CASE PruneStack(c)
    <3>1. /\ pending' = pending /\ finalized' = finalized /\ dropped' = dropped /\ buffer' = buffer
          /\ pc[c] = "prune" /\ pc' = [pc EXCEPT ![c] = "done"]
      BY <2>4 DEF PruneStack, Goto, Finish, history
    <3>2. \A p \in Processes : pc'[p] \notin Critical
      BY <1>0, <1>4, <3>1
    <3>3. QED
      BY <1>0, <1>2, <3>1, <3>2
  <2>5. CASE ForgetCreated(c)
    <3>1. /\ pending' = pending /\ finalized' = finalized /\ dropped' = dropped /\ buffer' = buffer
          /\ lock' = lock /\ pc[c] = "sweep" /\ pc' = [pc EXCEPT ![c] = "prune"]
      BY <2>5 DEF ForgetCreated, Goto, history
    <3>2. QED
      BY <1>0, <1>2, <3>1
  <2>6. QED
    BY <1>7, <2>1, <2>2, <2>3, <2>4, <2>5 DEF RecoverStep
<1>8. ASSUME NEW p \in Processes, Crash(p) PROVE LockInv'
  <2>1. /\ pending' = pending /\ finalized' = finalized /\ dropped' = dropped
        /\ buffer' = [buffer EXCEPT ![p] = NoBurst] /\ pc' = [pc EXCEPT ![p] = "dead"]
        /\ lock' = IF lock = p THEN None ELSE lock
    BY <1>8 DEF Crash, Goto, files, history
  <2>2. \A q \in Processes : pc'[q] \in Critical => pc[q] \in Critical /\ q # p /\ pc'[q] = pc[q]
    BY <1>0, <2>1
  <2>3. \A q \in Processes : pc'[q] \in Critical => lock' = lock
    BY <1>0, <2>1, <2>2 DEF LockInv
  <2>4. \A h \in Hooks : pc'[h] = "pushed" => pc[h] = "pushed" /\ buffer'[h] = buffer[h]
    BY <1>0, <2>1, <2>2
  <2>5. QED
    BY <1>0, <1>2, <2>1, <2>2, <2>3, <2>4
<1>9. CASE Tick
  BY <1>0, <1>2, <1>9 DEF Tick, files, history
<1>10. QED
  BY <1>1, <1>5, <1>6, <1>7, <1>8, <1>9 DEF Next

LEMMA StepIInv == IInv /\ [Next]_vars => IInv'
<1>1. ASSUME IInv, Next PROVE IInv'
  BY <1>1, StepTypeOK, StepStack, StepHeld, StepBurst, StepLock DEF IInv
<1>2. ASSUME IInv, UNCHANGED vars PROVE IInv'
  BY <1>2 DEF IInv, vars, files, history, TypeOK, StackInv, Apart, Held, BurstInv, LockInv,
       IdsNeverReused, PendingHasOwner
<1>3. QED
  BY <1>1, <1>2

LEMMA Invariance == Spec => []IInv
BY InitIInv, StepIInv, PTL DEF Spec

(***************************************************************************)
(* Theorems.                                                               *)
(***************************************************************************)
\* The files and the processes always hold values of their types; closed.json
\* never exceeds its cap (prune_entries, finalize_locked, push_back).
THEOREM TypeCorrect == Spec => []TypeOK
BY Invariance, PTL DEF IInv

\* An id names one capture for good (next_entry_id's persisted allocator).
THEOREM IdsAreNeverReused == Spec => []IdsNeverReused
<1>1. IInv => IdsNeverReused
  BY DEF IInv, StackInv
<1>2. QED
  BY <1>1, Invariance, PTL

\* cmd_reopen's promise: two invocations never restore the same entry, and what
\* one restores is not on the stack.
THEOREM ReopensAreExclusive == Spec => []OneReopenPerEntry
<1>1. IInv => OneReopenPerEntry
  <2> SUFFICES ASSUME IInv, NEW r \in Reopens, pc[r] \in {"restoring", "created"}
               PROVE  /\ popped[r].id \notin IdsOf(closed)
                      /\ \A q \in Reopens \ {r} :
                           popped[q] # NoEntry => popped[q].id # popped[r].id
    BY DEF OneReopenPerEntry
  <2>1. popped[r] # NoEntry
    BY DEF IInv, Held
  <2>2. \A e \in Members(closed.entries) : e.id # popped[r].id
    BY <2>1 DEF IInv, Apart
  <2>3. popped[r].id \notin IdsOf(closed)
    BY <2>2 DEF IdsOf, Members
  <2>4. QED
    BY <2>1, <2>3 DEF IInv, Apart
<1>2. QED
  BY <1>1, Invariance, PTL

\* Without a crash the pending burst always has a live hook that will look at it
\* again (the token test of on_close and owns_finalization).
THEOREM PendingIsOwned == Spec => []PendingHasOwner
<1>1. IInv => PendingHasOwner
  BY DEF IInv, BurstInv
<1>2. QED
  BY <1>1, Invariance, PTL

\* However hooks overtake each other, a burst stays within the staleness bound.
THEOREM BurstsAreShort == Spec => []BurstSpan
<1>1. IInv => BurstSpan
  BY DEF IInv, BurstInv, Short, BurstSpan
<1>2. QED
  BY <1>1, Invariance, PTL

\* One step keeps a pending close or settles it.
Kept ==
  \A h \in HooksOf(pending) : h \in HooksOf(pending)' \/ h \in finalized' \/ h \in dropped'

LEMMA StepKept == IInv /\ [Next]_vars => Kept
<1> SUFFICES ASSUME IInv, [Next]_vars PROVE Kept
  OBVIOUS
<1> USE DEF Kept
<1>1. ASSUME NEW h \in Hooks, WritePending(h) PROVE Kept
  BY <1>1 DEF IInv, LockInv, WritePending
<1>2. ASSUME NEW h \in Hooks, ClearPending(h) PROVE Kept
  BY <1>2 DEF IInv, LockInv, ClearPending, history, Processes
<1>3. ASSUME NEW c \in Recoverers, RecoverPending(c) PROVE Kept
  BY <1>3 DEF IInv, LockInv, RecoverPending, history, Processes
<1>4. CASE pending' = pending
  BY <1>4
<1>5. \/ \E h \in Hooks : WritePending(h) \/ ClearPending(h)
      \/ \E c \in Recoverers : RecoverPending(c)
      \/ pending' = pending
  BY DEF Next, HookStep, ReopenStep, RecoverStep, vars, files, history, StartHook,
         CheckHook, PushEvent, FinalizeBurst, LeaveBurst, Pop, FindNothing, Create, RecordCreated,
         PushBack, Startup, RecoverOnce, RecoverBurst, ForgetCreated, PruneStack, Crash, Tick
<1>6. QED
  BY <1>1, <1>2, <1>3, <1>4, <1>5

\* No write of pending.json takes away a close that was not captured or dropped:
\* not the hook's second write, not the recovery's, not any crash between them.
THEOREM BurstsAreKeptOrSettled == Spec => BurstIsKeptOrSettled
<1>1. IInv /\ [Next]_vars => [Kept]_vars
  BY StepKept
<1>2. QED
  BY <1>1, Invariance, PTL DEF Spec, BurstIsKeptOrSettled, Kept

(***************************************************************************)
(* What restores recorded as their own.                                    *)
(***************************************************************************)
\* No process works with a clock reading from the future.
Clocks == \A p \in Processes : t0[p] <= now

\* What a restore recorded is on file until it is SelfTTL old.
OwnOnFile ==
  \A r \in Reopens : made[r] # None =>
    /\ made[r] <= now
    /\ \/ now - made[r] >= SelfTTL
       \/ [id |-> Rebuilt[r], created_at_ms |-> made[r]] \in self_created

LEMMA StepClocks == IInv /\ Clocks /\ [Next]_vars => Clocks'
<1> SUFFICES ASSUME IInv, Clocks, [Next]_vars PROVE Clocks'
  OBVIOUS
<1>0. /\ now \in Nat /\ t0 \in [Processes -> Nat]
      /\ Hooks \subseteq Processes /\ Reopens \subseteq Processes /\ Recoverers \subseteq Processes
  BY DEF IInv, TypeOK, Processes
<1>1. CASE now' = now /\ \E p \in Processes : \E t \in {0, now} : t0' = [t0 EXCEPT ![p] = t]
  BY <1>0, <1>1 DEF Clocks
<1>2. CASE now' = now /\ t0' = t0
  BY <1>2 DEF Clocks
<1>3. CASE Tick
  BY <1>0, <1>3 DEF Tick, Clocks
<1> USE DEF Finish
<1>4. ASSUME NEW h \in Hooks, HookStep(h) PROVE Clocks'
  <2>1. CASE StartHook(h) \/ WritePending(h)
    BY <1>0, <1>1, <2>1 DEF StartHook, WritePending
  <2>2. CASE CheckHook(h)
    BY <1>0, <1>1, <1>2, <2>2 DEF CheckHook
  <2>3. CASE ClearPending(h) \/ LeaveBurst(h)
    BY <1>0, <1>1, <2>3 DEF ClearPending, LeaveBurst
  <2>4. CASE PushEvent(h) \/ FinalizeBurst(h)
    BY <1>2, <2>4 DEF PushEvent, FinalizeBurst
  <2>5. QED
    BY <1>4, <2>1, <2>2, <2>3, <2>4 DEF HookStep
<1>5. ASSUME NEW r \in Reopens, ReopenStep(r) PROVE Clocks'
  BY <1>2, <1>5 DEF ReopenStep, Pop, FindNothing, Create, RecordCreated, PushBack
<1>6. ASSUME NEW c \in Recoverers, RecoverStep(c) PROVE Clocks'
  <2>1. CASE RecoverBurst(c) \/ PruneStack(c)
    BY <1>0, <1>1, <2>1 DEF RecoverBurst, PruneStack
  <2>2. CASE Startup(c) \/ RecoverOnce(c) \/ RecoverPending(c) \/ ForgetCreated(c)
    BY <1>2, <2>2 DEF Startup, RecoverOnce, RecoverPending, ForgetCreated
  <2>3. QED
    BY <1>6, <2>1, <2>2 DEF RecoverStep
<1>7. ASSUME NEW p \in Processes, Crash(p) PROVE Clocks'
  BY <1>2, <1>7 DEF Crash
<1>8. CASE UNCHANGED vars
  BY <1>2, <1>8 DEF vars
<1>9. QED
  BY <1>3, <1>4, <1>5, <1>6, <1>7, <1>8 DEF Next

\* Only the sweep of a recovery takes a young record away.
Spared == \A c \in Recoverers : ~ForgetCreated(c)

LEMMA StepOwnOnFile == IInv /\ OwnOnFile /\ [Next /\ Spared]_vars => OwnOnFile'
<1> SUFFICES ASSUME IInv, OwnOnFile, [Next /\ Spared]_vars PROVE OwnOnFile'
  OBVIOUS
<1>0. now \in Nat /\ made \in [Reopens -> Nat \cup {None}] /\ SelfTTL \in Nat
  BY SelfTTLAssumption DEF IInv, TypeOK
<1>1. CASE UNCHANGED <<now, self_created, made>>
  BY <1>1 DEF OwnOnFile
<1>2. CASE Tick
  BY <1>0, <1>2 DEF Tick, files, history, OwnOnFile
<1>3. ASSUME NEW r \in Reopens, RecordCreated(r) PROVE OwnOnFile'
  <2>1. /\ now' = now /\ made' = [made EXCEPT ![r] = now]
        /\ self_created' = {e \in self_created : Elapsed(now, e.created_at_ms) < SelfTTL}
                             \cup {[id |-> Rebuilt[r], created_at_ms |-> now]}
    BY <1>3 DEF RecordCreated, record_self_created
  <2> SUFFICES ASSUME NEW q \in Reopens, made'[q] # None
               PROVE  /\ made'[q] <= now
                      /\ \/ now - made'[q] >= SelfTTL
                         \/ [id |-> Rebuilt[q], created_at_ms |-> made'[q]] \in self_created'
    BY <2>1 DEF OwnOnFile
  <2>2. CASE q = r
    BY <1>0, <2>1, <2>2
  <2>3. CASE q # r
    <3>1. made'[q] = made[q] /\ made[q] \in Nat
      BY <1>0, <2>1, <2>3
    <3>2. DEFINE e == [id |-> Rebuilt[q], created_at_ms |-> made[q]]
    <3>3. made[q] <= now /\ (now - made[q] >= SelfTTL \/ e \in self_created)
      BY <3>1 DEF OwnOnFile
    <3>4. CASE now - made[q] < SelfTTL
      <4>1. Elapsed(now, e.created_at_ms) < SelfTTL
        BY <1>0, <3>1, <3>3, <3>4 DEF Elapsed
      <4>2. QED
        BY <2>1, <3>1, <3>3, <3>4, <4>1, <1>0
    <3>5. QED
      BY <1>0, <3>1, <3>3, <3>4
  <2>4. QED
    BY <2>2, <2>3
<1>4. CASE UNCHANGED vars
  BY <1>1, <1>4 DEF vars, files, history
<1>5. \/ UNCHANGED <<now, self_created, made>> \/ Tick \/ UNCHANGED vars
      \/ \E r \in Reopens : RecordCreated(r)
  BY DEF Next, Spared, HookStep, ReopenStep, RecoverStep, files, history, StartHook, CheckHook,
         PushEvent, WritePending, FinalizeBurst, ClearPending, LeaveBurst, Pop, FindNothing,
         Create, PushBack, Startup, RecoverOnce, RecoverBurst, RecoverPending, PruneStack, Crash
<1>6. QED
  BY <1>1, <1>2, <1>3, <1>4, <1>5

\* However many restores record and prune one after another, and whoever is killed, the
\* close of a pane that a restore recorded less than SelfTTL before is not captured, as
\* long as no recovery sweeps the records (on_close, is_self_created,
\* record_self_created; the sweep of daemon.rs recover is the exception).
THEOREM ArtefactsAreIgnored == Spec /\ [][Spared]_vars => RestoreArtefactsIgnored
<1> DEFINE Ignored == \A h \in Hooks, r \in Reopens :
              (pc[h] = "check" /\ pc'[h] = "push" /\ made[r] # None /\ Gesture[h].pane = Rebuilt[r])
                => now - made[r] >= SelfTTL
<1>1. Init => Clocks /\ OwnOnFile
  BY DEF Init, Clocks, OwnOnFile
<1>2. ASSUME IInv, Clocks, OwnOnFile, [Next]_vars PROVE [Ignored]_vars
  <2> SUFFICES ASSUME Next, NEW h \in Hooks, NEW r \in Reopens,
                      pc[h] = "check", pc'[h] = "push", made[r] # None,
                      Gesture[h].pane = Rebuilt[r]
               PROVE  now - made[r] >= SelfTTL
    BY <1>2 DEF vars
  <2>0. /\ now \in Nat /\ made[r] \in Nat /\ made[r] <= now /\ t0[h] \in Nat /\ t0[h] <= now
        /\ SelfTTL \in Nat
    BY <1>2, SelfTTLAssumption DEF IInv, TypeOK, Processes, Clocks, OwnOnFile
  <2>1. CheckHook(h)
    <3> USE <1>2 DEF Goto, Finish, files, history
    <3>0. /\ DOMAIN pc = Processes /\ h \in Processes /\ h \notin Reopens /\ h \notin Recoverers
          /\ Hooks \subseteq Processes /\ Reopens \subseteq Processes /\ Recoverers \subseteq Processes
      BY ProcessAssumption DEF IInv, TypeOK, Processes
    <3>1. ASSUME NEW g \in Hooks, HookStep(g) PROVE CheckHook(h)
      BY <3>0, <3>1 DEF HookStep, StartHook, CheckHook, PushEvent, WritePending, FinalizeBurst,
                        ClearPending, LeaveBurst
    <3>2. ASSUME NEW q \in Reopens, ReopenStep(q) PROVE FALSE
      BY <3>0, <3>2 DEF ReopenStep, Pop, FindNothing, Create, RecordCreated, PushBack
    <3>3. ASSUME NEW c \in Recoverers, RecoverStep(c) PROVE FALSE
      BY <3>0, <3>3 DEF RecoverStep, Startup, RecoverOnce, RecoverBurst, RecoverPending,
                        ForgetCreated, PruneStack
    <3>4. ASSUME NEW p \in Processes, Crash(p) PROVE FALSE
      BY <3>0, <3>4 DEF Crash
    <3>5. CASE Tick
      BY <3>5 DEF Tick
    <3>6. QED
      BY <3>1, <3>2, <3>3, <3>4, <3>5 DEF Next
  <2>2. ~is_self_created(Rebuilt[r], t0[h])
    <3>1. Rebuilt[r] \in event_ids(Gesture[h])
      BY GestureAssumption DEF event_ids
    <3>2. pc[h] = "check" /\ pc'[h] # "done"
      OBVIOUS
    <3>3. h \in DOMAIN pc
      BY <1>2 DEF IInv, TypeOK, Processes
    <3>4. QED
      BY <2>1, <3>1, <3>2, <3>3 DEF CheckHook, Finish, Goto
  <2>3. CASE [id |-> Rebuilt[r], created_at_ms |-> made[r]] \in self_created
    <3>1. ~(Elapsed(t0[h], made[r]) < SelfTTL)
      BY <2>2, <2>3 DEF is_self_created
    <3>2. QED
      BY <2>0, <3>1 DEF Elapsed
  <2>4. QED
    BY <1>2, <2>3 DEF OwnOnFile
<1>3. QED
  BY <1>1, <1>2, StepClocks, StepOwnOnFile, Invariance, PTL DEF Spec, RestoreArtefactsIgnored

(***************************************************************************)
(* Capture implements UndoLog: every step on the files is one step of the  *)
(* abstract log or leaves it alone.  And the fate of every close: it is    *)
(* either on its way to closed.json, or in it, or taken from it, or not    *)
(* the user's to have back; and it gets there once.                        *)
(***************************************************************************)
\* The burst a hook is about to write adds its own close and no other.
Adds ==
  \A h \in Hooks : pc[h] = "pushed" => HooksOf(buffer[h]) \subseteq HooksOf(pending) \cup {h}

Unheld == \A r \in Reopens : pc[r] = "idle" => popped[r] = NoEntry

UInv == IInv /\ Adds /\ Unheld

\* A pushed event adds its own hook to the hooks of the burst.
LEMMA PushedHooks ==
  ASSUME NEW b \in Bursts \cup {NoBurst}, NEW ev, NEW token, NEW frozen
  PROVE  HooksOf(push_event(b, ev, token, frozen)) \subseteq HooksOf(b) \cup {ev.hook}
<1> DEFINE j == Joined(b, ev.t0)
           r == push_event(b, ev, token, frozen)
<1>1. j.events = << >> \/ (j = b /\ b # NoBurst)
  <2> DEFINE new == b = NoBurst \/ Expired(b, ev.t0) \/ Stale(b, ev.t0)
  <2>1. CASE new
    <3>1. j = [first_ms |-> ev.t0, last_ms |-> ev.t0, last_token |-> None,
               events |-> << >>, frozen |-> {}]
      BY <2>1 DEF Joined
    <3>2. QED
      BY <3>1
  <2>2. CASE ~new
    <3>1. j = b
      BY <2>2 DEF Joined
    <3>2. QED
      BY <2>2, <3>1
  <2>3. QED
    BY <2>1, <2>2
<1>2. \E E : j.events \in Seq(E) /\ ev \in E
  <2>1. CASE j = b /\ b \in Bursts
    <3>1. j.events \in Seq(Events \cup {ev})
      <4>1. j.events \in Seq(Events)
        BY <2>1 DEF Bursts
      <4> HIDE DEF j
      <4>2. QED
        BY <4>1
    <3>2. QED
      BY <3>1
  <2>2. CASE j.events = << >>
    <3>1. << >> \in Seq({ev}) /\ ev \in {ev}
      OBVIOUS
    <3> HIDE DEF j
    <3>2. QED
      BY <2>2, <3>1
  <2>3. QED
    BY <1>1, <2>1, <2>2
<1>3. r.events = Append(j.events, ev)
  BY DEF push_event
<1> DEFINE s == j.events
<1>4. \A i \in DOMAIN Append(s, ev) :
        \/ i \in DOMAIN s /\ Append(s, ev)[i] = s[i]
        \/ Append(s, ev)[i] = ev
  <2> HIDE DEF s
  <2>1. PICK E : s \in Seq(E) /\ ev \in E
    BY <1>2 DEF s
  <2>2. QED
    BY <2>1
<1>5. \A i \in DOMAIN s : s[i].hook \in HooksOf(b)
  BY <1>1 DEF HooksOf
<1> HIDE DEF j, r, s
<1>6. \A i \in DOMAIN r.events : r.events[i].hook \in HooksOf(b) \cup {ev.hook}
  BY <1>3, <1>4, <1>5 DEF s
<1>7. QED
  BY <1>6 DEF HooksOf, r

\* An entry pushed back on a stack that has no entry of its id is on the stack.
LEMMA PushedBackIsThere ==
  ASSUME NEW E, NEW stack \in [entries : Seq(E), next_id : Nat], NEW entry \in E,
         entry.id \notin IdsOf(stack)
  PROVE  entry \in Members(push_back(stack, entry).entries)
<1> DEFINE s == stack.entries
           t == <<entry>> \o s
<1>1. push_back(stack, entry).entries = Truncate(t)
  BY DEF push_back
<1>2. s \in Seq(E) /\ <<entry>> \in Seq(E)
  OBVIOUS
<1> HIDE DEF s
<1>3. t \in Seq(E) /\ Len(t) = 1 + Len(s) /\ t[1] = entry /\ Len(s) \in Nat
  BY <1>2
<1> HIDE DEF t
<1>4. 1 \in DOMAIN Truncate(t) /\ Truncate(t)[1] = entry
  BY <1>3, StackCapAssumption DEF Truncate
<1>5. QED
  BY <1>1, <1>4 DEF Members

LEMMA InitUInv == Init => UInv
<1>1. Init => Adds /\ Unheld
  BY ProcessAssumption DEF Init, Adds, Unheld, Processes
<1>2. QED
  BY <1>1, InitIInv DEF UInv

\* Only the process in its locked section changes what it is about to write.
LEMMA StepAdds == UInv /\ Next => Adds'
<1> SUFFICES ASSUME UInv, Next, NEW h \in Hooks, pc'[h] = "pushed"
             PROVE  (HooksOf(buffer[h]) \subseteq HooksOf(pending) \cup {h})'
  BY DEF Adds
<1>0. /\ DOMAIN pc = Processes /\ DOMAIN buffer = Processes
      /\ pending \in Bursts \cup {NoBurst}
      /\ Hooks \subseteq Processes /\ Reopens \subseteq Processes /\ Recoverers \subseteq Processes
      /\ h \notin Reopens /\ h \notin Recoverers
      /\ \A p, q \in Processes : pc[p] \in Critical /\ pc[q] \in Critical => p = q
  BY ProcessAssumption DEF UInv, IInv, TypeOK, LockInv, Processes
<1>1. CASE PushEvent(h)
  <2>1. PICK snap \in Snapshots, prev \in Snapshots :
           LET ev == EventOf(h)
           IN  buffer' = [buffer EXCEPT ![h] =
                 push_event(pending, ev, h, freeze_for(best_snapshot(snap, prev, ev), ev))]
    BY <1>1 DEF PushEvent
  <2> DEFINE ev == EventOf(h)
             r == push_event(pending, ev, h, freeze_for(best_snapshot(snap, prev, ev), ev))
  <2>2. ev.hook = h
    BY DEF EventOf
  <2> HIDE DEF ev
  <2>3. HooksOf(r) \subseteq HooksOf(pending) \cup {h}
    BY <1>0, <2>2, PushedHooks
  <2>4. buffer' = [buffer EXCEPT ![h] = r] /\ pending' = pending
    BY <1>1, <2>1 DEF PushEvent, ev
  <2> HIDE DEF r
  <2>5. QED
    BY <1>0, <2>3, <2>4
<1>2. CASE pc[h] = "pushed" /\ pending' = pending /\ buffer'[h] = buffer[h]
  BY <1>2 DEF UInv, Adds
<1>3. ASSUME ~PushEvent(h)
      PROVE  pc[h] = "pushed" /\ pending' = pending /\ buffer'[h] = buffer[h]
  <2> USE <1>0, <1>3 DEF Goto, Finish, files, history, Critical
  <2>1. ASSUME NEW g \in Hooks, HookStep(g)
        PROVE  pc[h] = "pushed" /\ pending' = pending /\ buffer'[h] = buffer[h]
    <3>1. CASE PushEvent(g)
      BY <3>1 DEF PushEvent
    <3>2. CASE WritePending(g)
      BY <3>2 DEF WritePending
    <3>3. CASE ClearPending(g)
      BY <3>3 DEF ClearPending
    <3>4. CASE FinalizeBurst(g)
      BY <3>4 DEF FinalizeBurst
    <3>5. CASE StartHook(g) \/ CheckHook(g) \/ LeaveBurst(g)
      BY <3>5 DEF StartHook, CheckHook, LeaveBurst
    <3>6. QED
      BY <2>1, <3>1, <3>2, <3>3, <3>4, <3>5 DEF HookStep
  <2>2. ASSUME NEW r \in Reopens, ReopenStep(r)
        PROVE  pc[h] = "pushed" /\ pending' = pending /\ buffer'[h] = buffer[h]
    BY <2>2 DEF ReopenStep, Pop, FindNothing, Create, RecordCreated, PushBack
  <2>3. ASSUME NEW c \in Recoverers, RecoverStep(c)
        PROVE  pc[h] = "pushed" /\ pending' = pending /\ buffer'[h] = buffer[h]
    <3>1. CASE RecoverPending(c)
      BY <3>1 DEF RecoverPending
    <3>2. CASE ~RecoverPending(c)
      BY <2>3, <3>2 DEF RecoverStep, Startup, RecoverOnce, RecoverBurst, ForgetCreated, PruneStack
    <3>3. QED
      BY <3>1, <3>2
  <2>4. ASSUME NEW p \in Processes, Crash(p)
        PROVE  pc[h] = "pushed" /\ pending' = pending /\ buffer'[h] = buffer[h]
    BY <2>4 DEF Crash
  <2>5. CASE Tick
    BY <2>5 DEF Tick
  <2>6. QED
    BY <2>1, <2>2, <2>3, <2>4, <2>5 DEF Next
<1>4. QED
  BY <1>1, <1>2, <1>3

LEMMA StepUnheld == UInv /\ Next => Unheld'
<1> SUFFICES ASSUME UInv, Next, NEW r \in Reopens, pc'[r] = "idle"
             PROVE  popped'[r] = NoEntry
  BY DEF Unheld
<1>0. /\ DOMAIN pc = Processes /\ DOMAIN popped = Reopens
      /\ Hooks \subseteq Processes /\ Reopens \subseteq Processes /\ Recoverers \subseteq Processes
      /\ r \notin Hooks /\ r \notin Recoverers
  BY ProcessAssumption DEF UInv, IInv, TypeOK, Processes
<1> USE <1>0 DEF Goto, Finish, files, history
<1>1. ASSUME NEW h \in Hooks, HookStep(h) PROVE pc[r] = "idle" /\ popped' = popped
  BY <1>1 DEF HookStep, StartHook, CheckHook, PushEvent, WritePending, FinalizeBurst, ClearPending,
              LeaveBurst
<1>2. ASSUME NEW q \in Reopens, ReopenStep(q) PROVE pc[r] = "idle" /\ popped'[r] = popped[r]
  BY <1>2 DEF ReopenStep, Pop, FindNothing, Create, RecordCreated, PushBack
<1>3. ASSUME NEW c \in Recoverers, RecoverStep(c) PROVE pc[r] = "idle" /\ popped' = popped
  BY <1>3 DEF RecoverStep, Startup, RecoverOnce, RecoverBurst, RecoverPending, ForgetCreated,
              PruneStack
<1>4. ASSUME NEW p \in Processes, Crash(p) PROVE pc[r] = "idle" /\ popped' = popped
  BY <1>4 DEF Crash
<1>5. CASE Tick
  BY <1>5 DEF Tick, UInv, Unheld
<1>6. pc[r] = "idle" /\ popped'[r] = popped[r]
  BY <1>1, <1>2, <1>3, <1>4, <1>5 DEF Next, Tick
<1>7. QED
  BY <1>6 DEF UInv, Unheld

LEMMA StepUInv == UInv /\ [Next]_vars => UInv'
<1> SUFFICES ASSUME UInv, [Next]_vars PROVE UInv'
  OBVIOUS
<1>1. IInv'
  BY StepIInv DEF UInv
<1>2. CASE Next
  BY <1>1, <1>2, StepAdds, StepUnheld DEF UInv
<1>3. CASE UNCHANGED vars
  BY <1>1, <1>3 DEF UInv, Adds, Unheld, vars, files, history
<1>4. QED
  BY <1>2, <1>3

LEMMA UndoInvariance == Spec => []UInv
BY InitUInv, StepUInv, PTL DEF Spec

(***************************************************************************)
(* Every step is one of the abstract log's, or stutters.                   *)
(***************************************************************************)
LEMMA InitRefines == Init => Undo!Init
<1> SUFFICES ASSUME Init PROVE Undo!Init
  OBVIOUS
<1>1. HooksOf(pending) = {} /\ finalized \cup dropped = {} /\ captures = {}
  BY DEF Init, HooksOf
<1>2. {closed.entries[i] : i \in DOMAIN closed.entries} = {}
  <2>1. closed.entries = << >> /\ DOMAIN << >> = {}
    BY DEF Init, EmptyStack
  <2>2. QED
    BY <2>1
<1>3. Taken = {}
  BY DEF Init, Taken
<1>4. QED
  BY <1>1, <1>2, <1>3 DEF Undo!Init

\* The noted closes are settled by the three actions that finalize, and by the
\* one that finds them stale.
LEMMA SettleRefines ==
  ASSUME UInv,
         \/ \E h \in Hooks : PushEvent(h) \/ FinalizeBurst(h)
         \/ \E c \in Recoverers : RecoverBurst(c)
  PROVE  Undo!Settle \/ UNCHANGED Undo!log
<1>1. /\ pending' = pending /\ popped' = popped
      /\ pending \in Bursts \cup {NoBurst}
      /\ HooksOf(pending') = HooksOf(pending) /\ Taken' = Taken
  BY DEF PushEvent, FinalizeBurst, RecoverBurst, UInv, IInv, TypeOK, Taken
<1>2. CASE Finalize(pending) /\ pending # NoBurst /\ dropped' = dropped
  <2>1. /\ captures \subseteq captures'
        /\ captures' \in SUBSET Entries
        /\ finalized' = finalized \cup HooksOf(pending)
        /\ StackInv'
        /\ \A e \in captures' \ captures : e.closes \subseteq HooksOf(pending)
        /\ Members(closed'.entries) \subseteq Members(closed.entries) \cup (captures' \ captures)
    BY <1>1, <1>2, FinalizeStep DEF UInv, IInv
  <2>2. ASSUME NEW e \in captures' \ captures
        PROVE  /\ e.closes # {} /\ e.closes \subseteq HooksOf(pending)
               /\ \A d \in captures' : d.id = e.id => d = e
    BY <2>1 DEF Entries, StackInv, IdsNeverReused
  <2>3. finalized' \cup dropped' = (finalized \cup dropped) \cup HooksOf(pending)
    BY <1>2, <2>1
  <2>4. QED
    BY <1>1, <2>1, <2>2, <2>3 DEF Undo!Settle, Members
<1>3. CASE /\ closed' = closed /\ captures' = captures /\ finalized' = finalized
           /\ dropped' = dropped \cup HooksOf(pending)
  BY <1>1, <1>3 DEF Undo!Settle
<1>4. CASE /\ closed' = closed /\ captures' = captures /\ finalized' = finalized
           /\ dropped' = dropped
  BY <1>1, <1>4 DEF Undo!log
<1>5. ASSUME NEW h \in Hooks, PushEvent(h) PROVE Undo!Settle \/ UNCHANGED Undo!log
  <2>1. CASE Expired(pending, t0[h])
    <3>1. Finalize(pending) /\ pending # NoBurst /\ ~Stale(pending, t0[h])
      BY <1>5, <2>1 DEF PushEvent, FinalizeExpired, Expired, Stale
    <3>2. dropped' = dropped
      BY <1>5, <3>1 DEF PushEvent
    <3>3. QED
      BY <1>2, <3>1, <3>2
  <2>2. CASE ~Expired(pending, t0[h])
    <3>1. closed' = closed /\ captures' = captures /\ finalized' = finalized
      BY <1>5, <2>2 DEF PushEvent, FinalizeExpired
    <3>2. dropped' = dropped \cup HooksOf(pending) \/ dropped' = dropped
      BY <1>5 DEF PushEvent
    <3>3. QED
      BY <1>3, <1>4, <3>1, <3>2
  <2>3. QED
    BY <2>1, <2>2
<1>6. ASSUME NEW h \in Hooks, FinalizeBurst(h) PROVE Undo!Settle \/ UNCHANGED Undo!log
  BY <1>2, <1>6 DEF FinalizeBurst, owns_finalization
<1>7. ASSUME NEW c \in Recoverers, RecoverBurst(c) PROVE Undo!Settle \/ UNCHANGED Undo!log
  BY <1>2, <1>4, <1>7 DEF RecoverBurst, Abandoned
<1>8. QED
  BY <1>5, <1>6, <1>7

\* The second write of a locked section is a turn of the noted closes.
LEMMA TurnRefines ==
  ASSUME UInv,
         \/ \E h \in Hooks : WritePending(h) \/ ClearPending(h)
         \/ \E c \in Recoverers : RecoverPending(c)
  PROVE  Undo!Turn \/ UNCHANGED Undo!log
<1>1. UNCHANGED <<closed, popped, captures, finalized, dropped>> /\ Taken' = Taken
  BY DEF WritePending, ClearPending, RecoverPending, files, history, Taken
<1>2. /\ HooksOf(pending) \in SUBSET Hooks /\ HooksOf(NoBurst) = {}
      /\ Hooks \subseteq Processes /\ Recoverers \subseteq Processes
  BY HooksOfBurst DEF UInv, IInv, TypeOK, HooksOf, Processes
<1>3. ASSUME NEW h \in Hooks, WritePending(h) PROVE Undo!Turn
  <2>1. pc[h] = "pushed" /\ pending' = buffer[h]
    BY <1>3 DEF WritePending
  <2>2. /\ HooksOf(pending') \subseteq HooksOf(pending) \cup {h}
        /\ HooksOf(pending) \ HooksOf(pending') \subseteq finalized \cup dropped
    BY <2>1 DEF UInv, Adds, IInv, LockInv
  <2>3. QED
    BY <1>1, <2>2 DEF Undo!Turn
<1>4. CASE pending' = NoBurst /\ HooksOf(pending) \subseteq finalized
  <2>1. CASE HooksOf(pending) = {}
    BY <1>1, <1>2, <1>4, <2>1 DEF Undo!log
  <2>2. ASSUME NEW g \in HooksOf(pending) PROVE Undo!Turn
    BY <1>1, <1>2, <1>4, <2>2 DEF Undo!Turn
  <2>3. QED
    BY <2>1, <2>2
<1>5. ASSUME NEW h \in Hooks, ClearPending(h) PROVE Undo!Turn \/ UNCHANGED Undo!log
  BY <1>2, <1>4, <1>5 DEF ClearPending, UInv, IInv, LockInv
<1>6. ASSUME NEW c \in Recoverers, RecoverPending(c) PROVE Undo!Turn \/ UNCHANGED Undo!log
  BY <1>2, <1>4, <1>6 DEF RecoverPending, UInv, IInv, LockInv
<1>7. QED
  BY <1>3, <1>5, <1>6

LEMMA PopRefines ==
  ASSUME UInv, NEW r \in Reopens, Pop(r)
  PROVE  Undo!Take
<1> DEFINE stack == prune_entries(closed, now)
<1>1. /\ closed \in [entries : Seq(Entries), next_id : Nat]
      /\ popped \in [Reopens -> Entries \cup {NoEntry}]
      /\ Distinct(closed.entries) /\ popped[r] = NoEntry
  BY DEF UInv, IInv, TypeOK, Apart, Unheld, Pop
<1>2. PICK i \in DOMAIN stack.entries :
        /\ popped' = [popped EXCEPT ![r] = stack.entries[i]]
        /\ closed' = pop_at(stack, i)
  BY DEF Pop
<1>3. /\ stack \in [entries : Seq(Entries), next_id : Nat]
      /\ Members(stack.entries) \subseteq Members(closed.entries)
      /\ Distinct(stack.entries)
  BY <1>1, PruneMembers
<1> HIDE DEF stack
<1> DEFINE e == stack.entries[i]
<1>4. /\ Members(closed'.entries) \subseteq Members(stack.entries)
      /\ \A d \in Members(closed'.entries) : d.id # e.id
  <2> DEFINE rest == pop_at(stack, i)
  <2>1. /\ Members(rest.entries) \subseteq Members(stack.entries)
        /\ \A d \in Members(rest.entries) : d.id # e.id
    <3>1. i \in DOMAIN stack.entries
      OBVIOUS
    <3>2. QED
      BY ONLY <1>3, <3>1, PopMembers
  <2>2. closed' = rest
    BY <1>2
  <2> HIDE DEF rest, e
  <2>3. QED
    BY <2>1, <2>2
<1>5. e \in Members(closed.entries) /\ e \in Entries
  BY <1>3 DEF Members
<1> HIDE DEF e
<1>6. popped' = [popped EXCEPT ![r] = e] /\ e # NoEntry
  BY <1>2, <1>5, RecordsAreNotNone DEF e
<1>7. Taken' = Taken \cup {e}
  BY <1>1, <1>6 DEF Taken
<1>8. Members(closed'.entries) \subseteq Members(closed.entries) \ {e}
  BY <1>3, <1>4
<1>9. UNCHANGED <<pending, finalized, dropped, captures>>
  BY DEF Pop, history
<1>10. QED
  BY <1>5, <1>7, <1>8, <1>9 DEF Undo!Take, Members

LEMMA PushBackRefines ==
  ASSUME UInv, NEW r \in Reopens, PushBack(r)
  PROVE  Undo!GiveBack
<1> DEFINE e == popped[r]
<1>1. /\ closed \in [entries : Seq(Entries), next_id : Nat] /\ Len(closed.entries) <= StackCap
      /\ popped \in [Reopens -> Entries \cup {NoEntry}]
      /\ e # NoEntry /\ e \in Entries
      /\ \A d \in Members(closed.entries) : d.id # e.id
      /\ \A q \in Reopens \ {r} : popped[q] # NoEntry => popped[q].id # e.id
  BY DEF UInv, IInv, TypeOK, Apart, Held, PushBack
<1>2. /\ closed' = push_back(closed, e)
      /\ popped' = [popped EXCEPT ![r] = NoEntry]
      /\ UNCHANGED <<pending, finalized, dropped, captures>>
  BY DEF PushBack, history
<1>3. e \in Taken /\ Taken' = Taken \ {e}
  BY <1>1, <1>2 DEF Taken
<1> HIDE DEF e
<1>4. Members(closed'.entries) \subseteq Members(closed.entries) \cup {e}
  <2> DEFINE more == push_back(closed, e)
  <2>1. Members(more.entries) \subseteq Members(closed.entries) \cup {e}
    BY <1>1, PushBackMembers
  <2>2. closed' = more
    BY <1>2
  <2> HIDE DEF more
  <2>3. QED
    BY <2>1, <2>2
<1>5. e \in Members(closed'.entries)
  <2> DEFINE more == push_back(closed, e)
  <2>1. e.id \notin IdsOf(closed)
    BY <1>1 DEF IdsOf, Members
  <2>2. e \in Members(more.entries)
    BY <1>1, <2>1, PushedBackIsThere
  <2>3. closed' = more
    BY <1>2
  <2> HIDE DEF more
  <2>4. QED
    BY <2>2, <2>3
<1>6. QED
  BY <1>2, <1>3, <1>4, <1>5 DEF Undo!GiveBack, Members

LEMMA PruneRefines ==
  ASSUME UInv, NEW c \in Recoverers, PruneStack(c)
  PROVE  Undo!Forget
<1>1. Members(closed'.entries) \subseteq Members(closed.entries)
  BY PruneMembers DEF PruneStack, UInv, IInv, TypeOK
<1>2. UNCHANGED <<pending, popped, finalized, dropped, captures>>
  BY DEF PruneStack, history
<1>3. QED
  BY <1>1, <1>2 DEF Undo!Forget, Members, Taken

LEMMA StepRefines == UInv /\ [Next]_vars => [Undo!Next]_(Undo!log)
<1> SUFFICES ASSUME UInv, [Next]_vars PROVE Undo!Next \/ UNCHANGED Undo!log
  OBVIOUS
<1> USE DEF Undo!Next
<1>1. CASE \/ \E h \in Hooks : PushEvent(h) \/ FinalizeBurst(h)
           \/ \E c \in Recoverers : RecoverBurst(c)
  BY <1>1, SettleRefines
<1>2. CASE \/ \E h \in Hooks : WritePending(h) \/ ClearPending(h)
           \/ \E c \in Recoverers : RecoverPending(c)
  BY <1>2, TurnRefines
<1>3. ASSUME NEW r \in Reopens, Pop(r) \/ PushBack(r) PROVE Undo!Next
  BY <1>3, PopRefines, PushBackRefines
<1>4. ASSUME NEW c \in Recoverers, PruneStack(c) PROVE Undo!Next
  BY <1>4, PruneRefines
<1>5. CASE UNCHANGED <<pending, closed, popped, captures, finalized, dropped>>
  BY <1>5 DEF Undo!log, Taken
<1>6. \/ \E h \in Hooks : PushEvent(h) \/ FinalizeBurst(h) \/ WritePending(h) \/ ClearPending(h)
      \/ \E r \in Reopens : Pop(r) \/ PushBack(r)
      \/ \E c \in Recoverers : RecoverBurst(c) \/ RecoverPending(c) \/ PruneStack(c)
      \/ UNCHANGED <<pending, closed, popped, captures, finalized, dropped>>
  BY DEF Next, HookStep, ReopenStep, RecoverStep, vars, files, history, StartHook, CheckHook,
         LeaveBurst, FindNothing, Create, RecordCreated, Startup, RecoverOnce, ForgetCreated,
         Crash, Tick
<1>7. QED
  BY <1>1, <1>2, <1>3, <1>4, <1>5, <1>6

\* The hooks, reopens and recoveries on their files implement the log of closes and
\* entries: on_close, finalize_locked, cmd_reopen, push_back and recover together never
\* lose an unsettled close, never make an entry out of none, and never offer an entry
\* that a reopen holds or that was forgotten, whoever is killed between which writes.
THEOREM CaptureImplementsUndo == Spec => UndoRefined
<1>1. Spec => Undo!Init
  BY InitRefines, PTL DEF Spec
<1>2. Spec => [][Undo!Next]_(Undo!log)
  BY UndoInvariance, StepRefines, PTL DEF Spec
<1>3. QED
  BY <1>1, <1>2 DEF UndoRefined, Undo!Spec

(***************************************************************************)
(* The fate of every close.                                                *)
(***************************************************************************)
\* The rank of a position tells it from the others.
LEMMA RankInjective ==
  ASSUME NEW key, IsKey(key), NEW i \in DOMAIN key, NEW j \in DOMAIN key,
         Rank(key, i) = Rank(key, j)
  PROVE  i = j
<1>1. /\ Rank(key, i) \in Int /\ Rank(key, j) \in Int
      /\ key[i] < key[j] => Rank(key, i) < Rank(key, j)
      /\ key[j] < key[i] => Rank(key, j) < Rank(key, i)
  BY RankBounds
<1>2. key[i] \in Nat /\ key[j] \in Nat
  BY DEF IsKey
<1>3. key[i] = key[j]
  BY <1>1, <1>2
<1>4. QED
  BY <1>3 DEF IsKey

\* Each entry of `new` undoes what one capturing position of b undoes.
Traced(new, b, at) ==
  /\ at \in [DOMAIN new -> Capturing(b)]
  /\ \A k \in DOMAIN new : new[k].closes = Undoes(b, at[k])
  /\ \A k, l \in DOMAIN new : at[k] = at[l] => k = l
  /\ \A i \in Capturing(b) : \E k \in DOMAIN new : at[k] = i

\* Inference lists the entries of exactly the capturing positions.
LEMMA InferredEach ==
  ASSUME NEW b \in Bursts, NEW next \in Nat \ {0}
  PROVE  \E at : Traced(infer_entries(b, next), b, at)
<1> DEFINE key == CaptureOrder(b)
           n == Cardinality(Capturing(b))
           entry(i) == Entry(b, i, next + Rank(key, i))
           entries == {entry(i) : i \in Capturing(b)}
           pick(k) == CHOOSE e \in entries : e.id = next + k - 1
           new == infer_entries(b, next)
           at == [k \in 1 .. n |-> CHOOSE i \in Capturing(b) : Rank(key, i) = k - 1]
<1>1. new = [k \in 1 .. n |-> pick(k)] /\ DOMAIN new = 1 .. n
  BY DEF infer_entries
<1>2. /\ IsKey(key) /\ DOMAIN key = Capturing(b)
      /\ n \in Nat
  BY CaptureOrderIsKey, BurstPositions
<1> HIDE DEF key
<1>3. \A i \in Capturing(b) : Rank(key, i) \in 0 .. n - 1
  BY <1>2, RankBounds
<1>4. \A i, j \in Capturing(b) : Rank(key, i) = Rank(key, j) => i = j
  BY <1>2, RankInjective
<1>5. \A k \in 1 .. n : \E i \in Capturing(b) : Rank(key, i) = k - 1
  BY <1>2, RankOnto
<1>6. at \in [1 .. n -> Capturing(b)] /\ \A k \in 1 .. n : Rank(key, at[k]) = k - 1
  BY <1>5
<1> HIDE DEF at
<1>7. ASSUME NEW k \in 1 .. n PROVE pick(k) = entry(at[k])
  <2>1. entry(at[k]) \in entries /\ entry(at[k]).id = next + k - 1
    BY <1>2, <1>6 DEF Entry
  <2>2. ASSUME NEW e \in entries, e.id = next + k - 1 PROVE e = entry(at[k])
    <3>1. PICK i \in Capturing(b) : e = entry(i)
      OBVIOUS
    <3>2. e.id = next + Rank(key, i)
      BY <3>1 DEF Entry
    <3>3. Rank(key, i) = Rank(key, at[k])
      BY <1>2, <1>3, <1>6, <2>2, <3>2
    <3>4. i = at[k]
      BY <1>4, <1>6, <3>3
    <3>5. QED
      BY <3>1, <3>4
  <2> HIDE DEF entries, entry
  <2>3. QED
    BY <2>1, <2>2
<1>8. ASSUME NEW k \in 1 .. n PROVE new[k].closes = Undoes(b, at[k])
  <2>1. new[k] = entry(at[k])
    BY <1>1, <1>7
  <2> HIDE DEF new
  <2>2. QED
    BY <2>1 DEF Entry
<1>9. \A k, l \in 1 .. n : at[k] = at[l] => k = l
  BY <1>2, <1>6
<1>10. ASSUME NEW i \in Capturing(b) PROVE \E k \in 1 .. n : at[k] = i
  <2>1. Rank(key, i) + 1 \in 1 .. n
    BY <1>2, <1>3
  <2>2. Rank(key, at[Rank(key, i) + 1]) = Rank(key, i)
    BY <1>2, <1>3, <1>6, <2>1
  <2>3. QED
    BY <1>4, <1>6, <2>1, <2>2
<1> HIDE DEF new, n
<1>11. Traced(new, b, at)
  BY <1>1, <1>6, <1>8, <1>9, <1>10 DEF Traced
<1>12. QED
  BY <1>11 DEF new

LEMMA WorkspaceAmong ==
  ASSUME NEW frozen \in SUBSET UNION Snapshots, NEW ev
  PROVE  workspace_of(frozen, ev) \in WorkspacesOf(ev)
<1> DEFINE byPane == {w \in frozen : HasPane({w}, ev.pane)}
           byTab  == {w \in frozen : HasTab({w}, ev.tab)}
           holder == IF byPane # {} THEN byPane ELSE byTab
           chosen == CHOOSE w \in holder : TRUE
<1>1. CASE ev.workspace # None
  BY <1>1 DEF workspace_of, WorkspacesOf
<1>2. CASE ev.workspace = None /\ holder # {}
  <2>1. chosen \in holder
    BY <1>2
  <2>2. workspace_of(frozen, ev) = chosen.workspace_id
    BY <1>2 DEF workspace_of
  <2> HIDE DEF chosen
  <2>3. chosen \in frozen /\ (HasPane({chosen}, ev.pane) \/ HasTab({chosen}, ev.tab))
    BY <2>1
  <2>4. QED
    BY <1>2, <2>2, <2>3 DEF WorkspacesOf
<1>3. CASE ev.workspace = None /\ holder = {}
  <2>1. workspace_of(frozen, ev) = None
    BY <1>3 DEF workspace_of
  <2>2. QED
    BY <1>3, <2>1 DEF WorkspacesOf
<1>4. QED
  BY <1>1, <1>2, <1>3

\* What is known of the events of a burst: each says what its hook was told, names a
\* pane if it is a pane's close, and if it is a tab's close the burst has the tab
\* unless the snapshots lacked it.
Faithful(b) ==
  b # NoBurst =>
    \A i \in DOMAIN b.events :
      LET ev == b.events[i]
          g  == Gesture[ev.hook]
      IN  /\ ev.name = g.name /\ ev.pane = g.pane /\ ev.tab = g.tab
          /\ ev.workspace = g.workspace
          /\ ev.name = "pane.closed" => ev.pane # None
          /\ ev.name = "tab.closed" => HasTab(b.frozen, ev.tab) \/ MayBeUnknown(ev.tab)

\* Each close of a finalized burst is undone by an entry or silenced by a rule.
LEMMA Fate ==
  ASSUME NEW b \in Bursts, Faithful(b), NEW next \in Nat \ {0}, NEW h \in HooksOf(b)
  PROVE  LET new == infer_entries(b, next)
         IN  (\E k \in DOMAIN new : h \in new[k].closes) \/ Silenced(h, HooksOf(b))
<1> DEFINE new == infer_entries(b, next)
<1>0. b # NoBurst
  BY RecordsAreNotNone
<1>1. PICK i \in DOMAIN b.events : b.events[i].hook = h
  BY <1>0 DEF HooksOf
<1>2. PICK at : Traced(new, b, at)
  BY InferredEach
<1>3. ASSUME NEW f \in Capturing(b), h \in Undoes(b, f)
      PROVE  \E k \in DOMAIN new : h \in new[k].closes
  <2> HIDE DEF new
  <2>1. QED
    BY <1>2, <1>3 DEF Traced
<1>4. DOMAIN b.events \in SUBSET Nat
  BY BurstPositions
<1> HIDE DEF new
<1> DEFINE ev == b.events[i]
<1>5. CASE i \notin Remaining(b)
  <2> DEFINE W == {j \in DOMAIN b.events : IsWorkspaceClose(b, j)}
  <2>1. W # {}
    BY <1>5 DEF Remaining, ClosedWorkspaces
  <2>2. \E f \in W : \A j \in W : f <= j
    BY <1>4, <2>1, LeastNat
  <2>3. PICK f \in W : \A j \in W : f <= j
    BY <2>2
  <2>4. f \in Capturing(b)
    BY <2>3 DEF Capturing
  <2>5. h \in Undoes(b, f)
    BY <1>1, <1>5, <2>3 DEF Undoes
  <2>6. QED
    BY <1>3, <2>4, <2>5 DEF new
<1>6. CASE i \in Remaining(b) /\ Captures(b, i)
  <2>1. i \in Capturing(b) /\ ~IsWorkspaceClose(b, i)
    BY <1>6 DEF Capturing, Remaining
  <2>2. h \in Undoes(b, i)
    BY <1>1, <2>1 DEF Undoes
  <2>3. QED
    BY <1>3, <2>1, <2>2 DEF new
<1>7. CASE i \in Remaining(b) /\ ~Captures(b, i)
  <2>0. /\ ev \in Events /\ ev.name # "workspace.closed" /\ i \in Partition(b, i)
        /\ b.frozen \in SUBSET UNION Snapshots
    BY <1>7, BurstPositions DEF Remaining, IsWorkspaceClose, Partition, Bursts
  <2>1. /\ ev.name = Gesture[h].name /\ ev.pane = Gesture[h].pane /\ ev.tab = Gesture[h].tab
        /\ ev.workspace = Gesture[h].workspace
        /\ ev.name = "pane.closed" => ev.pane # None
        /\ ev.name = "tab.closed" => HasTab(b.frozen, ev.tab) \/ MayBeUnknown(ev.tab)
    BY <1>0, <1>1 DEF Faithful
  <2>2. ASSUME NEW j \in Partition(b, i), b.events[j].name = "tab.closed"
        PROVE  Silenced(h, HooksOf(b))
    <3>1. CASE ev.name = "tab.closed"
      BY <1>7, <2>1, <2>2, <3>1 DEF Captures, Silenced
    <3>2. CASE ev.name # "tab.closed"
      <4> DEFINE o == b.events[j].hook
      <4>1. j \in DOMAIN b.events /\ WorkspaceAt(b, j) = WorkspaceAt(b, i)
        BY <2>2 DEF Partition, Remaining
      <4>2. o \in HooksOf(b)
        BY <1>0, <4>1 DEF HooksOf
      <4>3. /\ Gesture[o].name = b.events[j].name /\ Gesture[o].pane = b.events[j].pane
            /\ Gesture[o].tab = b.events[j].tab /\ Gesture[o].workspace = b.events[j].workspace
        BY <1>0, <4>1 DEF Faithful
      <4>4. WorkspaceAt(b, j) \in WorkspacesOf(b.events[j])
        BY <2>0, WorkspaceAmong DEF WorkspaceAt
      <4>5. WorkspaceAt(b, i) \in WorkspacesOf(ev)
        BY <2>0, WorkspaceAmong DEF WorkspaceAt
      <4>6. WorkspacesOf(b.events[j]) = WorkspacesOf(Gesture[o])
        BY <4>3 DEF WorkspacesOf
      <4>7. WorkspacesOf(ev) = WorkspacesOf(Gesture[h])
        BY <2>1 DEF WorkspacesOf
      <4> HIDE DEF o, ev
      <4>8. WorkspacesOf(Gesture[o]) \cap WorkspacesOf(Gesture[h]) # {}
        BY <4>1, <4>4, <4>5, <4>6, <4>7
      <4>9. Gesture[o].name = "tab.closed" /\ Gesture[h].name # "tab.closed"
        BY <2>1, <2>2, <3>2, <4>3
      <4>10. QED
        BY <4>2, <4>8, <4>9 DEF Silenced
    <3>3. QED
      BY <3>1, <3>2
  <2>3. CASE \A j \in Partition(b, i) : b.events[j].name # "tab.closed"
    <3>1. ev.name \in {"pane.closed", "pane.exited"}
      BY <2>0, <2>3 DEF Events, CLOSE_EVENTS
    <3>2. ~(/\ ev.pane # None
            /\ ev.name \in {"pane.closed"} \cup (IF CaptureExited THEN {"pane.exited"} ELSE {}))
      BY <1>7, <2>3 DEF Captures
    <3>3. ev.name = "pane.exited" /\ (~CaptureExited \/ ev.pane = None)
      BY <2>1, <3>1, <3>2, CaptureExitedAssumption
    <3>4. QED
      BY <2>1, <3>3 DEF Silenced
  <2>4. QED
    BY <2>2, <2>3
<1>8. QED
  BY <1>5, <1>6, <1>7

\* r is burst b after a push of ev: the events of j, what is left of b, and then ev.
Pushed(b, ev, frozen, j, r) ==
  /\ \/ j = b /\ b \in Bursts /\ b # NoBurst /\ ~Expired(b, ev.t0)
     \/ j.events = << >> /\ j.frozen = {}
  /\ r # NoBurst
  /\ r.frozen = j.frozen \cup {w \in frozen : \A x \in j.frozen :
                                                x.workspace_id # w.workspace_id}
  /\ Len(j.events) + 1 \in DOMAIN r.events /\ r.events[Len(j.events) + 1] = ev
  /\ \A i \in DOMAIN r.events :
       \/ i \in DOMAIN j.events /\ r.events[i] = j.events[i]
       \/ i = Len(j.events) + 1 /\ r.events[i] = ev

LEMMA PushedAfter ==
  ASSUME NEW b \in Bursts \cup {NoBurst}, NEW ev \in Events, NEW token, NEW frozen
  PROVE  Pushed(b, ev, frozen, Joined(b, ev.t0), push_event(b, ev, token, frozen))
<1> DEFINE j == Joined(b, ev.t0)
           r == push_event(b, ev, token, frozen)
           new == b = NoBurst \/ Expired(b, ev.t0) \/ Stale(b, ev.t0)
<1>1. \/ j = b /\ b \in Bursts /\ b # NoBurst /\ ~Expired(b, ev.t0)
      \/ j.events = << >> /\ j.frozen = {}
  <2>1. CASE new
    <3>1. j = [first_ms |-> ev.t0, last_ms |-> ev.t0, last_token |-> None,
               events |-> << >>, frozen |-> {}]
      BY <2>1 DEF Joined
    <3>2. QED
      BY <3>1
  <2>2. CASE ~new
    BY <2>2 DEF Joined
  <2>3. QED
    BY <2>1, <2>2
<1>2. j.events \in Seq(Events)
  <2> HIDE DEF j
  <2>1. \A c \in Bursts : c.events \in Seq(Events)
    BY DEF Bursts
  <2>2. << >> \in Seq(Events)
    OBVIOUS
  <2>3. QED
    BY <1>1, <2>1, <2>2
<1>3. /\ r.events = Append(j.events, ev)
      /\ r.frozen = j.frozen \cup {w \in frozen : \A x \in j.frozen :
                                                     x.workspace_id # w.workspace_id}
      /\ "first_ms" \in DOMAIN r
  BY DEF push_event
<1>4. r # NoBurst
  <2>1. "first_ms" \notin DOMAIN NoBurst
    BY DEF NoBurst
  <2>2. QED
    BY <1>3, <2>1
<1> HIDE DEF j, r
<1> DEFINE s == j.events
<1>5. /\ Len(s) + 1 \in DOMAIN Append(s, ev) /\ Append(s, ev)[Len(s) + 1] = ev
      /\ \A i \in DOMAIN Append(s, ev) :
           \/ i \in DOMAIN s /\ Append(s, ev)[i] = s[i]
           \/ i = Len(s) + 1 /\ Append(s, ev)[i] = ev
  <2> HIDE DEF s
  <2>1. s \in Seq(Events)
    BY <1>2 DEF s
  <2>2. QED
    BY ONLY <2>1, ev \in Events
<1>6. QED
  BY <1>1, <1>3, <1>4, <1>5 DEF j, r, Pushed

\* The events of a burst after a push: the ones it had, and the pushed one.
LEMMA PushedEvents ==
  ASSUME NEW b \in Bursts \cup {NoBurst}, NEW ev \in Events, NEW token, NEW frozen
  PROVE  LET j == Joined(b, ev.t0)
             r == push_event(b, ev, token, frozen)
         IN  /\ r # NoBurst /\ ev.hook \in HooksOf(r)
             /\ j.frozen \subseteq r.frozen
             /\ \A w \in frozen \ r.frozen :
                  \E x \in j.frozen : x.workspace_id = w.workspace_id
             /\ j.frozen = {} \/ (j = b /\ b \in Bursts)
             /\ \A i \in DOMAIN r.events :
                  \/ i \in DOMAIN b.events /\ r.events[i] = b.events[i] /\ j = b /\ b \in Bursts
                  \/ r.events[i] = ev
<1> DEFINE j == Joined(b, ev.t0)
           r == push_event(b, ev, token, frozen)
<1>1. Pushed(b, ev, frozen, j, r)
  BY PushedAfter
<1> HIDE DEF j, r
<1>2. DOMAIN << >> = {}
  OBVIOUS
<1>3. ev.hook \in HooksOf(r)
  BY <1>1 DEF Pushed, HooksOf
<1>4. \A i \in DOMAIN r.events :
        \/ i \in DOMAIN b.events /\ r.events[i] = b.events[i] /\ j = b /\ b \in Bursts
        \/ r.events[i] = ev
  BY <1>1, <1>2 DEF Pushed
<1>5. QED
  BY <1>1, <1>3, <1>4 DEF Pushed, j, r

\* No two events of a burst come from the same hook.
DistinctHooks(b) ==
  b # NoBurst =>
    \A i, j \in DOMAIN b.events : b.events[i].hook = b.events[j].hook => i = j

\* A burst that is over is replaced by the pushed event; a hook that is not yet in the
\* burst leaves the hooks of the burst distinct.
LEMMA PushedOnce ==
  ASSUME NEW b \in Bursts \cup {NoBurst}, NEW ev \in Events, NEW token, NEW frozen
  PROVE  LET r == push_event(b, ev, token, frozen)
         IN  /\ Expired(b, ev.t0) => HooksOf(r) \subseteq {ev.hook}
             /\ (DistinctHooks(b) /\ ev.hook \notin HooksOf(b)) => DistinctHooks(r)
<1> DEFINE j == Joined(b, ev.t0)
           r == push_event(b, ev, token, frozen)
           s == j.events
<1>1. Pushed(b, ev, frozen, j, r)
  BY PushedAfter
<1> HIDE DEF j, r
<1>2. DOMAIN << >> = {}
  OBVIOUS
<1>3. ASSUME Expired(b, ev.t0) PROVE HooksOf(r) \subseteq {ev.hook}
  BY <1>1, <1>2, <1>3 DEF Pushed, HooksOf
<1>4. ASSUME DistinctHooks(b), ev.hook \notin HooksOf(b) PROVE DistinctHooks(r)
  <2>1. \A i \in DOMAIN s : s[i].hook # ev.hook
    BY <1>1, <1>2, <1>4 DEF Pushed, HooksOf
  <2>2. \A i, k \in DOMAIN s : s[i].hook = s[k].hook => i = k
    BY <1>1, <1>2, <1>4 DEF Pushed, DistinctHooks
  <2>3. QED
    BY <1>1, <2>1, <2>2 DEF Pushed, DistinctHooks
<1>5. QED
  BY <1>3, <1>4 DEF r

\* A push keeps what is known of the events of a burst.
LEMMA PushedFaithful ==
  ASSUME NEW b \in Bursts \cup {NoBurst}, Faithful(b), NEW ev \in Events, NEW token,
         NEW snap \in Snapshots, NEW prev \in Snapshots,
         LET g == Gesture[ev.hook]
         IN  ev.name = g.name /\ ev.pane = g.pane /\ ev.tab = g.tab /\ ev.workspace = g.workspace,
         ev.name = "pane.closed" => ev.pane # None
  PROVE  Faithful(push_event(b, ev, token, freeze_for(best_snapshot(snap, prev, ev), ev)))
<1> DEFINE best == best_snapshot(snap, prev, ev)
           frozen == freeze_for(best, ev)
           j == Joined(b, ev.t0)
           r == push_event(b, ev, token, frozen)
<1>1. /\ j.frozen \subseteq r.frozen
      /\ \A w \in frozen \ r.frozen : \E x \in j.frozen : x.workspace_id = w.workspace_id
      /\ j.frozen = {} \/ (j = b /\ b \in Bursts)
      /\ \A i \in DOMAIN r.events :
           \/ i \in DOMAIN b.events /\ r.events[i] = b.events[i] /\ j = b /\ b \in Bursts
           \/ r.events[i] = ev
  <2> HIDE DEF frozen
  <2>1. QED
    BY PushedEvents
<1>2. best \in Snapshots /\ frozen \subseteq best
  BY DEF best_snapshot, freeze_for
<1>3. ASSUME ev.name = "tab.closed" PROVE HasTab(r.frozen, ev.tab) \/ MayBeUnknown(ev.tab)
  <2>1. CASE ~HasTab(best, ev.tab)
    BY <1>2, <2>1 DEF MayBeUnknown
  <2>2. CASE HasTab(best, ev.tab)
    <3>1. PICK w \in best : ev.tab # None /\ ev.tab \in DOMAIN w.tabs
      BY <2>2 DEF HasTab
    <3>2. w \in frozen /\ HasTab({w}, ev.tab)
      BY <3>1 DEF freeze_for, HasTab
    <3>3. CASE w \in r.frozen
      BY <3>1, <3>3 DEF HasTab
    <3>4. CASE w \notin r.frozen
      <4>1. PICK x \in j.frozen : x.workspace_id = w.workspace_id
        BY <1>1, <3>2, <3>4
      <4>2. x \in r.frozen /\ x \in UNION Snapshots /\ w \in UNION Snapshots
        BY <1>1, <1>2, <3>1, <4>1 DEF Bursts
      <4>3. CASE HasTab({x}, ev.tab)
        BY <4>2, <4>3 DEF HasTab
      <4>4. CASE ~HasTab({x}, ev.tab)
        BY <3>2, <4>1, <4>2, <4>4 DEF MayBeUnknown
      <4>5. QED
        BY <4>3, <4>4
    <3>5. QED
      BY <3>3, <3>4
  <2>3. QED
    BY <2>1, <2>2
<1> HIDE DEF r, j, frozen, best
<1>4. ASSUME NEW i \in DOMAIN r.events
      PROVE  LET e == r.events[i]
                 g == Gesture[e.hook]
             IN  /\ e.name = g.name /\ e.pane = g.pane /\ e.tab = g.tab
                 /\ e.workspace = g.workspace
                 /\ e.name = "pane.closed" => e.pane # None
                 /\ e.name = "tab.closed" => HasTab(r.frozen, e.tab) \/ MayBeUnknown(e.tab)
  <2>1. CASE r.events[i] = ev
    BY <1>3, <2>1
  <2>2. CASE i \in DOMAIN b.events /\ r.events[i] = b.events[i] /\ j = b /\ b \in Bursts
    <3>1. b # NoBurst /\ b.frozen \subseteq r.frozen
      BY <1>1, <2>2, RecordsAreNotNone
    <3>2. \A t : HasTab(b.frozen, t) => HasTab(r.frozen, t)
      BY <3>1 DEF HasTab
    <3>3. QED
      BY <2>2, <3>1, <3>2 DEF Faithful
  <2>3. QED
    BY <1>1, <1>4, <2>1, <2>2
<1>5. QED
  BY <1>4 DEF Faithful, r, frozen, best

\* The bursts are faithful, the one about to be written holds its writer's event, and
\* every close is accounted for: still pending, or settled by a rule.
BurstsFaithful ==
  /\ Faithful(pending) /\ \A p \in Processes : Faithful(buffer[p])
  /\ \A h \in Hooks : pc[h] = "pushed" => h \in HooksOf(buffer[h])
  /\ \A h \in Hooks : pc[h] = "push" /\ Gesture[h].name = "pane.closed" => Gesture[h].pane # None

Settled == \A h \in finalized : h \in Reported \/ Silenced(h, finalized)

Accounted == recorded \subseteq HooksOf(pending) \cup finalized \cup dropped

FateInv == UInv /\ BurstsFaithful /\ Settled /\ Accounted

LEMMA InitFate == Init => FateInv
<1> SUFFICES ASSUME Init PROVE FateInv
  OBVIOUS
<1>1. BurstsFaithful
  BY DEF Init, BurstsFaithful, Faithful, Processes
<1>2. Settled /\ Accounted
  BY DEF Init, Settled, Accounted
<1>3. QED
  BY <1>1, <1>2, InitUInv DEF FateInv

LEMMA StepFaithful == UInv /\ BurstsFaithful /\ Next => BurstsFaithful'
<1> SUFFICES ASSUME UInv, BurstsFaithful, Next PROVE BurstsFaithful'
  OBVIOUS
<1> DEFINE Own == \A h \in Hooks : pc[h] = "pushed" => h \in HooksOf(buffer[h])
           Checked == \A h \in Hooks : pc[h] = "push" /\ Gesture[h].name = "pane.closed"
                                         => Gesture[h].pane # None
           Buffers == \A p \in Processes : Faithful(buffer[p])
<1>0. /\ Faithful(pending) /\ Buffers /\ Own /\ Checked
      /\ Hooks \subseteq Processes /\ Reopens \subseteq Processes /\ Recoverers \subseteq Processes
      /\ \A h \in Hooks : h \notin Reopens /\ h \notin Recoverers
      /\ DOMAIN pc = Processes /\ DOMAIN buffer = Processes
      /\ pending \in Bursts \cup {NoBurst} /\ Faithful(NoBurst)
  BY ProcessAssumption DEF UInv, IInv, TypeOK, BurstsFaithful, Processes, Faithful
<1>1. ASSUME NEW h \in Hooks, PushEvent(h) PROVE BurstsFaithful'
  <2>1. PICK snap \in Snapshots, prev \in Snapshots :
           LET ev == EventOf(h)
           IN  buffer' = [buffer EXCEPT ![h] =
                 push_event(pending, ev, h, freeze_for(best_snapshot(snap, prev, ev), ev))]
    BY <1>1 DEF PushEvent
  <2> DEFINE ev == EventOf(h)
             frozen == freeze_for(best_snapshot(snap, prev, ev), ev)
             r == push_event(pending, ev, h, frozen)
  <2>2. /\ ev \in Events /\ ev.hook = h
        /\ ev.name = Gesture[h].name /\ ev.pane = Gesture[h].pane /\ ev.tab = Gesture[h].tab
        /\ ev.workspace = Gesture[h].workspace
    BY GestureAssumption DEF EventOf, Events, UInv, IInv, TypeOK, Processes
  <2>3. pc[h] = "push" /\ pc' = [pc EXCEPT ![h] = "pushed"] /\ pending' = pending
    BY <1>1 DEF PushEvent, Goto
  <2>4. ev.name = "pane.closed" => ev.pane # None
    BY <1>0, <2>2, <2>3
  <2> HIDE DEF ev
  <2>5. Faithful(r)
    BY <1>0, <2>2, <2>4, PushedFaithful
  <2>6. h \in HooksOf(r)
    <3> HIDE DEF frozen
    <3>1. ev.hook \in HooksOf(r)
      BY <1>0, <2>2, PushedEvents
    <3>2. QED
      BY <2>2, <3>1
  <2>7. buffer' = [buffer EXCEPT ![h] = r]
    BY <2>1 DEF ev
  <2> HIDE DEF r
  <2>8. QED
    BY <1>0, <2>3, <2>5, <2>6, <2>7 DEF BurstsFaithful
<1>2. ASSUME NEW h \in Hooks, WritePending(h) PROVE BurstsFaithful'
  <2>1. /\ pc' = [pc EXCEPT ![h] = "sleep"]
        /\ pending' = buffer[h] /\ buffer' = [buffer EXCEPT ![h] = NoBurst]
    BY <1>2 DEF WritePending, Goto
  <2>2. QED
    BY <1>0, <2>1 DEF BurstsFaithful
<1>3. ASSUME NEW h \in Hooks, CheckHook(h) PROVE BurstsFaithful'
  <2>1. CASE pc' = [pc EXCEPT ![h] = "done"] /\ pending' = pending /\ buffer' = buffer
    BY <1>0, <2>1 DEF BurstsFaithful
  <2>2. CASE /\ pc' = [pc EXCEPT ![h] = "push"] /\ pending' = pending /\ buffer' = buffer
             /\ ~(Gesture[h].name = "pane.closed" /\ Gesture[h].pane = None)
    BY <1>0, <2>2 DEF BurstsFaithful
  <2>3. QED
    BY <1>3, <2>1, <2>2 DEF CheckHook, Goto, Finish, files
<1>4. ASSUME NEW p \in Processes, Crash(p) PROVE BurstsFaithful'
  <2>1. /\ pc' = [pc EXCEPT ![p] = "dead"]
        /\ pending' = pending /\ buffer' = [buffer EXCEPT ![p] = NoBurst]
    BY <1>4 DEF Crash, Goto, files
  <2>2. QED
    BY <1>0, <2>1 DEF BurstsFaithful
<1>5. CASE /\ pending' \in {pending, NoBurst} /\ buffer' = buffer
           /\ \/ pc' = pc
              \/ \E p \in Processes : \E to \in {"check", "sleep", "finalized", "done", "restoring",
                   "created", "recover", "unburst", "sweep", "prune"} : pc' = [pc EXCEPT ![p] = to]
  BY <1>0, <1>5 DEF BurstsFaithful
<1>6. ASSUME NEW h \in Hooks, HookStep(h), ~PushEvent(h), ~WritePending(h), ~CheckHook(h)
      PROVE  BurstsFaithful'
  BY <1>0, <1>5, <1>6 DEF HookStep, StartHook, FinalizeBurst, ClearPending, LeaveBurst, Goto, Finish, files
<1>7. ASSUME NEW r \in Reopens, ReopenStep(r) PROVE BurstsFaithful'
  BY <1>0, <1>5, <1>7 DEF ReopenStep, Pop, FindNothing, Create, RecordCreated, PushBack, Goto, files
<1>8. ASSUME NEW c \in Recoverers, RecoverStep(c) PROVE BurstsFaithful'
  BY <1>0, <1>5, <1>8 DEF RecoverStep, Startup, RecoverOnce, RecoverBurst, RecoverPending,
       ForgetCreated, PruneStack, Goto, Finish, files
<1>9. CASE Tick
  BY <1>5, <1>9 DEF Tick, files
<1>10. QED
  BY <1>1, <1>2, <1>3, <1>4, <1>6, <1>7, <1>8, <1>9 DEF Next

\* The first id a finalization gives out.
LEMMA NextIsPositive ==
  ASSUME TypeOK, StackInv
  PROVE  next_entry_id(prune_entries(closed, now)) \in Nat \ {0}
<1> DEFINE p == prune_entries(closed, now)
<1>1. /\ p \in [entries : Seq(Entries), next_id : Nat]
      /\ p.next_id = closed.next_id /\ Members(p.entries) \subseteq Members(closed.entries)
  BY PruneMembers DEF TypeOK
<1> HIDE DEF p
<1>2. \A e \in Members(p.entries) : e.id \in Nat /\ e.id < p.next_id
  BY <1>1 DEF StackInv, TypeOK, Entries
<1>3. IdsOf(p) \subseteq Nat /\ \A id \in IdsOf(p) : id < p.next_id
  BY <1>2 DEF IdsOf, Members
<1>4. p.next_id \in Nat
  BY <1>1
<1>5. next_entry_id(p) = IF p.next_id >= 1 THEN p.next_id ELSE 1
  BY <1>3, <1>4, NextEntryId
<1>6. QED
  BY <1>4, <1>5 DEF p

\* What a finalization settles.
LEMMA FinalizeSettles ==
  ASSUME TypeOK, StackInv, Settled, NEW b \in Bursts, Faithful(b), Finalize(b)
  PROVE  Settled'
<1> DEFINE next == next_entry_id(prune_entries(closed, now))
           new == infer_entries(b, next)
<1>1. next \in Nat \ {0}
  BY NextIsPositive
<1> HIDE DEF next
<1>2. /\ captures' = captures \cup {new[k] : k \in DOMAIN new}
      /\ finalized' = finalized \cup HooksOf(b)
  BY DEF Finalize, captured, next
<1>3. \A h \in HooksOf(b) : (\E k \in DOMAIN new : h \in new[k].closes) \/ Silenced(h, HooksOf(b))
  BY <1>1, Fate
<1> HIDE DEF new
<1>4. Reported \subseteq Reported'
  BY <1>2 DEF Reported
<1>5. ASSUME NEW h \in HooksOf(b) PROVE h \in Reported' \/ Silenced(h, finalized')
  <2>1. CASE \E k \in DOMAIN new : h \in new[k].closes
    BY <1>2, <2>1 DEF Reported
  <2>2. CASE Silenced(h, HooksOf(b))
    BY <1>2, <2>2 DEF Silenced
  <2>3. QED
    BY <1>3, <2>1, <2>2
<1>6. ASSUME NEW h \in finalized PROVE h \in Reported' \/ Silenced(h, finalized')
  BY <1>2, <1>4 DEF Settled, Silenced
<1>7. QED
  BY <1>2, <1>5, <1>6 DEF Settled

LEMMA StepSettled == UInv /\ BurstsFaithful /\ Settled /\ Next => Settled'
<1> SUFFICES ASSUME UInv, BurstsFaithful, Settled, Next PROVE Settled'
  OBVIOUS
<1>0. TypeOK /\ StackInv /\ Faithful(pending) /\ (pending # NoBurst => pending \in Bursts)
  BY DEF UInv, IInv, TypeOK, BurstsFaithful
<1>1. CASE Finalize(pending) /\ pending # NoBurst
  BY <1>0, <1>1, FinalizeSettles
<1>2. CASE captures' = captures /\ finalized' = finalized
  BY <1>2 DEF Settled, Reported
<1>3. CASE \/ \E h \in Hooks : PushEvent(h) \/ FinalizeBurst(h)
           \/ \E c \in Recoverers : RecoverBurst(c)
  BY <1>1, <1>2, <1>3 DEF PushEvent, FinalizeExpired, FinalizeBurst, RecoverBurst, Expired,
       Abandoned, owns_finalization
<1>4. CASE ~(\/ \E h \in Hooks : PushEvent(h) \/ FinalizeBurst(h)
             \/ \E c \in Recoverers : RecoverBurst(c))
  <2>1. captures' = captures /\ finalized' = finalized
    BY <1>4 DEF Next, HookStep, ReopenStep, RecoverStep, history, StartHook, CheckHook,
         WritePending, ClearPending, LeaveBurst, Pop, FindNothing, Create, RecordCreated, PushBack,
         Startup, RecoverOnce, RecoverPending, ForgetCreated, PruneStack, Crash, Tick
  <2>2. QED
    BY <1>2, <2>1
<1>5. QED
  BY <1>3, <1>4

LEMMA StepAccounted == UInv /\ BurstsFaithful /\ Accounted /\ Next => Accounted'
<1> SUFFICES ASSUME UInv, BurstsFaithful, Accounted, Next PROVE Accounted'
  OBVIOUS
<1>1. Kept
  BY StepKept DEF UInv
<1>2. finalized \subseteq finalized' /\ dropped \subseteq dropped'
  BY DEF Next, HookStep, ReopenStep, RecoverStep, history, StartHook, CheckHook, PushEvent,
       FinalizeExpired, FinalizeBurst, Finalize, WritePending, ClearPending, LeaveBurst, Pop,
       FindNothing, Create, RecordCreated, PushBack, Startup, RecoverOnce, RecoverBurst,
       RecoverPending, ForgetCreated, PruneStack, Crash, Tick
<1>3. \/ recorded' = recorded
      \/ \E h \in Hooks : recorded' = recorded \cup {h} /\ h \in HooksOf(pending')
  <2>1. ASSUME NEW h \in Hooks, WritePending(h)
        PROVE  recorded' = recorded \cup {h} /\ h \in HooksOf(pending')
    BY <2>1 DEF WritePending, BurstsFaithful
  <2>2. CASE ~\E h \in Hooks : WritePending(h)
    BY <2>2 DEF Next, HookStep, ReopenStep, RecoverStep, history, StartHook, CheckHook, PushEvent,
         FinalizeBurst, ClearPending, LeaveBurst, Pop, FindNothing, Create, RecordCreated, PushBack,
         Startup, RecoverOnce, RecoverBurst, RecoverPending, ForgetCreated, PruneStack, Crash, Tick
  <2>3. QED
    BY <2>1, <2>2
<1>4. HooksOf(pending)' = HooksOf(pending')
  BY DEF HooksOf
<1>5. QED
  BY <1>1, <1>2, <1>3, <1>4 DEF Accounted, Kept

LEMMA FateInvariance == Spec => []FateInv
<1>1. ASSUME FateInv, [Next]_vars PROVE FateInv'
  <2>1. UInv'
    BY <1>1, StepUInv DEF FateInv
  <2>2. CASE Next
    BY <1>1, <2>1, <2>2, StepFaithful, StepSettled, StepAccounted DEF FateInv
  <2>3. CASE UNCHANGED vars
    BY <1>1, <2>1, <2>3 DEF FateInv, BurstsFaithful, Settled, Reported, Accounted, vars, files, history
  <2>4. QED
    BY <1>1, <2>2, <2>3
<1>2. QED
  BY <1>1, InitFate, PTL DEF Spec

\* A close whose hook wrote it down is at every moment still pending, or undone by an
\* entry, or silenced or dropped by a rule of the code, for every number of hooks,
\* reopens, recoveries and kills (on_close, push_event, infer_entries, finalize_locked).
THEOREM NoCloseIsLost == Spec => []NothingLost
<1>1. FateInv => NothingLost
  BY DEF FateInv, Settled, Accounted, NothingLost
<1>2. QED
  BY <1>1, FateInvariance, PTL

(***************************************************************************)
(* How often a close is captured.                                          *)
(***************************************************************************)
\* Two tabs whose closes share a burst and a workspace have no pane in common.
TabsApart(b) ==
  b # NoBurst =>
    \A i, j \in DOMAIN b.events :
      (/\ i # j /\ WorkspaceAt(b, i) = WorkspaceAt(b, j)
       /\ b.events[i].name = "tab.closed" /\ b.events[j].name = "tab.closed")
        => TabPanes(b, b.events[i].tab) \cap TabPanes(b, b.events[j].tab) = {}

\* No close is undone by two entries of one finalization.
LEMMA UndoesDisjoint ==
  ASSUME NEW b \in Bursts, TabsApart(b), DistinctHooks(b),
         NEW i \in Capturing(b), NEW j \in Capturing(b), i # j
  PROVE  Undoes(b, i) \cap Undoes(b, j) = {}
<1> DEFINE Covered(x) ==
             IF IsWorkspaceClose(b, x)
             THEN DOMAIN b.events \ Remaining(b)
             ELSE {x} \cup {y \in Partition(b, x) : /\ b.events[x].name = "tab.closed"
                                                    /\ b.events[y].name # "tab.closed"
                                                    /\ b.events[y].pane \in CapturedPanes(b, x)}
<1>0. /\ b # NoBurst /\ i \in DOMAIN b.events /\ j \in DOMAIN b.events
      /\ \A x \in Capturing(b) : ~IsWorkspaceClose(b, x) => x \in Remaining(b) /\ Captures(b, x)
      /\ Remaining(b) \subseteq DOMAIN b.events
      /\ DOMAIN b.events \subseteq Nat
  <2>1. /\ DOMAIN b.events = 1 .. Len(b.events) /\ Len(b.events) \in Nat
        /\ Capturing(b) \in SUBSET DOMAIN b.events /\ b # NoBurst
    BY BurstPositions, RecordsAreNotNone
  <2>2. ASSUME NEW x \in Capturing(b), ~IsWorkspaceClose(b, x)
        PROVE  x \in Remaining(b) /\ Captures(b, x)
    BY <2>2 DEF Capturing
  <2>3. Remaining(b) \subseteq DOMAIN b.events
    BY DEF Remaining
  <2>4. QED
    BY <2>1, <2>2, <2>3
<1>1. ASSUME NEW x \in Capturing(b), NEW y \in Capturing(b), x # y,
             IsWorkspaceClose(b, x)
      PROVE  Covered(x) \cap Covered(y) = {}
  <2>1. ~IsWorkspaceClose(b, y)
    <3> SUFFICES ASSUME IsWorkspaceClose(b, y) PROVE FALSE
      OBVIOUS
    <3>1. x \in DOMAIN b.events /\ y \in DOMAIN b.events /\ x <= y /\ y <= x
      BY <1>1 DEF Capturing
    <3>2. QED
      BY <1>0, <1>1, <3>1
  <2>2. Covered(y) \subseteq Remaining(b)
    BY <1>0, <2>1 DEF Partition
  <2>3. QED
    BY <1>1, <2>2
<1>2. ASSUME ~IsWorkspaceClose(b, i), ~IsWorkspaceClose(b, j),
             NEW k \in Covered(i), k \in Covered(j)
      PROVE  FALSE
  <2>1. /\ i \in Remaining(b) /\ Captures(b, i) /\ j \in Remaining(b) /\ Captures(b, j)
    BY <1>0, <1>2
  <2>2. WorkspaceAt(b, k) = WorkspaceAt(b, i) /\ WorkspaceAt(b, k) = WorkspaceAt(b, j)
    BY <1>2 DEF Partition
  <2>3. i \in Partition(b, j) /\ j \in Partition(b, i)
    BY <2>1, <2>2 DEF Partition
  <2>4. b.events[j].name = "tab.closed" => b.events[i].name = "tab.closed"
    BY <2>1, <2>3 DEF Captures
  <2>5. b.events[i].name = "tab.closed" => b.events[j].name = "tab.closed"
    BY <2>1, <2>3 DEF Captures
  <2>6. k # i /\ k # j
    BY <1>2, <2>4, <2>5
  <2>7. /\ b.events[i].name = "tab.closed" /\ b.events[j].name = "tab.closed"
        /\ b.events[k].pane \in CapturedPanes(b, i) \cap CapturedPanes(b, j)
    BY <1>2, <2>6
  <2>8. b.events[k].pane \in TabPanes(b, b.events[i].tab) \cap TabPanes(b, b.events[j].tab)
    BY <2>7 DEF CapturedPanes
  <2>9. QED
    BY <1>0, <2>2, <2>7, <2>8 DEF TabsApart
<1>3. Covered(i) \cap Covered(j) = {}
  <2>1. CASE IsWorkspaceClose(b, i)
    BY <1>1, <2>1
  <2>2. CASE IsWorkspaceClose(b, j)
    <3>1. Covered(j) \cap Covered(i) = {}
      BY <1>1, <2>2
    <3>2. QED
      BY <3>1
  <2>3. CASE ~IsWorkspaceClose(b, i) /\ ~IsWorkspaceClose(b, j)
    BY <1>2, <2>3
  <2>4. QED
    BY <2>1, <2>2, <2>3
<1>4. \A x \in {i, j} : Covered(x) \subseteq DOMAIN b.events
  BY <1>0 DEF Partition
<1>5. Undoes(b, i) = {b.events[k].hook : k \in Covered(i)}
  BY DEF Undoes
<1>6. Undoes(b, j) = {b.events[k].hook : k \in Covered(j)}
  BY DEF Undoes
<1> HIDE DEF Covered
<1>7. QED
  BY <1>0, <1>3, <1>4, <1>5, <1>6 DEF DistinctHooks

\* How often a close was captured.
Times(h) == Cardinality({e \in captures : h \in e.closes})

\* A finalization captures each close of its burst at most once more, and no other.
LEMMA FinalizeTimes ==
  ASSUME IInv, IsFiniteSet(captures), NEW b \in Bursts, TabsApart(b), DistinctHooks(b), Finalize(b)
  PROVE  /\ IsFiniteSet(captures')
         /\ \A h \in Hooks : /\ Times(h) \in Nat /\ Times(h)' \in Nat
                             /\ Times(h)' <= Times(h) + 1
                             /\ h \notin HooksOf(b) => Times(h)' = Times(h)
<1> DEFINE next == next_entry_id(prune_entries(closed, now))
           new == infer_entries(b, next)
           members == {new[k] : k \in DOMAIN new}
           Old(h) == {e \in captures : h \in e.closes}
           New(h) == {e \in captures' : h \in e.closes}
<1>1. next \in Nat \ {0}
  BY NextIsPositive DEF IInv
<1> HIDE DEF next
<1>2. captures' = captures \cup members
  BY DEF Finalize, captured, next
<1>3. /\ DOMAIN new = 1 .. Cardinality(Capturing(b)) /\ Cardinality(Capturing(b)) \in Nat
      /\ new \in [DOMAIN new -> Entries]
      /\ \A k \in DOMAIN new : new[k].closes \subseteq HooksOf(b)
  <2> HIDE DEF new
  <2>1. QED
    BY <1>1, Inferred, BurstPositions DEF new
<1>4. PICK at : Traced(new, b, at)
  BY <1>1, InferredEach
<1> HIDE DEF new
<1>5. IsFiniteSet(members)
  <2>1. \A n \in Nat : IsFiniteSet(1 .. n)
    BY FS_Interval
  <2>2. IsFiniteSet(DOMAIN new)
    BY <1>3, <2>1
  <2>3. new \in Surjection(DOMAIN new, members)
    BY <1>3 DEF Surjection
  <2>4. QED
    BY <2>2, <2>3, FS_Surjection
<1>6. IsFiniteSet(captures')
  BY <1>2, <1>5, FS_Union
<1>7. ASSUME NEW k \in DOMAIN new, NEW l \in DOMAIN new, NEW h,
             h \in new[k].closes, h \in new[l].closes
      PROVE  k = l
  <2>1. /\ at[k] \in Capturing(b) /\ at[l] \in Capturing(b)
        /\ h \in Undoes(b, at[k]) \cap Undoes(b, at[l])
    BY <1>4, <1>7 DEF Traced
  <2>2. at[k] = at[l]
    BY <2>1, UndoesDisjoint
  <2>3. QED
    BY <1>4, <2>2 DEF Traced
<1>8. ASSUME NEW h \in Hooks
      PROVE  /\ IsFiniteSet(Old(h)) /\ IsFiniteSet(New(h))
             /\ Cardinality(Old(h)) \in Nat /\ Cardinality(New(h)) \in Nat
             /\ Cardinality(New(h)) <= Cardinality(Old(h)) + 1
             /\ h \notin HooksOf(b) => Cardinality(New(h)) = Cardinality(Old(h))
  <2>1. /\ IsFiniteSet(Old(h)) /\ IsFiniteSet(New(h))
        /\ Cardinality(Old(h)) \in Nat /\ Cardinality(New(h)) \in Nat
    BY <1>6, FS_Subset, FS_CardinalityType
  <2>2. CASE \A k \in DOMAIN new : h \notin new[k].closes
    <3>1. New(h) = Old(h)
      BY <1>2, <2>2
    <3> HIDE DEF Old, New
    <3>2. QED
      BY <2>1, <3>1
  <2>3. ASSUME NEW k \in DOMAIN new, h \in new[k].closes
        PROVE  Cardinality(New(h)) <= Cardinality(Old(h)) + 1 /\ h \in HooksOf(b)
    <3>1. New(h) \subseteq Old(h) \cup {new[k]}
      BY <1>2, <1>7, <2>3
    <3>2. h \in HooksOf(b)
      BY <1>3, <2>3
    <3> HIDE DEF Old, New
    <3>3. /\ IsFiniteSet(Old(h) \cup {new[k]})
          /\ Cardinality(Old(h) \cup {new[k]}) \in {Cardinality(Old(h)), Cardinality(Old(h)) + 1}
      BY <2>1, FS_AddElement
    <3>4. Cardinality(New(h)) <= Cardinality(Old(h) \cup {new[k]})
      BY <3>1, <3>3, FS_Subset
    <3>5. QED
      BY <2>1, <3>2, <3>3, <3>4
  <2> HIDE DEF Old, New
  <2>4. QED
    BY <2>1, <2>2, <2>3
<1>9. \A h \in Hooks : Times(h) = Cardinality(Old(h)) /\ Times(h)' = Cardinality(New(h))
  BY DEF Times
<1> HIDE DEF Old, New
<1>10. QED
  BY <1>6, <1>8, <1>9

\* A hook that has not written its event yet.
Early == {"idle", "check", "push", "pushed"}

\* A process between the write of closed.json and that of pending.json, or, for a hook
\* that adds its event, between reading pending.json and writing it.
Half == {"pushed", "finalized", "unburst"}

\* Outside these sections the pending closes were captured at most once for each kill;
\* so were those of a burst about to be written; and a close that is not written yet
\* is in no burst and no entry.
OnceInv ==
  /\ IsFiniteSet(captures) /\ \A h \in Hooks : Times(h) <= 1 + crashes
  /\ (\A p \in Processes : pc[p] \notin Half) => \A h \in HooksOf(pending) : Times(h) <= crashes
  /\ \A q \in Hooks : pc[q] = "pushed" => \A h \in HooksOf(buffer[q]) : Times(h) <= crashes
  /\ \A h \in Hooks : pc[h] \in Early => h \notin HooksOf(pending) /\ Times(h) = 0
  /\ DistinctHooks(pending) /\ \A p \in Processes : DistinctHooks(buffer[p])

LEMMA InitOnce == Init => OnceInv
<1> SUFFICES ASSUME Init PROVE OnceInv
  OBVIOUS
<1>1. HooksOf(pending) = {} /\ IsFiniteSet(captures)
  BY FS_EmptySet DEF Init, HooksOf
<1>2. \A h \in Hooks : Times(h) = 0
  <2> SUFFICES ASSUME NEW h \in Hooks PROVE Times(h) = 0
    OBVIOUS
  <2>1. {e \in captures : h \in e.closes} = {}
    BY DEF Init
  <2>2. QED
    BY <2>1, FS_EmptySet DEF Times
<1>3. QED
  BY <1>1, <1>2 DEF Init, OnceInv, DistinctHooks, Processes

\* What a step that may finalize the pending burst does to the counts.
LEMMA CountedOnce ==
  ASSUME UInv, OnceInv, TabsApart(pending),
         \/ Finalize(pending) /\ pending # NoBurst
         \/ captures' = captures
  PROVE  /\ IsFiniteSet(captures')
         /\ \A h \in Hooks : /\ Times(h) \in Nat /\ Times(h)' \in Nat
                             /\ Times(h)' <= Times(h) + 1
                             /\ h \notin HooksOf(pending) => Times(h)' = Times(h)
<1>1. CASE Finalize(pending) /\ pending # NoBurst
  <2>1. pending \in Bursts
    BY <1>1 DEF UInv, IInv, TypeOK
  <2>2. QED
    BY <1>1, <2>1, FinalizeTimes DEF UInv, OnceInv
<1>2. CASE captures' = captures
  <2>1. \A h \in Hooks : IsFiniteSet({e \in captures : h \in e.closes})
    BY FS_Subset DEF OnceInv
  <2>2. \A h \in Hooks : Times(h) \in Nat
    BY <2>1, FS_CardinalityType DEF Times
  <2>3. QED
    BY <1>2, <2>2 DEF OnceInv, Times
<1>3. QED
  BY <1>1, <1>2

LEMMA StepOnce == UInv /\ OnceInv /\ TabsApart(pending) /\ Next => OnceInv'
<1> SUFFICES ASSUME UInv, OnceInv, TabsApart(pending), Next PROVE OnceInv'
  OBVIOUS
<1> DEFINE Ready == \A p \in Processes : pc[p] \notin Half
           Few == \A h \in HooksOf(pending) : Times(h) <= crashes
           Kinds == DistinctHooks(pending) /\ \A p \in Processes : DistinctHooks(buffer[p])
<1>0. /\ IsFiniteSet(captures) /\ (\A h \in Hooks : Times(h) <= 1 + crashes)
      /\ (Ready => Few)
      /\ (\A q \in Hooks : pc[q] = "pushed" => \A h \in HooksOf(buffer[q]) : Times(h) <= crashes)
      /\ (\A h \in Hooks : pc[h] \in Early => h \notin HooksOf(pending) /\ Times(h) = 0)
      /\ Kinds
  BY DEF OnceInv
<1>a. /\ Hooks \subseteq Processes /\ Reopens \subseteq Processes /\ Recoverers \subseteq Processes
      /\ \A h \in Hooks : h \notin Reopens /\ h \notin Recoverers
      /\ DOMAIN pc = Processes /\ DOMAIN buffer = Processes /\ crashes \in Nat
      /\ pending \in Bursts \cup {NoBurst} /\ HooksOf(pending) \in SUBSET Hooks
      /\ HooksOf(NoBurst) = {} /\ DistinctHooks(NoBurst)
      /\ \A p \in Processes : HooksOf(buffer[p]) \in SUBSET Hooks
      /\ \A p, q \in Processes : pc[p] \in Half /\ pc[q] \in Half => p = q
      /\ lock = None => Ready
  <2>1. /\ DOMAIN pc = Processes /\ DOMAIN buffer = Processes /\ crashes \in Nat
        /\ pending \in Bursts \cup {NoBurst} /\ \A p \in Processes : buffer[p] \in Bursts \cup {NoBurst}
    BY DEF UInv, IInv, TypeOK
  <2>2. \A p \in Processes : pc[p] \in Half => lock = p
    BY DEF UInv, IInv, LockInv, Half, Critical
  <2>3. QED
    BY <2>1, <2>2, HooksOfBurst, ProcessAssumption DEF Processes, HooksOf, DistinctHooks
<1>b. \A h \in Hooks : captures' = captures => Times(h)' = Times(h)
  BY DEF Times
<1>c. \A h \in Hooks : Times(h) \in Nat
  <2>1. \A h \in Hooks : IsFiniteSet({e \in captures : h \in e.closes})
    BY <1>0, FS_Subset
  <2>2. QED
    BY <2>1, FS_CardinalityType DEF Times
<1>1. ASSUME NEW h \in Hooks, PushEvent(h) PROVE OnceInv'
  <2>1. /\ pc[h] = "push" /\ pc' = [pc EXCEPT ![h] = "pushed"] /\ pending' = pending
        /\ crashes' = crashes /\ lock = None
        /\ \/ Finalize(pending) /\ pending # NoBurst /\ Expired(pending, t0[h])
           \/ captures' = captures
    BY <1>1 DEF PushEvent, Goto, Acquire, FinalizeExpired, Expired
  <2>2. /\ IsFiniteSet(captures')
        /\ \A g \in Hooks : /\ Times(g) \in Nat /\ Times(g)' \in Nat
                            /\ Times(g)' <= Times(g) + 1
                            /\ g \notin HooksOf(pending) => Times(g)' = Times(g)
    BY <2>1, CountedOnce
  <2>3. Few /\ h \notin HooksOf(pending) /\ Times(h)' = 0
    BY <1>0, <1>a, <2>1, <2>2 DEF Early
  <2>4. PICK snap \in Snapshots, prev \in Snapshots :
           LET ev == EventOf(h)
           IN  buffer' = [buffer EXCEPT ![h] =
                 push_event(pending, ev, h, freeze_for(best_snapshot(snap, prev, ev), ev))]
    BY <1>1 DEF PushEvent
  <2> DEFINE ev == EventOf(h)
             frozen == freeze_for(best_snapshot(snap, prev, ev), ev)
             r == push_event(pending, ev, h, frozen)
  <2>5. ev \in Events /\ ev.hook = h /\ ev.t0 = t0[h]
    BY GestureAssumption DEF EventOf, Events, UInv, IInv, TypeOK, Processes
  <2> HIDE DEF ev, frozen
  <2>6. /\ Expired(pending, ev.t0) => HooksOf(r) \subseteq {ev.hook}
        /\ DistinctHooks(pending) /\ ev.hook \notin HooksOf(pending) => DistinctHooks(r)
    BY <1>a, <2>5, PushedOnce
  <2>7. HooksOf(r) \subseteq HooksOf(pending) \cup {ev.hook}
    BY <1>a, PushedHooks
  <2>8. buffer' = [buffer EXCEPT ![h] = r]
    BY <2>4 DEF ev, frozen
  <2> HIDE DEF r
  <2>9. \A g \in HooksOf(r) : Times(g)' <= crashes
    <3>1. CASE Expired(pending, t0[h])
      BY <1>a, <2>3, <2>5, <2>6, <3>1
    <3>2. CASE captures' = captures
      BY <1>a, <1>b, <2>3, <2>5, <2>7, <3>2
    <3>3. QED
      BY <2>1, <3>1, <3>2
  <2>10. \A g \in Hooks : Times(g)' <= 1 + crashes
    BY <1>0, <1>a, <2>2, <2>3
  <2>11. \A q \in Hooks : pc'[q] = "pushed" => q = h
    BY <1>a, <2>1 DEF Half
  <2>12. \A g \in Hooks : pc'[g] \in Early => g \notin HooksOf(pending) /\ Times(g)' = 0
    BY <1>0, <1>a, <2>1, <2>2 DEF Early
  <2>13. DistinctHooks(r)
    BY <1>0, <2>3, <2>5, <2>6
  <2>14. pc'[h] \in Half
    BY <1>a, <2>1 DEF Half
  <2>15. QED
    BY <1>0, <1>a, <2>1, <2>2, <2>8, <2>9, <2>10, <2>11, <2>12, <2>13, <2>14 DEF OnceInv
<1>2. ASSUME NEW h \in Hooks, WritePending(h) PROVE OnceInv'
  <2>1. /\ pc[h] = "pushed" /\ pc' = [pc EXCEPT ![h] = "sleep"] /\ captures' = captures
        /\ crashes' = crashes
        /\ pending' = buffer[h] /\ buffer' = [buffer EXCEPT ![h] = NoBurst]
    BY <1>2 DEF WritePending, Goto
  <2>2. HooksOf(buffer[h]) \subseteq HooksOf(pending) \cup {h}
    BY <2>1 DEF UInv, Adds
  <2>3. \A g \in Hooks : pc'[g] \in Early => g # h /\ pc[g] \in Early
    BY <1>a, <2>1 DEF Early
  <2>4. \A q \in Hooks : pc'[q] # "pushed"
    BY <1>a, <2>1 DEF Half
  <2>5. QED
    BY <1>0, <1>a, <1>b, <2>1, <2>2, <2>3, <2>4 DEF OnceInv
<1>3. ASSUME NEW p \in Processes, lock = None, pc'[p] \in {"finalized", "unburst"},
             \E to : pc' = [pc EXCEPT ![p] = to],
             pending' = pending, buffer' = buffer, crashes' = crashes,
             Finalize(pending) /\ pending # NoBurst
      PROVE  OnceInv'
  <2>1. /\ IsFiniteSet(captures')
        /\ \A g \in Hooks : /\ Times(g) \in Nat /\ Times(g)' \in Nat
                            /\ Times(g)' <= Times(g) + 1
                            /\ g \notin HooksOf(pending) => Times(g)' = Times(g)
    BY <1>3, CountedOnce
  <2>2. Few /\ Ready
    BY <1>0, <1>a, <1>3
  <2>3. \A g \in Hooks : Times(g)' <= 1 + crashes
    BY <1>0, <1>a, <2>1, <2>2
  <2>4. \A g \in Hooks : pc'[g] # "pushed" /\ (pc'[g] \in Early => pc[g] \in Early)
    BY <1>a, <1>3, <2>2 DEF Early, Half
  <2>5. pc'[p] \in Half
    BY <1>3 DEF Half
  <2>6. QED
    BY <1>0, <1>a, <1>3, <2>1, <2>3, <2>4, <2>5 DEF OnceInv
<1>4. CASE /\ captures' = captures /\ pending' = NoBurst /\ buffer' = buffer /\ crashes' = crashes
           /\ \A h \in Hooks : /\ pc'[h] = "pushed" => pc[h] = "pushed"
                               /\ pc'[h] \in Early => pc[h] \in Early
  BY <1>0, <1>a, <1>b, <1>4 DEF OnceInv
<1>5. ASSUME NEW p \in Processes, Crash(p) PROVE OnceInv'
  <2>1. /\ pc' = [pc EXCEPT ![p] = "dead"] /\ captures' = captures /\ pending' = pending
        /\ buffer' = [buffer EXCEPT ![p] = NoBurst] /\ crashes' = crashes + 1
    BY <1>5 DEF Crash, Goto, files, history
  <2>2. \A g \in Hooks : Times(g)' <= crashes' /\ Times(g)' <= 1 + crashes'
    BY <1>0, <1>a, <1>b, <1>c, <2>1
  <2>3. \A g \in Hooks : pc'[g] \in Early => pc[g] \in Early
    BY <1>a, <2>1 DEF Early
  <2>4. \A q \in Hooks : pc'[q] = "pushed" => buffer'[q] = buffer[q]
    BY <1>a, <2>1
  <2>5. QED
    BY <1>0, <1>a, <1>b, <2>1, <2>2, <2>3, <2>4 DEF OnceInv
<1>6. CASE /\ captures' = captures /\ pending' = pending /\ buffer' = buffer /\ crashes' = crashes
           /\ \A p \in Processes : pc[p] \in Half => pc'[p] = pc[p]
           /\ \A h \in Hooks : /\ pc'[h] = "pushed" => pc[h] = "pushed"
                               /\ pc'[h] \in Early => pc[h] \in Early
  BY <1>0, <1>a, <1>b, <1>6 DEF OnceInv
<1>7. ASSUME NEW h \in Hooks, HookStep(h), ~PushEvent(h), ~WritePending(h) PROVE OnceInv'
  <2>1. CASE FinalizeBurst(h)
    BY <1>3, <1>a, <2>1 DEF FinalizeBurst, Goto, Acquire, owns_finalization
  <2>2. CASE ClearPending(h)
    BY <1>4, <1>a, <2>2 DEF ClearPending, Goto, Finish, history, Early
  <2>3. CASE StartHook(h) \/ CheckHook(h) \/ LeaveBurst(h)
    BY <1>6, <1>a, <2>3 DEF StartHook, CheckHook, LeaveBurst, Goto, Finish, files, history, Early, Half
  <2>4. QED
    BY <1>7, <2>1, <2>2, <2>3 DEF HookStep
<1>8. ASSUME NEW r \in Reopens, ReopenStep(r) PROVE OnceInv'
  BY <1>6, <1>a, <1>8 DEF ReopenStep, Pop, FindNothing, Create, RecordCreated, PushBack, Goto,
       files, history, Half
<1>9. ASSUME NEW c \in Recoverers, RecoverStep(c) PROVE OnceInv'
  <2>1. CASE RecoverBurst(c)
    <3>1. CASE Abandoned(pending, now)
      BY <1>3, <1>a, <2>1, <3>1 DEF RecoverBurst, Goto, Acquire, Abandoned
    <3>2. CASE ~Abandoned(pending, now)
      BY <1>6, <1>a, <2>1, <3>2 DEF RecoverBurst, Goto, Half
    <3>3. QED
      BY <3>1, <3>2
  <2>2. CASE RecoverPending(c)
    BY <1>4, <1>a, <2>2 DEF RecoverPending, Goto, history
  <2>3. CASE Startup(c) \/ RecoverOnce(c) \/ ForgetCreated(c) \/ PruneStack(c)
    BY <1>6, <1>a, <2>3 DEF Startup, RecoverOnce, ForgetCreated, PruneStack, Goto, Finish,
         files, history, Half
  <2>4. QED
    BY <1>9, <2>1, <2>2, <2>3 DEF RecoverStep
<1>10. CASE Tick
  BY <1>6, <1>10 DEF Tick, files, history
<1>11. QED
  BY <1>1, <1>2, <1>5, <1>7, <1>8, <1>9, <1>10 DEF Next

LEMMA StepOnceOrStutter == UInv /\ OnceInv /\ TabsApart(pending) /\ [Next]_vars => OnceInv'
<1>1. ASSUME OnceInv, UNCHANGED vars PROVE OnceInv'
  BY <1>1 DEF OnceInv, Times, vars, files, history
<1>2. QED
  BY <1>1, StepOnce

\* One close is captured once, and once more only for a process killed between writing
\* closed.json and clearing pending.json (finalize_locked, write_pending), as long as no
\* two tabs whose closes share a burst and a workspace hold the same pane.
THEOREM OneEntryPerClose == Spec /\ []TabsApart(pending) => []CapturedOncePerCrash
<1>1. OnceInv => CapturedOncePerCrash
  BY DEF OnceInv, Times, CapturedOncePerCrash
<1>2. QED
  BY <1>1, InitOnce, StepOnceOrStutter, UndoInvariance, PTL DEF Spec

(***************************************************************************)
(* When tabs that share a burst have no pane in common.                    *)
(***************************************************************************)
\* What herdr and the shadow give: a snapshot holds a workspace once and a pane in one
\* of its tabs, a tab stays in its workspace, a tab.closed names a tab of the workspace
\* it names, and no tab is reported closed twice.
UniqueTabs ==
  /\ \A s \in Snapshots : \A v, w \in s : v.workspace_id = w.workspace_id => v = w
  /\ \A v, w \in UNION Snapshots :
       DOMAIN v.tabs \cap DOMAIN w.tabs # {} => v.workspace_id = w.workspace_id
  /\ \A v \in UNION Snapshots : \A t, u \in DOMAIN v.tabs : t # u => v.tabs[t] \cap v.tabs[u] = {}
  /\ \A h \in Hooks : Gesture[h].name = "tab.closed" =>
       /\ Gesture[h].pane = None
       /\ \A w \in UNION Snapshots :
            Gesture[h].tab \in DOMAIN w.tabs => Gesture[h].workspace \in {None, w.workspace_id}
  /\ \A g, h \in Hooks :
       (g # h /\ Gesture[g].name = "tab.closed" /\ Gesture[h].name = "tab.closed")
         => Gesture[g].tab # Gesture[h].tab

\* A burst keeps one copy of each workspace.
FrozenOnce(b) ==
  b # NoBurst => \A v, w \in b.frozen : v.workspace_id = w.workspace_id => v = w

AllFrozenOnce == FrozenOnce(pending) /\ \A p \in Processes : FrozenOnce(buffer[p])

LEMMA StepFrozen == UniqueTabs /\ UInv /\ AllFrozenOnce /\ Next => AllFrozenOnce'
<1> SUFFICES ASSUME UniqueTabs, UInv, AllFrozenOnce, Next PROVE AllFrozenOnce'
  OBVIOUS
<1>0. /\ FrozenOnce(NoBurst) /\ DOMAIN buffer = Processes /\ pending \in Bursts \cup {NoBurst}
      /\ Hooks \subseteq Processes
  BY DEF FrozenOnce, UInv, IInv, TypeOK, Processes
<1>1. ASSUME NEW h \in Hooks, PushEvent(h) PROVE AllFrozenOnce'
  <2>1. PICK snap \in Snapshots, prev \in Snapshots :
           LET ev == EventOf(h)
           IN  buffer' = [buffer EXCEPT ![h] =
                 push_event(pending, ev, h, freeze_for(best_snapshot(snap, prev, ev), ev))]
    BY <1>1 DEF PushEvent
  <2> DEFINE ev == EventOf(h)
             frozen == freeze_for(best_snapshot(snap, prev, ev), ev)
             j == Joined(pending, ev.t0)
             r == push_event(pending, ev, h, frozen)
  <2>2. ev \in Events
    BY GestureAssumption DEF EventOf, Events, UInv, IInv, TypeOK, Processes
  <2> HIDE DEF ev
  <2>3. \A v, w \in frozen : v.workspace_id = w.workspace_id => v = w
    <3>1. best_snapshot(snap, prev, ev) \in Snapshots
      BY DEF best_snapshot
    <3>2. \A v, w \in best_snapshot(snap, prev, ev) : v.workspace_id = w.workspace_id => v = w
      BY <3>1 DEF UniqueTabs
    <3>3. frozen \subseteq best_snapshot(snap, prev, ev)
      BY DEF freeze_for
    <3> HIDE DEF frozen
    <3>4. QED
      BY <3>2, <3>3
  <2> HIDE DEF frozen
  <2>4. Pushed(pending, ev, frozen, j, r)
    BY <1>0, <2>2, PushedAfter
  <2>5. buffer' = [buffer EXCEPT ![h] = r]
    BY <2>1 DEF ev, frozen
  <2> HIDE DEF j, r
  <2>6. \A v, w \in j.frozen : v.workspace_id = w.workspace_id => v = w
    BY <2>4 DEF Pushed, AllFrozenOnce, FrozenOnce
  <2>7. FrozenOnce(r)
    BY <2>3, <2>4, <2>6 DEF Pushed, FrozenOnce
  <2>8. QED
    BY <1>0, <1>1, <2>5, <2>7 DEF AllFrozenOnce, PushEvent
<1>2. ASSUME NEW h \in Hooks, WritePending(h) PROVE AllFrozenOnce'
  BY <1>0, <1>2 DEF AllFrozenOnce, WritePending
<1>3. ASSUME NEW p \in Processes, Crash(p) PROVE AllFrozenOnce'
  BY <1>0, <1>3 DEF AllFrozenOnce, Crash, files
<1>4. CASE pending' \in {pending, NoBurst} /\ buffer' = buffer
  BY <1>0, <1>4 DEF AllFrozenOnce
<1>5. \/ pending' \in {pending, NoBurst} /\ buffer' = buffer
      \/ \E h \in Hooks : PushEvent(h) \/ WritePending(h)
      \/ \E p \in Processes : Crash(p)
  BY DEF Next, HookStep, ReopenStep, RecoverStep, files, StartHook, CheckHook, FinalizeBurst,
       ClearPending, LeaveBurst, Pop, FindNothing, Create, RecordCreated, PushBack, Startup,
       RecoverOnce, RecoverBurst, RecoverPending, ForgetCreated, PruneStack, Tick
<1>6. QED
  BY <1>1, <1>2, <1>3, <1>4, <1>5

LEMMA UniqueTabsAreApart ==
  ASSUME UniqueTabs, NEW b \in Bursts, Faithful(b), FrozenOnce(b), DistinctHooks(b)
  PROVE  TabsApart(b)
<1> SUFFICES ASSUME NEW i \in DOMAIN b.events, NEW j \in DOMAIN b.events, i # j,
                    WorkspaceAt(b, i) = WorkspaceAt(b, j),
                    b.events[i].name = "tab.closed", b.events[j].name = "tab.closed",
                    NEW p \in TabPanes(b, b.events[i].tab), p \in TabPanes(b, b.events[j].tab)
             PROVE  FALSE
  BY DEF TabsApart
<1>0. b # NoBurst /\ b.frozen \in SUBSET UNION Snapshots
  BY RecordsAreNotNone DEF Bursts
<1>1. \A k \in {i, j} : /\ b.events[k].hook \in Hooks
                        /\ b.events[k].tab = Gesture[b.events[k].hook].tab
                        /\ b.events[k].workspace = Gesture[b.events[k].hook].workspace
                        /\ b.events[k].pane = None
                        /\ Gesture[b.events[k].hook].name = "tab.closed"
  BY <1>0, BurstPositions DEF Faithful, UniqueTabs, Events
<1>2. ASSUME NEW k \in {i, j}, NEW w \in b.frozen, b.events[k].tab \in DOMAIN w.tabs
      PROVE  WorkspaceAt(b, k) = w.workspace_id
  <2> DEFINE ev == b.events[k]
             byPane == {x \in b.frozen : HasPane({x}, ev.pane)}
             byTab  == {x \in b.frozen : HasTab({x}, ev.tab)}
             holder == IF byPane # {} THEN byPane ELSE byTab
             chosen == CHOOSE x \in holder : TRUE
  <2>1. w \in UNION Snapshots /\ ev.tab \in Ids /\ ev.tab # None
    BY <1>0, <1>2, SnapshotsAssumption, GestureAssumption
  <2>2. byPane = {} /\ w \in byTab /\ holder = byTab
    BY <1>1, <1>2, <2>1 DEF HasPane, HasTab
  <2>3. chosen \in byTab
    BY <2>2
  <2>4. WorkspaceAt(b, k) = IF ev.workspace # None THEN ev.workspace
                            ELSE IF holder # {} THEN chosen.workspace_id
                            ELSE None
    BY DEF WorkspaceAt, workspace_of
  <2> HIDE DEF chosen
  <2>5. chosen.workspace_id = w.workspace_id
    BY <1>0, <1>2, <2>1, <2>3 DEF UniqueTabs, HasTab
  <2>6. ev.workspace \in {None, w.workspace_id}
    BY <1>1, <1>2, <2>1 DEF UniqueTabs
  <2>7. QED
    BY <2>2, <2>4, <2>5, <2>6
<1>3. PICK v \in b.frozen : b.events[i].tab \in DOMAIN v.tabs /\ p \in v.tabs[b.events[i].tab]
  BY DEF TabPanes
<1>4. PICK w \in b.frozen : b.events[j].tab \in DOMAIN w.tabs /\ p \in w.tabs[b.events[j].tab]
  BY DEF TabPanes
<1>5. v = w
  BY <1>0, <1>2, <1>3, <1>4 DEF FrozenOnce
<1>6. b.events[i].hook # b.events[j].hook
  BY <1>0 DEF DistinctHooks
<1>7. b.events[i].tab # b.events[j].tab
  BY <1>1, <1>6 DEF UniqueTabs
<1>8. QED
  BY <1>0, <1>3, <1>4, <1>5, <1>7 DEF UniqueTabs

\* Where herdr's tabs keep their workspace and are closed once, nothing more is needed
\* for one close to give one entry, but for kills between two writes of a finalization.
THEOREM OneEntryPerCloseOfUniqueTabs ==
  ASSUME UniqueTabs
  PROVE  Spec => []CapturedOncePerCrash
<1>1. Init => AllFrozenOnce
  BY DEF Init, AllFrozenOnce, FrozenOnce, Processes
<1>2. ASSUME FateInv, OnceInv, AllFrozenOnce PROVE TabsApart(pending)
  <2>1. CASE pending = NoBurst
    BY <2>1 DEF TabsApart
  <2>2. CASE pending # NoBurst
    <3>1. pending \in Bursts
      BY <1>2, <2>2 DEF FateInv, UInv, IInv, TypeOK
    <3>2. QED
      BY <1>2, <3>1, UniqueTabsAreApart DEF FateInv, BurstsFaithful, AllFrozenOnce, OnceInv
  <2>3. QED
    BY <2>1, <2>2
<1>3. ASSUME UInv, AllFrozenOnce, [Next]_vars PROVE AllFrozenOnce'
  <2>1. CASE UNCHANGED vars
    BY <1>3, <2>1 DEF AllFrozenOnce, FrozenOnce, vars, files
  <2>2. QED
    BY <1>3, <2>1, StepFrozen
<1>4. ASSUME FateInv, OnceInv, AllFrozenOnce, [Next]_vars PROVE OnceInv'
  <2>1. UInv /\ TabsApart(pending)
    BY <1>2, <1>4 DEF FateInv
  <2>2. QED
    BY <1>4, <2>1, StepOnceOrStutter
<1>5. FateInv => UInv
  BY DEF FateInv
<1>6. OnceInv => CapturedOncePerCrash
  BY DEF OnceInv, Times, CapturedOncePerCrash
<1>7. QED
  BY <1>1, <1>3, <1>4, <1>5, <1>6, InitOnce, FateInvariance, PTL DEF Spec

==============================================================================
