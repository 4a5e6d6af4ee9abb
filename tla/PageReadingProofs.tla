------------------------- MODULE PageReadingProofs -------------------------
(***************************************************************************)
(* Proofs about PageReading, for any pages, budgets and readers and any    *)
(* number of retained snapshots.                                           *)
(*                                                                         *)
(* Every snapshot is Snapshot(raw, cut) of some page and some budget, so   *)
(* that what holds of one holds because of that operator alone.  What it   *)
(* rests on is Ascending, which puts positions in order.  The outline is   *)
(* a recursive function: that it exists, and what its stack holds, is      *)
(* proved by induction on the headings, from the least number at which     *)
(* the claim would fail.                                                   *)
(***************************************************************************)
EXTENDS PageReading, Integers, FiniteSetTheorems, SequenceTheorems, TLAPS

-----------------------------------------------------------------------------
(* Numbers *)

LEMMA LeastElement ==
  ASSUME NEW S \in SUBSET Nat, S # {}
  PROVE  \E n \in S : \A m \in S : n <= m
<1> DEFINE I(n) == 0..n
           T == {I(n) : n \in S}
<1>1. IsWellFoundedOn(StrictSubsetOrdering(Nat), FiniteSubsetsOf(Nat))
  BY FS_StrictSubsetOrderingWellFounded
<1>2. T \subseteq FiniteSubsetsOf(Nat)
  <2>1. ASSUME NEW n \in S PROVE I(n) \in FiniteSubsetsOf(Nat)
    <3>1. IsFiniteSet(I(n)) /\ I(n) \subseteq Nat
      BY FS_Interval
    <3>2. QED
      BY <3>1 DEF FiniteSubsetsOf
  <2>2. QED
    BY <2>1
<1>3. T # {}
  OBVIOUS
<1>4. \E x \in T : \A y \in T : ~ (<<y, x>> \in StrictSubsetOrdering(Nat))
  <2> HIDE DEF T
  <2> QED
    BY <1>1, <1>2, <1>3, WFMin
<1>5. PICK n \in S : \A m \in S : ~ (<<I(m), I(n)>> \in StrictSubsetOrdering(Nat))
  BY <1>4
<1>6. ASSUME NEW m \in S, m < n PROVE FALSE
  <2>1. /\ I(m) \subseteq Nat /\ I(n) \subseteq Nat
        /\ I(m) \subseteq I(n) /\ n \in I(n) /\ n \notin I(m)
    BY <1>6
  <2>2. <<I(m), I(n)>> \in StrictSubsetOrdering(Nat)
    <3> HIDE DEF I
    <3>1. <<I(m), I(n)>> \in (SUBSET Nat) \X (SUBSET Nat) /\ I(m) # I(n)
      BY <2>1
    <3> QED
      BY <2>1, <3>1 DEF StrictSubsetOrdering
  <2>3. QED
    BY <1>5, <2>2
<1>7. QED
  BY <1>6

LEMMA SetInduction ==
  ASSUME NEW S \in SUBSET Nat, 0 \in S, \A n \in S : n + 1 \in S
  PROVE  S = Nat
<1>1. ASSUME S # Nat PROVE FALSE
  <2>1. PICK n \in Nat \ S : \A m \in Nat \ S : n <= m
    BY <1>1, LeastElement
  <2>2. n # 0 /\ n - 1 \in Nat
    BY <2>1
  <2>3. n - 1 \in S
    BY <2>1, <2>2
  <2>4. QED
    BY <2>1, <2>2, <2>3
<1>2. QED
  BY <1>1

LEMMA GreatestElement ==
  ASSUME NEW n \in Nat, NEW S \in SUBSET (1 .. n), S # {}
  PROVE  \E m \in S : \A l \in S : l <= m
<1> DEFINE T == {n - x : x \in S}
<1>1. T \in SUBSET Nat /\ T # {}
  <2>1. ASSUME NEW x \in S PROVE n - x \in Nat
    <3>1. x \in Int /\ x <= n
      OBVIOUS
    <3>2. QED
      BY <3>1
  <2>2. QED
    BY <2>1
<1>2. PICK t \in T : \A u \in T : t <= u
  <2> HIDE DEF T
  <2> QED
    BY <1>1, LeastElement
<1>3. PICK m \in S : t = n - m
  OBVIOUS
<1>4. ASSUME NEW l \in S PROVE l <= m
  <2>1. n - l \in T
    OBVIOUS
  <2>2. n - m <= n - l
    BY <1>2, <1>3, <2>1
  <2>3. l \in Nat /\ m \in Nat
    OBVIOUS
  <2>4. QED
    BY <2>2, <2>3
<1>5. QED
  BY <1>4

-----------------------------------------------------------------------------
(* Positions in order *)

Rank(S, i) == Cardinality({j \in S : j <= i})

LEMMA Ranks ==
  ASSUME NEW n \in Nat, NEW S \in SUBSET (1 .. n)
  PROVE  /\ IsFiniteSet(S) /\ Cardinality(S) \in Nat
         /\ \A i \in S : Rank(S, i) \in 1 .. Cardinality(S)
         /\ \A i, j \in S : i < j => Rank(S, i) < Rank(S, j)
<1>1. IsFiniteSet(1 .. n)
  BY FS_Interval
<1>2. IsFiniteSet(S) /\ Cardinality(S) \in Nat
  BY <1>1, FS_Subset, FS_CardinalityType
<1>3. \A i : IsFiniteSet({j \in S : j <= i}) /\ Rank(S, i) \in Nat /\ Rank(S, i) <= Cardinality(S)
  BY <1>2, FS_Subset, FS_CardinalityType DEF Rank
<1>4. ASSUME NEW i \in S PROVE Rank(S, i) # 0
  <2>1. i \in {j \in S : j <= i}
    OBVIOUS
  <2>2. QED
    BY <1>3, <2>1, FS_EmptySet DEF Rank
<1>5. ASSUME NEW i \in S, NEW j \in S, i < j PROVE Rank(S, i) < Rank(S, j)
  <2> DEFINE A == {k \in S : k <= i}
             B == {k \in S : k <= j}
  <2>1. A \in SUBSET B /\ A # B
    <3>1. j \in B /\ j \notin A
      BY <1>5
    <3>2. ASSUME NEW k \in S, k <= i PROVE k <= j
      <4>1. k \in Int /\ i \in Int /\ j \in Int
        OBVIOUS
      <4>2. QED
        BY <1>5, <3>2, <4>1
    <3>4. A \subseteq B
      BY <3>2
    <3>3. QED
      BY <3>1, <3>4
  <2>2. IsFiniteSet(B)
    BY <1>3
  <2> HIDE DEF A, B
  <2>3. Cardinality(A) <= Cardinality(B) /\ Cardinality(A) # Cardinality(B)
    BY <2>1, <2>2, FS_Subset
  <2>4. Cardinality(A) \in Nat /\ Cardinality(B) \in Nat
    BY <1>3 DEF A, B, Rank
  <2>5. QED
    BY <2>3, <2>4 DEF A, B, Rank
<1>6. ASSUME NEW i \in S PROVE Rank(S, i) \in 1 .. Cardinality(S)
  <2>1. Rank(S, i) \in Nat /\ Rank(S, i) <= Cardinality(S) /\ Rank(S, i) # 0
    BY <1>3, <1>4
  <2>2. QED
    BY <1>2, <2>1
<1>7. QED
  BY <1>2, <1>5, <1>6

LEMMA RanksTaken ==
  ASSUME NEW n \in Nat, NEW S \in SUBSET (1 .. n), NEW k \in 1 .. Cardinality(S)
  PROVE  \E i \in S : Rank(S, i) = k
<1> DEFINE c == Cardinality(S)
           f == [i \in S |-> Rank(S, i)]
<1>1. /\ IsFiniteSet(S) /\ c \in Nat
      /\ \A i \in S : Rank(S, i) \in 1 .. c
      /\ \A i, j \in S : i < j => Rank(S, i) < Rank(S, j)
  BY Ranks
<1>2. f \in Injection(S, 1 .. c)
  <2>1. f \in [S -> 1 .. c]
    BY <1>1
  <2>2. ASSUME NEW i \in S, NEW j \in S, i # j PROVE f[i] # f[j]
    <3>1. i < j \/ j < i
      BY <2>2
    <3>2. Rank(S, i) \in Int /\ Rank(S, j) \in Int
      BY <1>1
    <3>3. QED
      BY <1>1, <3>1, <3>2
  <2> HIDE DEF f, c
  <2>3. QED
    BY <2>1, <2>2 DEF Injection, IsInjective
<1>3. IsFiniteSet(1 .. c) /\ Cardinality(1 .. c) = c
  <2> HIDE DEF c
  <2> QED
    BY <1>1, FS_Interval
<1>4. f \in Surjection(S, 1 .. c)
  <2> HIDE DEF f
  <2> QED
    BY <1>2, <1>3, FS_Injection
<1>5. \E i \in S : f[i] = k
  <2> HIDE DEF f
  <2> QED
    BY <1>4 DEF Surjection
<1>6. QED
  BY <1>5

\* Ascending lists a set of positions: each of them, once, in order.
LEMMA AscendingLists ==
  ASSUME NEW n \in Nat, NEW S \in SUBSET (1 .. n)
  PROVE  LET a == Ascending(S)
         IN  /\ a \in Seq(S) /\ Len(a) = Cardinality(S) /\ DOMAIN a = 1 .. Len(a)
             /\ In(a) = S
             /\ \A k, l \in DOMAIN a : k < l => a[k] < a[l]
             /\ \A k, l \in DOMAIN a : a[k] = a[l] => k = l
<1> DEFINE a == Ascending(S)
           c == Cardinality(S)
<1>1. /\ c \in Nat
      /\ \A i \in S : Rank(S, i) \in 1 .. c
      /\ \A i, j \in S : i < j => Rank(S, i) < Rank(S, j)
  BY Ranks
<1>2. a = [k \in 1 .. c |-> CHOOSE i \in S : Rank(S, i) = k]
  BY DEF Ascending, Rank
<1>3. \A k \in 1 .. c : a[k] \in S /\ Rank(S, a[k]) = k
  <2> HIDE DEF a, c
  <2>1. \A k \in 1 .. c : \E i \in S : Rank(S, i) = k
    BY RanksTaken DEF c
  <2>2. QED
    BY <1>2, <2>1
<1> HIDE DEF a, c
<1>4. a \in Seq(S) /\ Len(a) = c /\ DOMAIN a = 1 .. c
  BY <1>1, <1>2, <1>3
<1>5. ASSUME NEW i \in S, NEW j \in S, Rank(S, i) = Rank(S, j) PROVE i = j
  <2>1. i \in Int /\ j \in Int /\ Rank(S, i) \in Int
    BY <1>1
  <2>2. QED
    BY <1>1, <1>5, <2>1
<1>6. In(a) = S
  <2>1. ASSUME NEW i \in S PROVE i \in In(a)
    <3>1. Rank(S, i) \in 1 .. c
      BY <1>1
    <3>2. a[Rank(S, i)] = i
      BY <1>3, <1>5, <3>1
    <3>3. QED
      BY <1>4, <3>1, <3>2 DEF In
  <2>2. In(a) \subseteq S
    BY <1>3, <1>4 DEF In
  <2>3. QED
    BY <2>1, <2>2
<1>7. ASSUME NEW k \in 1 .. c, NEW l \in 1 .. c, k < l PROVE a[k] < a[l]
  <2>1. /\ a[k] \in S /\ a[l] \in S /\ Rank(S, a[k]) = k /\ Rank(S, a[l]) = l
    BY <1>3
  <2>2. a[k] \in Int /\ a[l] \in Int
    <3>1. \A x \in S : x \in Int
      OBVIOUS
    <3>2. QED
      BY <2>1, <3>1
  <2>3. ~(a[l] < a[k]) /\ a[k] # a[l]
    <3>1. ASSUME a[l] < a[k] PROVE FALSE
      <4>1. Rank(S, a[l]) < Rank(S, a[k])
        BY <1>1, <2>1, <3>1
      <4>2. l < k
        BY <2>1, <4>1
      <4>3. QED
        BY <1>7, <4>2
    <3>2. ASSUME a[k] = a[l] PROVE FALSE
      <4>1. k = l
        BY <2>1, <3>2
      <4>2. QED
        BY <1>7, <4>1
    <3>3. QED
      BY <3>1, <3>2
  <2>4. QED
    BY <2>2, <2>3
<1>8. ASSUME NEW k \in 1 .. c, NEW l \in 1 .. c, a[k] = a[l] PROVE k = l
  BY <1>3, <1>8
<1>9. QED
  BY <1>4, <1>6, <1>7, <1>8 DEF a, c

-----------------------------------------------------------------------------
(* Budgets *)

\* What a budget lets through is the longest run of blocks of which every
\* beginning is within it: the loop stops at the first block too many.
THEOREM TakenIsLongestRun ==
  ASSUME NEW raw, NEW blocks, Len(blocks) \in Nat,
         NEW from \in 1 .. Len(blocks) + 1, NEW budget
  PROVE  LET n == Taken(raw, blocks, from, budget)
         IN  /\ n \in 0 .. Len(blocks) + 1 - from
             /\ \A k \in 1 .. n : Takes(raw, blocks, from, k, budget)
             /\ n < Len(blocks) + 1 - from => ~ Takes(raw, blocks, from, n + 1, budget)
<1> DEFINE m == Len(blocks) + 1 - from
           T(k) == Takes(raw, blocks, from, k, budget)
           S == {x \in 1 .. m : \A k \in 1 .. x : T(k)}
           n == Taken(raw, blocks, from, budget)
<1>1. m \in Nat /\ n = Cardinality(S)
  BY DEF Taken
<1> HIDE DEF T, m, n
<1>2. CASE S = {}
  <2>1. n = 0
    BY <1>1, <1>2, FS_EmptySet
  <2>2. ASSUME 0 < m PROVE ~ T(1)
    <3>1. 1 \in 1 .. m
      BY <1>1, <2>2
    <3>2. 1 .. 1 = {1}
      OBVIOUS
    <3>3. QED
      BY <1>2, <3>1, <3>2
  <2>3. n \in 0 .. m /\ (\A k \in 1 .. n : T(k)) /\ (n < m => ~ T(n + 1))
    <3>1. 1 .. n = {} /\ n + 1 = 1
      BY <2>1
    <3>2. QED
      BY <1>1, <2>1, <2>2, <3>1
  <2>4. QED
    BY <2>3 DEF m, n, T
<1>3. CASE S # {}
  <2>1. PICK g \in S : \A l \in S : l <= g
    <3>1. S \in SUBSET (1 .. m)
      OBVIOUS
    <3> HIDE DEF S
    <3>2. QED
      BY <1>1, <1>3, <3>1, GreatestElement
  <2>2. g \in 1 .. m /\ g \in Nat /\ \A k \in 1 .. g : T(k)
    OBVIOUS
  <2>3. S = 1 .. g
    <3>1. ASSUME NEW x \in S PROVE x \in 1 .. g
      BY <2>1, <2>2, <3>1
    <3>2. ASSUME NEW x \in 1 .. g PROVE x \in S
      <4>1. x \in 1 .. m /\ 1 .. x \subseteq 1 .. g
        BY <1>1, <2>2, <3>2
      <4>2. QED
        BY <2>2, <4>1
    <3>3. QED
      BY <3>1, <3>2
  <2>4. n = g
    <3>1. Cardinality(1 .. g) = g
      BY <2>2, FS_Interval
    <3>2. QED
      BY <1>1, <2>3, <3>1
  <2>5. ASSUME g < m PROVE ~ T(g + 1)
    <3>1. g + 1 \in 1 .. m /\ g + 1 \notin S
      <4>1. g + 1 \in 1 .. m
        BY <1>1, <2>2, <2>5
      <4>2. g + 1 \notin 1 .. g
        BY <2>2
      <4>3. QED
        BY <2>3, <4>1, <4>2
    <3>2. PICK k \in 1 .. g + 1 : ~ T(k)
      BY <3>1
    <3>3. k = g + 1
      BY <2>2, <3>2
    <3>4. QED
      BY <3>2, <3>3
  <2>6. n \in 0 .. m /\ (\A k \in 1 .. n : T(k)) /\ (n < m => ~ T(n + 1))
    <3>1. g \in 0 .. m
      BY <1>1, <2>2
    <3>2. QED
      BY <2>2, <2>4, <2>5, <3>1
  <2>7. QED
    BY <2>6 DEF m, n, T
<1>4. QED
  BY <1>2, <1>3

-----------------------------------------------------------------------------
(* Snapshots *)

LEMMA PageDomain ==
  ASSUME NEW raw \in Pages
  PROVE  Len(raw) \in Nat /\ DOMAIN raw = 1 .. Len(raw)
<1>1. PICK T : raw \in Seq(T)
  BY PagesAssumption
<1>2. QED
  BY <1>1

\* The blocks of one text are one group, whichever of them is asked.
LEMMA OneGroup ==
  ASSUME NEW raw, NEW i \in DOMAIN raw, raw[i].kind # "heading", NEW j \in Alike(raw, i)
  PROVE  /\ j \in DOMAIN raw /\ raw[j].kind # "heading"
         /\ Alike(raw, j) = Alike(raw, i) /\ i \in Alike(raw, j)
BY DEF Alike

\* Two groups that share a block have the same leader.
LEMMA OneLeader ==
  ASSUME NEW raw \in Pages,
         NEW k \in Repeated(raw), Leads(raw, k), NEW l \in Repeated(raw), Leads(raw, l),
         NEW i, i \in Alike(raw, k), i \in Alike(raw, l)
  PROVE  k = l
<1>1. /\ k \in DOMAIN raw /\ raw[k].kind # "heading"
      /\ l \in DOMAIN raw /\ raw[l].kind # "heading"
  BY DEF Repeated
<1>2. l \in Alike(raw, k) /\ k \in Alike(raw, l)
  BY <1>1 DEF Alike
<1>3. k <= l /\ l <= k
  BY <1>2 DEF Leads
<1>4. k \in Int /\ l \in Int
  BY <1>1, PageDomain
<1>5. QED
  BY <1>3, <1>4

LEMMA GroupsApart ==
  ASSUME NEW raw \in Pages
  PROVE  /\ \A o \in Collapses(raw) : o.refs \subseteq DOMAIN raw /\ o.kind # "budget"
         /\ \A o, p \in Collapses(raw) : o # p => o.refs \cap p.refs = {}
<1>1. ASSUME NEW o \in Collapses(raw)
      PROVE  \E k \in Repeated(raw) : /\ Leads(raw, k) /\ o = Collapsed(raw, k)
                                      /\ o.refs \subseteq Alike(raw, k) /\ o.kind # "budget"
  <2>1. PICK k \in Repeated(raw) : Leads(raw, k) /\ o = Collapsed(raw, k)
    BY DEF Collapses
  <2>2. o.refs \subseteq Alike(raw, k) /\ o.kind # "budget"
    BY <2>1 DEF Collapsed
  <2>3. QED
    BY <2>1, <2>2
<1>2. ASSUME NEW o \in Collapses(raw) PROVE o.refs \subseteq DOMAIN raw /\ o.kind # "budget"
  BY <1>1 DEF Alike
<1>3. ASSUME NEW o \in Collapses(raw), NEW p \in Collapses(raw), o # p
      PROVE  o.refs \cap p.refs = {}
  <2>1. PICK k \in Repeated(raw) : /\ Leads(raw, k) /\ o = Collapsed(raw, k)
                                   /\ o.refs \subseteq Alike(raw, k)
    BY <1>1
  <2>2. PICK l \in Repeated(raw) : /\ Leads(raw, l) /\ p = Collapsed(raw, l)
                                   /\ p.refs \subseteq Alike(raw, l)
    BY <1>1
  <2>3. ASSUME NEW i \in o.refs \cap p.refs PROVE FALSE
    <3>1. i \in Alike(raw, k) /\ i \in Alike(raw, l)
      BY <2>1, <2>2
    <3>2. k = l
      BY <2>1, <2>2, <3>1, OneLeader
    <3>3. QED
      BY <1>3, <2>1, <2>2, <3>2
  <2>4. QED
    BY <2>3
<1>4. QED
  BY <1>2, <1>3

\* What was dropped for its text is all page chrome, or comes after a block of
\* the same text that was not.
LEMMA TextKept ==
  ASSUME NEW raw \in Pages, NEW i \in Dropped(raw)
  PROVE  \/ AllChrome(raw, i) /\ Alike(raw, i) \subseteq Dropped(raw)
         \/ \E j \in Alike(raw, i) \ Dropped(raw) : j < i
<1>1. PICK l \in Repeated(raw) : Leads(raw, l) /\ i \in Collapsed(raw, l).refs
  BY DEF Dropped, Collapses
<1>2. Collapsed(raw, l) \in Collapses(raw)
  BY <1>1 DEF Collapses
<1>3. l \in DOMAIN raw /\ raw[l].kind # "heading"
  BY DEF Repeated
<1>4. i \in Alike(raw, l)
  BY <1>1 DEF Collapsed
<1>5. i \in DOMAIN raw /\ Alike(raw, i) = Alike(raw, l) /\ l \in Alike(raw, i)
  BY <1>3, <1>4, OneGroup
<1>6. CASE AllChrome(raw, l)
  <2>1. Collapsed(raw, l).refs = Alike(raw, l)
    BY <1>6 DEF Collapsed
  <2>2. Alike(raw, i) \subseteq Dropped(raw)
    BY <1>2, <1>5, <2>1 DEF Dropped
  <2>3. AllChrome(raw, i)
    BY <1>5, <1>6 DEF AllChrome
  <2>4. QED
    BY <2>2, <2>3
<1>7. CASE ~ AllChrome(raw, l)
  <2>1. Collapsed(raw, l).refs = Alike(raw, l) \ {l}
    BY <1>7 DEF Collapsed
  <2>2. l < i
    <3>1. l <= i /\ l # i
      BY <1>1, <1>4, <2>1 DEF Leads
    <3>2. l \in Int /\ i \in Int
      BY <1>3, <1>5, PageDomain
    <3>3. QED
      BY <3>1, <3>2
  <2>3. ASSUME l \in Dropped(raw) PROVE FALSE
    <3>1. PICK k \in Repeated(raw) : Leads(raw, k) /\ l \in Collapsed(raw, k).refs
      BY <2>3 DEF Dropped, Collapses
    <3>2. l \in Alike(raw, k)
      BY <3>1 DEF Collapsed
    <3>3. l \in Alike(raw, l)
      BY <1>3 DEF Alike
    <3>4. k = l
      BY <1>1, <3>1, <3>2, <3>3, OneLeader
    <3>5. QED
      BY <2>1, <3>1, <3>4
  <2>4. QED
    BY <1>5, <2>2, <2>3
<1>8. QED
  BY <1>6, <1>7

\* The blocks of a snapshot are the beginning of what collapsing leaves, in
\* order; the rest of it is the one omission for the budget.
LEMMA SnapshotParts ==
  ASSUME NEW raw \in Pages, NEW cut
  PROVE  LET snap == Snapshot(raw, cut)
             rest == (DOMAIN raw \ Dropped(raw)) \ In(snap.blocks)
         IN  /\ snap.raw = raw
             /\ snap.blocks \in Seq(DOMAIN raw)
             /\ In(snap.blocks) \subseteq DOMAIN raw \ Dropped(raw)
             /\ \A k, l \in DOMAIN snap.blocks : k < l => snap.blocks[k] < snap.blocks[l]
             /\ \A k, l \in DOMAIN snap.blocks : snap.blocks[k] = snap.blocks[l] => k = l
             /\ snap.omissions = Collapses(raw) \cup
                  (IF rest = {} THEN {} ELSE {[kind |-> "budget", refs |-> rest]})
<1> DEFINE S == DOMAIN raw \ Dropped(raw)
           kept == Ascending(S)
           n == Taken(raw, kept, 1, cut)
           blocks == SubSeq(kept, 1, n)
           over == {kept[k] : k \in n + 1 .. Len(kept)}
           rest == S \ In(blocks)
<1>1. Len(raw) \in Nat /\ S \in SUBSET (1 .. Len(raw)) /\ S \subseteq DOMAIN raw
  BY PageDomain
<1> HIDE DEF S
<1>2. /\ kept \in Seq(S) /\ DOMAIN kept = 1 .. Len(kept) /\ In(kept) = S
      /\ \A k, l \in DOMAIN kept : k < l => kept[k] < kept[l]
      /\ \A k, l \in DOMAIN kept : kept[k] = kept[l] => k = l
  BY <1>1, AscendingLists
<1> HIDE DEF kept
<1>3. Len(kept) \in Nat
  BY <1>2
<1>4. n \in Nat /\ n <= Len(kept)
  <2>1. 1 \in 1 .. Len(kept) + 1
    BY <1>3
  <2>2. n \in 0 .. Len(kept) + 1 - 1
    BY <1>3, <2>1, TakenIsLongestRun
  <2> HIDE DEF n
  <2>3. QED
    BY <1>3, <2>2
<1> HIDE DEF n
<1>5. /\ blocks \in Seq(S) /\ DOMAIN blocks = 1 .. n
      /\ \A k \in 1 .. n : blocks[k] = kept[k] /\ k \in DOMAIN kept /\ blocks[k] \in S
  <2>1. \A k \in 1 .. n : k \in 1 .. Len(kept)
    BY <1>3, <1>4
  <2>2. \A k \in 1 .. n : kept[k] \in S
    BY <1>2, <2>1
  <2>3. /\ blocks \in Seq(S) /\ DOMAIN blocks = 1 .. n
        /\ \A k \in 1 .. n : blocks[k] = kept[k]
    BY <1>2, <1>3, <1>4, SubSeqProperties
  <2>4. QED
    BY <1>2, <2>1, <2>2, <2>3
<1> HIDE DEF blocks
<1>6. over = rest
  <2>1. ASSUME NEW k \in n + 1 .. Len(kept) PROVE kept[k] \in rest
    <3>1. k \in DOMAIN kept /\ kept[k] \in S /\ k \notin 1 .. n
      BY <1>2, <1>3, <1>4
    <3>2. ASSUME kept[k] \in In(blocks) PROVE FALSE
      <4>1. PICK l \in 1 .. n : blocks[l] = kept[k]
        BY <1>5, <3>2 DEF In
      <4>2. kept[l] = kept[k] /\ l \in DOMAIN kept
        BY <1>5, <4>1
      <4>3. l = k
        BY <1>2, <3>1, <4>2
      <4>4. QED
        BY <3>1, <4>3
    <3>3. QED
      BY <3>1, <3>2
  <2>2. ASSUME NEW x \in rest PROVE x \in over
    <3>1. PICK k \in DOMAIN kept : kept[k] = x
      BY <1>2 DEF In
    <3>2. k \notin 1 .. n
      BY <1>5, <3>1 DEF In
    <3>3. k \in n + 1 .. Len(kept)
      BY <1>2, <1>3, <1>4, <3>1, <3>2
    <3>4. QED
      BY <3>1, <3>3
  <2>3. QED
    BY <2>1, <2>2
<1>7. /\ Snapshot(raw, cut).raw = raw
      /\ Snapshot(raw, cut).blocks = blocks
      /\ Snapshot(raw, cut).omissions = Collapses(raw) \cup
           (IF over = {} THEN {} ELSE {[kind |-> "budget", refs |-> over]})
  BY DEF Snapshot, blocks, kept, n, S
<1>8. blocks \in Seq(DOMAIN raw)
  <2>1. \A k \in 1 .. n : blocks[k] \in DOMAIN raw
    BY <1>1, <1>5
  <2>2. blocks \in [1 .. n -> DOMAIN raw] /\ n \in Nat
    BY <1>4, <1>5, <2>1
  <2>3. QED
    BY <2>2
<1>9. In(blocks) \subseteq S
  <2>1. ASSUME NEW x \in In(blocks) PROVE x \in S
    <3>1. PICK k \in 1 .. n : x = blocks[k]
      BY <1>5 DEF In
    <3>2. QED
      BY <1>5, <3>1
  <2>2. QED
    BY <2>1
<1>10. /\ \A k, l \in DOMAIN blocks : k < l => blocks[k] < blocks[l]
       /\ \A k, l \in DOMAIN blocks : blocks[k] = blocks[l] => k = l
  BY <1>2, <1>5
<1> HIDE DEF over
<1>11. Snapshot(raw, cut).omissions = Collapses(raw) \cup
         (IF rest = {} THEN {} ELSE {[kind |-> "budget", refs |-> rest]})
  BY <1>6, <1>7
<1>12. QED
  BY <1>7, <1>8, <1>9, <1>10, <1>11 DEF S

\* Each block of the page is retained or named by one omission only.
Complete(snap) ==
  LET kept == In(snap.blocks)
      gone == UNION {o.refs : o \in snap.omissions}
      collapsed == UNION {o.refs : o \in {p \in snap.omissions : p.kind # "budget"}}
  IN  /\ kept \cup gone = DOMAIN snap.raw
      /\ kept \cap gone = {}
      /\ \A o, p \in snap.omissions : o # p => o.refs \cap p.refs = {}
      /\ \A i \in collapsed :
           \/ AllChrome(snap.raw, i) /\ Alike(snap.raw, i) \subseteq collapsed
           \/ \E j \in Alike(snap.raw, i) \ collapsed : j < i

LEMMA SnapshotComplete ==
  ASSUME NEW raw \in Pages, NEW cut
  PROVE  Complete(Snapshot(raw, cut))
<1> DEFINE snap == Snapshot(raw, cut)
           kept == In(snap.blocks)
           rest == (DOMAIN raw \ Dropped(raw)) \ kept
           over == [kind |-> "budget", refs |-> rest]
           gone == UNION {o.refs : o \in snap.omissions}
           collapsed == UNION {o.refs : o \in {p \in snap.omissions : p.kind # "budget"}}
<1>1. /\ snap.raw = raw
      /\ kept \subseteq DOMAIN raw \ Dropped(raw)
      /\ snap.omissions = Collapses(raw) \cup (IF rest = {} THEN {} ELSE {over})
  BY SnapshotParts
<1> HIDE DEF snap, kept
<1>2. /\ \A o \in Collapses(raw) : o.refs \subseteq DOMAIN raw /\ o.kind # "budget"
      /\ \A o, p \in Collapses(raw) : o # p => o.refs \cap p.refs = {}
      /\ \A o \in Collapses(raw) : o.refs \subseteq Dropped(raw)
  <2>1. \A o \in Collapses(raw) : o.refs \subseteq Dropped(raw)
    BY DEF Dropped
  <2>2. QED
    BY <2>1, GroupsApart
<1>3. over.refs = rest /\ over.kind = "budget"
  OBVIOUS
<1>4. Dropped(raw) \subseteq DOMAIN raw
  BY <1>2 DEF Dropped
<1>5. rest \cap Dropped(raw) = {} /\ kept \cap rest = {} /\ kept \cap Dropped(raw) = {}
      /\ kept \cup rest \cup Dropped(raw) = DOMAIN raw
  BY <1>1, <1>4
<1> HIDE DEF rest, over
<1>6. snap.omissions \subseteq Collapses(raw) \cup {over} /\ Collapses(raw) \subseteq snap.omissions
      /\ (over \in snap.omissions \/ rest = {})
  BY <1>1
<1>7. collapsed = Dropped(raw)
  <2>1. {p \in snap.omissions : p.kind # "budget"} = Collapses(raw)
    BY <1>2, <1>3, <1>6
  <2>2. QED
    BY <2>1 DEF Dropped
<1>8. gone = Dropped(raw) \cup rest
  <2>1. ASSUME NEW x \in gone PROVE x \in Dropped(raw) \cup rest
    <3>1. PICK o \in snap.omissions : x \in o.refs
      OBVIOUS
    <3>2. QED
      BY <1>2, <1>3, <1>6, <3>1
  <2>2. ASSUME NEW x \in Dropped(raw) PROVE x \in gone
    BY <1>6 DEF Dropped
  <2>3. ASSUME NEW x \in rest PROVE x \in gone
    BY <1>3, <1>6
  <2>4. QED
    BY <2>1, <2>2, <2>3
<1>9. \A o, p \in snap.omissions : o # p => o.refs \cap p.refs = {}
  BY <1>2, <1>3, <1>5, <1>6
<1> HIDE DEF gone, collapsed
<1>10. \A i \in collapsed :
         \/ AllChrome(snap.raw, i) /\ Alike(snap.raw, i) \subseteq collapsed
         \/ \E j \in Alike(snap.raw, i) \ collapsed : j < i
  BY <1>1, <1>7, TextKept
<1>11. kept \cup gone = DOMAIN snap.raw /\ kept \cap gone = {}
  BY <1>1, <1>5, <1>8
<1>12. QED
  BY <1>9, <1>10, <1>11 DEF Complete, snap, kept, gone, collapsed

-----------------------------------------------------------------------------
(* The invariant *)

\* The snapshots a page and a budget can give.
Observed == {Snapshot(raw, cut) : raw \in Pages, cut \in Cuts}

Cursors == [snapshot : Nat, index : Nat] \cup {NoCursor}

Readers == [on : Nat, got : Seq(Nat), left : SUBSET Nat, cursor : Cursors,
            state : {"fresh", "reading", "done", "refused"}]

\* The record of a reader whose last read was of these blocks.
Follows(re, blocks) ==
  /\ Len(re.got) <= Len(blocks)
  /\ re.got = SubSeq(blocks, 1, Len(re.got))
  /\ re.left = {blocks[k] : k \in Len(re.got) + 1 .. Len(blocks)}
  /\ re.state = "reading" =>
       /\ Len(re.got) < Len(blocks)
       /\ re.cursor = [snapshot |-> re.on, index |-> blocks[Len(re.got) + 1]]
  /\ re.state = "done" => re.got = blocks

RegistryInv ==
  /\ snapshots \in Seq(Observed) /\ Len(snapshots) <= MaxSnapshots
  /\ retained \in Seq(1 .. Len(snapshots)) /\ Len(retained) <= Retention

ReaderInv ==
  /\ reader \in [Reader -> Readers]
  /\ \A r \in Reader :
       /\ reader[r].state = "fresh" => reader[r] = Unread
       /\ reader[r].state = "reading" => reader[r].on # 0
       /\ reader[r].on <= Len(snapshots)
       /\ reader[r].on # 0 => Follows(reader[r], snapshots[reader[r].on].blocks)

\* What a reader follows: some blocks, in the order of the page, each once.
LEMMA ObservedBlocks ==
  ASSUME NEW snap \in Observed
  PROVE  /\ snap.raw \in Pages
         /\ snap.blocks \in Seq(DOMAIN snap.raw) /\ snap.blocks \in Seq(Nat)
         /\ Len(snap.blocks) \in Nat /\ DOMAIN snap.blocks = 1 .. Len(snap.blocks)
         /\ \A k, l \in DOMAIN snap.blocks : snap.blocks[k] = snap.blocks[l] => k = l
<1>1. PICK raw \in Pages, cut \in Cuts : snap = Snapshot(raw, cut)
  BY DEF Observed
<1>2. /\ snap.raw = raw
      /\ snap.blocks \in Seq(DOMAIN raw)
      /\ \A k, l \in DOMAIN snap.blocks : snap.blocks[k] = snap.blocks[l] => k = l
  BY <1>1, SnapshotParts
<1>3. Len(snap.blocks) \in Nat /\ DOMAIN snap.blocks = 1 .. Len(snap.blocks)
  BY <1>2
<1>4. \A k \in 1 .. Len(snap.blocks) : snap.blocks[k] \in Nat
  BY <1>2, <1>3, PageDomain
<1>5. snap.blocks \in Seq(Nat)
  <2>1. snap.blocks \in [1 .. Len(snap.blocks) -> Nat]
    BY <1>2, <1>3, <1>4
  <2>2. QED
    BY <1>3, <2>1
<1>6. QED
  BY <1>2, <1>3, <1>5

\* A registry that takes one more snapshot.
LEMMA PutKeeps ==
  ASSUME RegistryInv, NEW raw \in Pages, NEW cut \in Cuts,
         Len(snapshots) < MaxSnapshots,
         snapshots' = Append(snapshots, Snapshot(raw, cut)),
         retained' = Put(Len(snapshots) + 1)
  PROVE  /\ RegistryInv'
         /\ Len(snapshots') = Len(snapshots) + 1 /\ Len(snapshots) \in Nat
         /\ snapshots'[Len(snapshots) + 1] = Snapshot(raw, cut)
         /\ \A id \in 1 .. Len(snapshots) : snapshots'[id] = snapshots[id]
<1>1. Snapshot(raw, cut) \in Observed
  BY DEF Observed
<1>2. snapshots \in Seq(Observed)
  BY DEF RegistryInv
<1>3. /\ snapshots' \in Seq(Observed) /\ Len(snapshots') = Len(snapshots) + 1
      /\ Len(snapshots) \in Nat
      /\ snapshots'[Len(snapshots) + 1] = Snapshot(raw, cut)
      /\ \A id \in 1 .. Len(snapshots) : snapshots'[id] = snapshots[id]
  BY <1>1, <1>2, AppendProperties
<1>4. Len(snapshots') <= MaxSnapshots
  BY <1>3, LimitsAssumption
<1> DEFINE id == Len(snapshots) + 1
           all == Append(retained, id)
<1>5. retained \in Seq(1 .. id) /\ id \in 1 .. id /\ Len(retained) <= Retention
  <2>1. retained \in Seq(1 .. Len(snapshots)) /\ Len(retained) <= Retention
    BY DEF RegistryInv
  <2>2. 1 .. Len(snapshots) \subseteq 1 .. id /\ id \in 1 .. id
    BY <1>3
  <2> HIDE DEF id
  <2>3. /\ Len(retained) \in Nat /\ DOMAIN retained = 1 .. Len(retained)
        /\ \A k \in 1 .. Len(retained) : retained[k] \in 1 .. Len(snapshots)
    BY <2>1
  <2>4. retained \in [1 .. Len(retained) -> 1 .. id]
    BY <2>1, <2>2, <2>3
  <2>5. QED
    BY <2>1, <2>2, <2>3, <2>4
<1> HIDE DEF id
<1>6. all \in Seq(1 .. id) /\ Len(all) = Len(retained) + 1 /\ Len(retained) \in Nat
  BY <1>5, AppendProperties
<1> HIDE DEF all
<1>7. Put(id) = IF Len(all) > Retention THEN Tail(all) ELSE all
  BY DEF Put, all
<1>8. Put(id) \in Seq(1 .. id) /\ Len(Put(id)) <= Retention
  <2>1. Retention \in Nat
    BY LimitsAssumption
  <2>2. CASE Len(all) > Retention
    <3>1. Tail(all) \in Seq(1 .. id) /\ Len(Tail(all)) = Len(all) - 1
      <4>1. all # <<>>
        BY <1>6
      <4>2. QED
        BY <1>6, <4>1
    <3>2. QED
      BY <1>5, <1>6, <1>7, <2>1, <2>2, <3>1
  <2>3. CASE ~ (Len(all) > Retention)
    BY <1>6, <1>7, <2>1, <2>3
  <2>4. QED
    BY <2>2, <2>3
<1>9. RegistryInv'
  BY <1>3, <1>4, <1>8 DEF RegistryInv, id
<1>10. QED
  BY <1>3, <1>9

\* A cursor leads to the block it names.
LEMMA CursorLeads ==
  ASSUME NEW snap \in Observed, NEW k \in 1 .. Len(snap.blocks), NEW id \in Nat
  PROVE  CursorIndex(snap, [snapshot |-> id, index |-> snap.blocks[k]]) = k
<1> DEFINE cursor == [snapshot |-> id, index |-> snap.blocks[k]]
           at == {l \in DOMAIN snap.blocks : snap.blocks[l] = cursor.index}
<1>1. /\ DOMAIN snap.blocks = 1 .. Len(snap.blocks) /\ snap.blocks[k] \in Nat
      /\ \A i, j \in DOMAIN snap.blocks : snap.blocks[i] = snap.blocks[j] => i = j
  BY ObservedBlocks
<1>2. cursor # NoCursor
  BY <1>1, LimitsAssumption
<1>3. at = {k}
  BY <1>1
<1>4. CursorIndex(snap, cursor) = IF at = {} THEN 0 ELSE CHOOSE l \in at : TRUE
  BY <1>2 DEF CursorIndex
<1> HIDE DEF at
<1>5. QED
  BY <1>3, <1>4

\* One more read, from the block after those the reader has.
LEMMA ReadFollows ==
  ASSUME NEW r \in Reader, NEW id \in Nat \ {0}, NEW snap \in Observed, NEW budget,
         NEW from \in 1 .. Len(snap.blocks) + 1,
         reader[r].got = SubSeq(snap.blocks, 1, from - 1)
  PROVE  LET re == ReadFrom(r, id, snap, from, budget)
         IN  /\ re \in Readers /\ re.on = id /\ re.state \in {"reading", "done"}
             /\ Follows(re, snap.blocks)
<1> DEFINE blocks == snap.blocks
           L == Len(blocks)
           n == Taken(snap.raw, blocks, from, budget)
           taken == SubSeq(blocks, from, from + n - 1)
           rest == {blocks[k] : k \in from + n .. L}
           re == ReadFrom(r, id, snap, from, budget)
           got == re.got
<1>1. blocks \in Seq(Nat) /\ L \in Nat /\ DOMAIN blocks = 1 .. L
  BY ObservedBlocks
<1>2. n \in Nat /\ n <= L + 1 - from
  <2>1. n \in 0 .. L + 1 - from
    BY <1>1, TakenIsLongestRun
  <2> HIDE DEF n, blocks
  <2>2. QED
    BY <1>1, <2>1
<1>3. /\ re.on = id /\ got = reader[r].got \o taken /\ re.left = rest
      /\ re.cursor = IF rest = {} THEN NoCursor
                     ELSE [snapshot |-> id, index |-> blocks[from + n]]
      /\ re.state = IF rest = {} THEN "done" ELSE "reading"
      /\ re = [on |-> re.on, got |-> got, left |-> re.left, cursor |-> re.cursor,
               state |-> re.state]
  BY DEF ReadFrom
<1> HIDE DEF re, n, blocks
<1> DEFINE m == from + n - 1
<1>4. m \in 0 .. L /\ from + n = m + 1
  BY <1>1, <1>2
<1> HIDE DEF L
<1>5. got = SubSeq(blocks, 1, m)
  <2>1. reader[r].got = SubSeq(blocks, 1, from - 1)
    BY DEF blocks
  <2>2. SubSeq(blocks, 1, from - 1) \o SubSeq(blocks, from, m) = SubSeq(blocks, 1, m)
    <3> DEFINE b == from - 1
    <3>1. /\ 1 \in 1 .. Len(blocks) + 1 /\ b \in 1 - 1 .. Len(blocks) /\ m \in b .. Len(blocks)
          /\ b + 1 = from
      BY <1>1, <1>2 DEF L, blocks
    <3> HIDE DEF b, m
    <3>2. SubSeq(blocks, 1, b) \o SubSeq(blocks, b + 1, m) = SubSeq(blocks, 1, m)
      BY <1>1, <3>1, ConcatAdjacentSubSeq
    <3>3. QED
      BY <3>1, <3>2 DEF b
  <2>3. QED
    BY <1>3, <2>1, <2>2
<1> HIDE DEF m
<1>6. got \in Seq(Nat) /\ Len(got) = m
  BY <1>1, <1>4, <1>5, SubSeqProperties DEF L
<1>7. rest = {blocks[k] : k \in m + 1 .. L} /\ rest \subseteq Nat
  <2>1. rest = {blocks[k] : k \in m + 1 .. L}
    BY <1>4
  <2>2. \A k \in m + 1 .. L : blocks[k] \in Nat
    BY <1>1, <1>4 DEF L
  <2>3. QED
    BY <2>1, <2>2
<1>8. /\ Len(got) <= Len(blocks) /\ got = SubSeq(blocks, 1, Len(got))
       /\ re.left = {blocks[k] : k \in Len(got) + 1 .. Len(blocks)}
  <2>1. Len(got) <= Len(blocks)
    BY <1>1, <1>4, <1>6 DEF L
  <2>2. re.left = {blocks[k] : k \in Len(got) + 1 .. Len(blocks)}
    BY <1>3, <1>6, <1>7 DEF L
  <2>3. QED
    BY <1>5, <1>6, <2>1, <2>2
<1>9. rest = {} <=> m = L
  <2>1. CASE m = L
    <3>1. m + 1 .. L = {}
      BY <1>1, <1>4, <2>1
    <3>2. QED
      BY <1>7, <2>1, <3>1
  <2>2. CASE m # L
    <3>1. L \in m + 1 .. L
      BY <1>1, <1>4, <2>2
    <3>2. QED
      BY <1>7, <2>2, <3>1
  <2>3. QED
    BY <2>1, <2>2
<1> HIDE DEF rest
<1>10. CASE m = L
  <2>1. re.state = "done" /\ re.cursor = NoCursor
    BY <1>3, <1>9, <1>10
  <2>2. got = blocks
    <3>1. SubSeq(blocks, 1, L) = blocks
      BY <1>1 DEF L
    <3>2. QED
      BY <1>5, <1>10, <3>1
  <2>3. re \in Readers
    BY <1>3, <1>6, <1>7, <2>1 DEF Readers, Cursors
  <2>4. Follows(re, blocks)
    BY <1>8, <2>1, <2>2 DEF Follows
  <2>5. QED
    BY <1>3, <2>1, <2>3, <2>4 DEF re, blocks
<1>11. CASE m # L
  <2>1. re.state = "reading" /\ re.cursor = [snapshot |-> id, index |-> blocks[m + 1]]
    BY <1>3, <1>4, <1>9, <1>11
  <2>2. m < L /\ blocks[m + 1] \in Nat
    <3>1. m < L /\ m + 1 \in 1 .. L
      BY <1>1, <1>4, <1>11
    <3>2. QED
      BY <1>1, <3>1
  <2>3. re.cursor \in Cursors
    BY <2>1, <2>2 DEF Cursors
  <2>4. re \in Readers
    BY <1>3, <1>6, <1>7, <2>1, <2>3 DEF Readers
  <2>5. Follows(re, blocks)
    <3>1. /\ Len(got) < Len(blocks)
          /\ re.cursor = [snapshot |-> re.on, index |-> blocks[Len(got) + 1]]
      BY <1>3, <1>6, <2>1, <2>2 DEF L
    <3>2. QED
      BY <1>8, <2>1, <3>1 DEF Follows
  <2>6. QED
    BY <1>3, <2>1, <2>4, <2>5 DEF re, blocks
<1>12. QED
  BY <1>10, <1>11

\* A read that is refused leaves the reader what it has.
LEMMA RefusedKeeps ==
  ASSUME ReaderInv, NEW r \in Reader
  PROVE  LET re == Refused(r)
         IN  /\ re \in Readers /\ re.state = "refused" /\ re.on = reader[r].on
             /\ \A blocks : Follows(reader[r], blocks) => Follows(re, blocks)
<1>1. reader[r] \in Readers
  BY DEF ReaderInv
<1>2. /\ Refused(r) \in Readers /\ Refused(r).state = "refused"
      /\ Refused(r).on = reader[r].on /\ Refused(r).got = reader[r].got
      /\ Refused(r).left = reader[r].left
  BY <1>1 DEF Refused, Readers
<1>3. QED
  BY <1>2 DEF Follows

\* A read of a snapshot, by a reader that is reading it or has not begun.
LEMMA ReadKeeps ==
  ASSUME RegistryInv, ReaderInv, RegistryInv', Len(snapshots) <= Len(snapshots'),
         \A id \in 1 .. Len(snapshots) : snapshots'[id] = snapshots[id],
         NEW r \in Reader, Reads(r), NEW id \in 1 .. Len(snapshots'), NEW budget,
         Read(r, id, snapshots'[id], budget)
  PROVE  ReaderInv'
<1> DEFINE snap == snapshots'[id]
           cursor == reader[r].cursor
           from == CursorIndex(snap, cursor)
           re == reader'[r]
<1>1. /\ Len(snapshots) \in Nat /\ Len(snapshots') \in Nat
      /\ snap \in Observed /\ id \in Nat \ {0}
      /\ \A x \in 1 .. Len(snapshots) : snapshots[x] \in Observed
  BY DEF RegistryInv
<1>2. /\ reader \in [Reader -> Readers] /\ reader[r] \in Readers
      /\ reader[r].on \in Nat /\ reader[r].on <= Len(snapshots)
  BY DEF ReaderInv, Readers
<1>3. /\ re = IF InScope(id, cursor) /\ from # 0 THEN ReadFrom(r, id, snap, from, budget)
              ELSE Refused(r)
      /\ reader' = [reader EXCEPT ![r] = re]
  BY <1>2 DEF Read
<1>4. ASSUME NEW x \in Reader, reader[x].on # 0
      PROVE  /\ reader[x].on \in 1 .. Len(snapshots)
             /\ snapshots'[reader[x].on] = snapshots[reader[x].on]
  <2>1. reader[x] \in Readers /\ reader[x].on <= Len(snapshots)
    BY DEF ReaderInv
  <2>2. reader[x].on \in Nat
    BY <2>1 DEF Readers
  <2>3. reader[x].on \in 1 .. Len(snapshots)
    BY <1>1, <1>4, <2>1, <2>2
  <2>4. QED
    BY <2>3
<1>5. ASSUME InScope(id, cursor), from # 0
      PROVE  from \in 1 .. Len(snap.blocks) + 1 /\ reader[r].got = SubSeq(snap.blocks, 1, from - 1)
  <2>1. Len(snap.blocks) \in Nat /\ snap.blocks \in Seq(Nat)
    BY <1>1, ObservedBlocks
  <2>2. CASE reader[r].state = "fresh"
    <3>1. cursor = NoCursor /\ reader[r].got = <<>>
      BY <2>2 DEF ReaderInv, Unread
    <3>2. from = 1
      BY <3>1 DEF CursorIndex
    <3>3. SubSeq(snap.blocks, 1, 0) = <<>>
      <4> HIDE DEF snap
      <4>1. QED
        BY <2>1
    <3>4. QED
      BY <2>1, <3>1, <3>2, <3>3
  <2>3. CASE reader[r].state = "reading"
    <3> DEFINE on == reader[r].on
               k == Len(reader[r].got) + 1
               blocks == snapshots[on].blocks
    <3>1. on # 0 /\ Follows(reader[r], blocks)
      BY <2>3 DEF ReaderInv
    <3>2. on \in 1 .. Len(snapshots) /\ snapshots'[on] = snapshots[on]
      BY <1>4, <3>1
    <3>3. /\ cursor = [snapshot |-> on, index |-> blocks[k]]
          /\ Len(reader[r].got) < Len(blocks)
          /\ reader[r].got = SubSeq(blocks, 1, Len(reader[r].got))
      BY <2>3, <3>1 DEF Follows
    <3>4. snapshots[on] \in Observed /\ blocks \in Seq(Nat) /\ Len(blocks) \in Nat
      BY <1>1, <3>2, ObservedBlocks
    <3>5. Len(reader[r].got) \in Nat /\ k \in 1 .. Len(blocks)
      <4>1. reader[r].got \in Seq(Nat)
        BY <1>2 DEF Readers
      <4>2. Len(reader[r].got) \in Nat
        BY <4>1
      <4> HIDE DEF blocks
      <4>3. QED
        BY <3>3, <3>4, <4>2
    <3>6. cursor # NoCursor
      <4>1. blocks[k] \in Nat
        <5> HIDE DEF blocks, k
        <5>1. QED
          BY <3>4, <3>5
      <4>2. QED
        BY <1>2, <3>3, <4>1, LimitsAssumption
    <3>7. id = on
      BY <1>5, <3>3, <3>6 DEF InScope
    <3>8. snap = snapshots[on]
      BY <3>2, <3>7
    <3>9. from = k
      <4>1. CursorIndex(snapshots[on], [snapshot |-> on, index |-> snapshots[on].blocks[k]]) = k
        <5> HIDE DEF k
        <5>1. QED
          BY <1>2, <3>4, <3>5, CursorLeads
      <4>2. QED
        BY <3>3, <3>8, <4>1
    <3>10. from - 1 = Len(reader[r].got)
      BY <3>5, <3>9
    <3>11. Len(blocks) = Len(snap.blocks) /\ from \in 1 .. Len(blocks)
      BY <3>5, <3>8, <3>9
    <3>12. from \in 1 .. Len(snap.blocks) + 1
      <4> HIDE DEF from, snap, blocks
      <4>1. QED
        BY <2>1, <3>11
    <3>13. QED
      BY <3>3, <3>8, <3>10, <3>12
  <2>4. QED
    BY <2>2, <2>3 DEF Reads
<1>6. /\ re \in Readers /\ re.state # "fresh" /\ re.on <= Len(snapshots')
      /\ re.state = "reading" => re.on # 0
      /\ re.on # 0 => Follows(re, snapshots'[re.on].blocks)
  <2>1. CASE InScope(id, cursor) /\ from # 0
    <3>1. re = ReadFrom(r, id, snap, from, budget)
      BY <1>3, <2>1
    <3>2. from \in 1 .. Len(snap.blocks) + 1 /\ reader[r].got = SubSeq(snap.blocks, 1, from - 1)
      BY <1>5, <2>1
    <3> DEFINE new == ReadFrom(r, id, snap, from, budget)
    <3>3. /\ new \in Readers /\ new.on = id /\ new.state \in {"reading", "done"}
          /\ Follows(new, snap.blocks)
      <4> HIDE DEF from, snap
      <4>1. QED
        BY <1>1, <3>2, ReadFollows
    <3> HIDE DEF new
    <3>4. re = new
      BY <3>1 DEF new
    <3> HIDE DEF re
    <3>5. QED
      BY <1>1, <3>3, <3>4
  <2>2. CASE ~ (InScope(id, cursor) /\ from # 0)
    <3> DEFINE new == Refused(r)
    <3>1. re = new
      BY <1>3, <2>2
    <3>2. /\ new \in Readers /\ new.state = "refused" /\ new.on = reader[r].on
          /\ \A blocks : Follows(reader[r], blocks) => Follows(new, blocks)
      BY RefusedKeeps
    <3> HIDE DEF new
    <3>3. reader[r].on # 0 => Follows(reader[r], snapshots'[reader[r].on].blocks)
      <4>1. reader[r].on # 0 => Follows(reader[r], snapshots[reader[r].on].blocks)
        BY DEF ReaderInv
      <4>2. QED
        BY <1>4, <4>1
    <3>4. reader[r].on <= Len(snapshots')
      BY <1>1, <1>2
    <3> HIDE DEF re
    <3>5. QED
      BY <3>1, <3>2, <3>3, <3>4
  <2>3. QED
    BY <2>1, <2>2
<1> HIDE DEF re
<1>7. reader' \in [Reader -> Readers]
  BY <1>2, <1>3, <1>6
<1>8. ASSUME NEW x \in Reader
      PROVE  /\ reader'[x].state = "fresh" => reader'[x] = Unread
             /\ reader'[x].state = "reading" => reader'[x].on # 0
             /\ reader'[x].on <= Len(snapshots')
             /\ reader'[x].on # 0 => Follows(reader'[x], snapshots'[reader'[x].on].blocks)
  <2>1. CASE x = r
    <3>1. reader'[x] = re
      BY <1>2, <1>3, <2>1
    <3>2. QED
      BY <1>6, <3>1
  <2>2. CASE x # r
    <3>1. reader'[x] = reader[x]
      BY <1>2, <1>3, <2>2
    <3>2. reader[x].on \in Nat
      BY <1>2 DEF Readers
    <3>3. /\ reader[x].state = "fresh" => reader[x] = Unread
          /\ reader[x].state = "reading" => reader[x].on # 0
          /\ reader[x].on <= Len(snapshots)
          /\ reader[x].on # 0 => Follows(reader[x], snapshots[reader[x].on].blocks)
      BY DEF ReaderInv
    <3>4. reader[x].on <= Len(snapshots')
      BY <1>1, <3>2, <3>3
    <3>5. QED
      BY <1>4, <3>1, <3>3, <3>4
  <2>3. QED
    BY <2>1, <2>2
<1>9. QED
  BY <1>7, <1>8 DEF ReaderInv

IInv == RegistryInv /\ ReaderInv

LEMMA InitIInv == Init => IInv
<1> SUFFICES ASSUME Init PROVE IInv
  OBVIOUS
<1>1. snapshots = <<>> /\ retained = <<>> /\ reader = [r \in Reader |-> Unread]
  BY DEF Init
<1>2. Unread \in Readers
  BY DEF Unread, Readers, Cursors
<1>3. RegistryInv
  BY <1>1, LimitsAssumption DEF RegistryInv
<1>4. ReaderInv
  <2>1. reader \in [Reader -> Readers]
    BY <1>1, <1>2
  <2>2. \A r \in Reader : reader[r] = Unread
    BY <1>1
  <2>3. Unread.on = 0 /\ Unread.state = "fresh" /\ Len(snapshots) = 0
    BY <1>1 DEF Unread
  <2>4. QED
    BY <2>1, <2>2, <2>3 DEF ReaderInv
<1>5. QED
  BY <1>3, <1>4 DEF IInv

LEMMA ObserveKeeps ==
  ASSUME IInv, NEW raw \in Pages, NEW cut \in Cuts, Observe(raw, cut)
  PROVE  IInv'
<1>1. /\ RegistryInv'
      /\ Len(snapshots') = Len(snapshots) + 1 /\ Len(snapshots) \in Nat
      /\ \A id \in 1 .. Len(snapshots) : snapshots'[id] = snapshots[id]
  BY PutKeeps DEF IInv, Observe
<1>2. reader' = reader /\ ReaderInv
  BY DEF IInv, Observe
<1>3. ASSUME NEW r \in Reader
      PROVE  /\ reader[r].on <= Len(snapshots')
             /\ reader[r].on # 0 => Follows(reader[r], snapshots'[reader[r].on].blocks)
  <2>1. reader[r].on \in Nat /\ reader[r].on <= Len(snapshots)
        /\ (reader[r].on # 0 => Follows(reader[r], snapshots[reader[r].on].blocks))
    BY <1>2 DEF ReaderInv, Readers
  <2>2. reader[r].on # 0 => snapshots'[reader[r].on] = snapshots[reader[r].on]
    BY <1>1, <2>1
  <2>3. QED
    BY <1>1, <2>1, <2>2
<1>4. ReaderInv'
  BY <1>2, <1>3 DEF ReaderInv
<1>5. QED
  BY <1>1, <1>4 DEF IInv

LEMMA ReadRetainedKeeps ==
  ASSUME IInv, NEW r \in Reader, NEW id \in 1 .. MaxSnapshots, NEW budget,
         ReadRetained(r, id, budget)
  PROVE  IInv'
<1>1. snapshots' = snapshots /\ retained' = retained
  BY DEF ReadRetained
<1>2. RegistryInv /\ ReaderInv /\ RegistryInv'
  BY <1>1 DEF IInv, RegistryInv
<1>3. Len(snapshots) \in Nat /\ id \in 1 .. Len(snapshots')
  <2>1. retained \in Seq(1 .. Len(snapshots)) /\ snapshots \in Seq(Observed)
    BY <1>2 DEF RegistryInv
  <2>2. PICK k \in DOMAIN retained : retained[k] = id
    BY DEF ReadRetained, Retains
  <2>3. QED
    BY <1>1, <2>1, <2>2
<1>4. Read(r, id, snapshots'[id], budget) /\ Reads(r)
  BY <1>1 DEF ReadRetained
<1>5. ReaderInv'
  BY <1>1, <1>2, <1>3, <1>4, ReadKeeps
<1>6. QED
  BY <1>2, <1>5 DEF IInv

LEMMA ReadUnknownKeeps ==
  ASSUME IInv, NEW r \in Reader, NEW id, ReadUnknown(r, id)
  PROVE  IInv'
<1>1. /\ snapshots' = snapshots /\ retained' = retained
      /\ reader' = [reader EXCEPT ![r] = Refused(r)]
  BY DEF ReadUnknown
<1>2. RegistryInv /\ ReaderInv /\ RegistryInv'
  BY <1>1 DEF IInv, RegistryInv
<1> DEFINE new == Refused(r)
<1>3. /\ new \in Readers /\ new.state = "refused" /\ new.on = reader[r].on
      /\ \A blocks : Follows(reader[r], blocks) => Follows(new, blocks)
  BY <1>2, RefusedKeeps
<1> HIDE DEF new
<1>4. reader' = [reader EXCEPT ![r] = new] /\ reader \in [Reader -> Readers]
  BY <1>1, <1>2 DEF new, ReaderInv
<1>5. ReaderInv'
  <2>1. reader' \in [Reader -> Readers] /\ reader'[r] = new
        /\ \A x \in Reader \ {r} : reader'[x] = reader[x]
    BY <1>3, <1>4
  <2>2. \A x \in Reader :
          /\ reader[x].state = "fresh" => reader[x] = Unread
          /\ reader[x].state = "reading" => reader[x].on # 0
          /\ reader[x].on <= Len(snapshots)
          /\ reader[x].on # 0 => Follows(reader[x], snapshots[reader[x].on].blocks)
    BY <1>2 DEF ReaderInv
  <2>3. \A x \in Reader :
          /\ reader'[x].state = "fresh" => reader'[x] = Unread
          /\ reader'[x].state = "reading" => reader'[x].on # 0
          /\ reader'[x].on <= Len(snapshots)
          /\ reader'[x].on # 0 => Follows(reader'[x], snapshots[reader'[x].on].blocks)
    BY <1>3, <2>1, <2>2
  <2>4. QED
    BY <1>1, <2>1, <2>3 DEF ReaderInv
<1>6. QED
  BY <1>2, <1>5 DEF IInv

LEMMA ReadLiveKeeps ==
  ASSUME IInv, NEW r \in Reader, NEW raw \in Pages, NEW cut \in Cuts, NEW budget,
         ReadLive(r, raw, cut, budget)
  PROVE  IInv'
<1> DEFINE id == Len(snapshots) + 1
<1>1. /\ RegistryInv'
      /\ Len(snapshots') = id /\ Len(snapshots) \in Nat
      /\ snapshots'[id] = Snapshot(raw, cut)
      /\ \A x \in 1 .. Len(snapshots) : snapshots'[x] = snapshots[x]
  BY PutKeeps DEF IInv, ReadLive
<1>2. Read(r, id, snapshots'[id], budget) /\ Reads(r)
  BY <1>1 DEF ReadLive
<1>3. id \in 1 .. Len(snapshots') /\ Len(snapshots) <= Len(snapshots')
  BY <1>1
<1>4. RegistryInv /\ ReaderInv
  BY DEF IInv
<1> HIDE DEF id
<1>5. ReaderInv'
  BY <1>1, <1>2, <1>3, <1>4, ReadKeeps
<1>6. QED
  BY <1>1, <1>5 DEF IInv

LEMMA NextIInv == IInv /\ [Next]_vars => IInv'
<1> SUFFICES ASSUME IInv, [Next]_vars PROVE IInv'
  OBVIOUS
<1>1. ASSUME NEW raw \in Pages, NEW cut \in Cuts, Observe(raw, cut) PROVE IInv'
  BY <1>1, ObserveKeeps
<1>2. ASSUME NEW raw \in Pages, NEW cut \in Cuts, NEW r \in Reader, NEW budget \in Budgets,
             ReadLive(r, raw, cut, budget)
      PROVE  IInv'
  BY <1>2, ReadLiveKeeps
<1>3. ASSUME NEW r \in Reader, NEW id \in 1 .. MaxSnapshots, ReadUnknown(r, id) PROVE IInv'
  BY <1>3, ReadUnknownKeeps
<1>4. ASSUME NEW r \in Reader, NEW id \in 1 .. MaxSnapshots, NEW budget \in Budgets,
             ReadRetained(r, id, budget)
      PROVE  IInv'
  BY <1>4, ReadRetainedKeeps
<1>5. CASE UNCHANGED vars
  BY <1>5 DEF vars, IInv, RegistryInv, ReaderInv
<1>6. QED
  BY <1>1, <1>2, <1>3, <1>4, <1>5 DEF Next

LEMMA AlwaysIInv == Spec => []IInv
<1>1. Init => IInv
  BY InitIInv
<1>2. IInv /\ [Next]_vars => IInv'
  BY NextIInv
<1>3. QED
  BY <1>1, <1>2, PTL DEF Spec

-----------------------------------------------------------------------------
(* The outline *)

Level(snap, hs, k) == snap.raw[hs[k]].level

\* The stacks Outline passes through, one after each heading.
Stacks(snap, hs, n) ==
  CHOOSE stack : stack = [k \in 0 .. n |->
    IF k = 0 THEN <<>>
    ELSE Append(CloseFrom(snap, stack[k - 1], Level(snap, hs, k)), hs[k])]

LEMMA OutlineOfStacks ==
  ASSUME NEW snap
  PROVE  LET hs == Headings(snap)
             under(k) == CloseFrom(snap, Stacks(snap, hs, Len(hs))[k - 1], Level(snap, hs, k))
         IN  Outline(snap) = [k \in DOMAIN hs |-> IF under(k) = <<>> THEN 0
                                                  ELSE under(k)[Len(under(k))]]
BY Zenon DEF Outline, Stacks, Level

\* There are such stacks, after any number of headings.
LEMMA StacksExist ==
  ASSUME NEW snap, NEW hs, NEW n \in Nat
  PROVE  LET stack == Stacks(snap, hs, n)
         IN  stack = [k \in 0 .. n |->
               IF k = 0 THEN <<>>
               ELSE Append(CloseFrom(snap, stack[k - 1], Level(snap, hs, k)), hs[k])]
<1> DEFINE G(k, st) == Append(CloseFrom(snap, st, Level(snap, hs, k)), hs[k])
           Defines(f, m) == f = [k \in 0 .. m |-> IF k = 0 THEN <<>> ELSE G(k, f[k - 1])]
           S == {m \in Nat : \E f : Defines(f, m)}
<1> HIDE DEF G
<1>1. 0 \in S
  <2> DEFINE f == [k \in 0 .. 0 |-> <<>>]
  <2>1. Defines(f, 0)
    <3>1. f = [k \in 0 .. 0 |-> IF k = 0 THEN <<>> ELSE G(k, f[k - 1])]
      OBVIOUS
    <3>2. QED
      BY <3>1
  <2> HIDE DEF f, Defines
  <2>2. QED
    BY <2>1
<1>2. ASSUME NEW m \in S PROVE m + 1 \in S
  <2>1. m \in Nat
    OBVIOUS
  <2>2. PICK f : f = [k \in 0 .. m |-> IF k = 0 THEN <<>> ELSE G(k, f[k - 1])]
    OBVIOUS
  <2> DEFINE h == [k \in 0 .. m + 1 |-> IF k = m + 1 THEN G(m + 1, f[m]) ELSE f[k]]
  <2>3. ASSUME NEW k \in 0 .. m + 1
        PROVE  h[k] = IF k = 0 THEN <<>> ELSE G(k, h[k - 1])
    <3>1. CASE k = 0
      <4>1. k # m + 1 /\ 0 \in 0 .. m
        BY <2>1, <3>1
      <4>2. f[0] = <<>>
        BY <2>2, <4>1
      <4>3. QED
        BY <3>1, <4>1, <4>2
    <3>2. CASE k = m + 1
      <4>1. k # 0 /\ k - 1 = m /\ m \in 0 .. m + 1 /\ m # m + 1
        BY <2>1, <3>2
      <4>2. h[k] = G(k, f[m]) /\ h[k - 1] = f[m]
        BY <3>2, <4>1
      <4>3. QED
        BY <4>1, <4>2
    <3>3. CASE k # 0 /\ k # m + 1
      <4>1. k \in 0 .. m /\ k - 1 \in 0 .. m + 1 /\ k - 1 # m + 1
        BY <2>1, <3>3
      <4>2. h[k] = f[k] /\ h[k - 1] = f[k - 1]
        BY <3>3, <4>1
      <4>3. f[k] = G(k, f[k - 1])
        BY <2>2, <3>3, <4>1
      <4>4. QED
        BY <3>3, <4>2, <4>3
    <3>4. QED
      BY <3>1, <3>2, <3>3
  <2>4. h = [k \in 0 .. m + 1 |-> h[k]]
    OBVIOUS
  <2> HIDE DEF h
  <2>5. Defines(h, m + 1)
    BY <2>3, <2>4
  <2> HIDE DEF Defines
  <2>6. QED
    BY <2>1, <2>5
<1>3. n \in S
  <2> HIDE DEF S
  <2>1. S \in SUBSET Nat
    BY DEF S
  <2>2. S = Nat
    BY <1>1, <1>2, <2>1, SetInduction
  <2>3. QED
    BY <2>2
<1>4. PICK some : Defines(some, n)
  BY <1>3
<1>5. Stacks(snap, hs, n) = CHOOSE f : Defines(f, n)
  BY Zenon DEF Stacks, G
<1> HIDE DEF Defines
<1>6. Defines(Stacks(snap, hs, n), n)
  BY <1>4, <1>5
<1>7. QED
  BY <1>6 DEF Defines, G

\* Closing headings leaves the beginning of the stack, up to the last heading
\* of a lower level in it.
LEMMA ClosesFrom ==
  ASSUME NEW snap, NEW T, NEW st \in Seq(T), NEW level
  PROVE  \E g \in 0 .. Len(st) :
           /\ CloseFrom(snap, st, level) = SubSeq(st, 1, g)
           /\ g # 0 => snap.raw[st[g]].level < level
           /\ \A j \in 1 .. Len(st) : snap.raw[st[j]].level < level => j <= g
<1> DEFINE open == {k \in 1 .. Len(st) : snap.raw[st[k]].level < level}
<1>1. Len(st) \in Nat
  OBVIOUS
<1>2. CloseFrom(snap, st, level) =
        SubSeq(st, 1, IF open = {} THEN 0 ELSE CHOOSE k \in open : \A m \in open : m <= k)
  BY DEF CloseFrom
<1>3. CASE open = {}
  <2>1. 0 \in 0 .. Len(st) /\ \A j \in 1 .. Len(st) : ~ (snap.raw[st[j]].level < level)
    BY <1>1, <1>3
  <2>2. CloseFrom(snap, st, level) = SubSeq(st, 1, 0)
    BY <1>2, <1>3
  <2>3. QED
    BY <2>1, <2>2
<1>4. CASE open # {}
  <2>1. open \in SUBSET (1 .. Len(st))
    OBVIOUS
  <2> DEFINE g == CHOOSE k \in open : \A m \in open : m <= k
  <2>2. g \in open /\ \A m \in open : m <= g
    <3> HIDE DEF open
    <3>1. \E k \in open : \A m \in open : m <= k
      BY <1>1, <1>4, <2>1, GreatestElement
    <3>2. QED
      BY <3>1
  <2>3. CloseFrom(snap, st, level) = SubSeq(st, 1, g)
    BY <1>2, <1>4
  <2> HIDE DEF g
  <2>4. g \in 0 .. Len(st)
    BY <1>1, <2>2
  <2>5. QED
    BY <2>2, <2>3, <2>4
<1>5. QED
  BY <1>3, <1>4

\* After k headings: the stack holds headings by increasing position pos, among
\* them every one with none of its level or a lower one after it.
Stacked(snap, hs, k, st, pos) ==
  /\ pos \in Seq(1 .. k) /\ st \in Seq(Nat) /\ Len(pos) = Len(st)
  /\ \A j \in 1 .. Len(st) : st[j] = hs[pos[j]]
  /\ \A i, j \in 1 .. Len(st) : i < j => pos[i] < pos[j]
  /\ \A m \in 1 .. k :
       (\A l \in m + 1 .. k : Level(snap, hs, m) < Level(snap, hs, l))
         => \E j \in 1 .. Len(st) : pos[j] = m

LEMMA StackStep ==
  ASSUME NEW snap, NEW hs \in Seq(Nat), NEW k \in Nat, k + 1 \in 1 .. Len(hs),
         NEW st, NEW pos, Stacked(snap, hs, k, st, pos)
  PROVE  \E p : Stacked(snap, hs, k + 1,
                  Append(CloseFrom(snap, st, Level(snap, hs, k + 1)), hs[k + 1]), p)
<1> DEFINE level == Level(snap, hs, k + 1)
<1>1. /\ st \in Seq(Nat) /\ pos \in Seq(1 .. k) /\ Len(pos) = Len(st) /\ Len(st) \in Nat
      /\ DOMAIN pos = 1 .. Len(st)
  BY DEF Stacked
<1>2. PICK g \in 0 .. Len(st) :
        /\ CloseFrom(snap, st, level) = SubSeq(st, 1, g)
        /\ \A j \in 1 .. Len(st) : snap.raw[st[j]].level < level => j <= g
  <2> HIDE DEF level
  <2>1. QED
    BY <1>1, ClosesFrom
<1> DEFINE kept == SubSeq(st, 1, g)
           at == SubSeq(pos, 1, g)
           new == Append(kept, hs[k + 1])
           p == Append(at, k + 1)
<1>3. g \in Nat /\ g <= Len(st) /\ k + 1 \in 1 .. k + 1 /\ hs[k + 1] \in Nat
  BY <1>1
<1>4. /\ kept \in Seq(Nat) /\ Len(kept) = g
      /\ \A j \in 1 .. g : kept[j] = st[j]
      /\ at \in Seq(1 .. k) /\ Len(at) = g
      /\ \A j \in 1 .. g : at[j] = pos[j]
  <2>1. kept \in Seq(Nat) /\ Len(kept) = g /\ \A j \in 1 .. g : kept[j] = st[j]
    <3>1. g \in Int /\ 1 \in Int /\ (1 <= g => 1 \in 1 .. Len(st) /\ g \in 1 .. Len(st))
      BY <1>1, <1>3
    <3>2. /\ SubSeq(st, 1, g) \in Seq(Nat)
          /\ Len(SubSeq(st, 1, g)) = IF 1 <= g THEN g - 1 + 1 ELSE 0
          /\ \A j \in 1 .. g - 1 + 1 : SubSeq(st, 1, g)[j] = st[1 + j - 1]
      BY <1>1, <3>1, SubSeqProperties
    <3>3. QED
      BY <1>3, <3>2
  <2> DEFINE T == 1 .. k
  <2>2. pos \in Seq(T) /\ g <= Len(pos) /\ Len(pos) \in Nat
    BY <1>1, <1>3
  <2> HIDE DEF T
  <2>3. at \in Seq(T) /\ Len(at) = g /\ \A j \in 1 .. g : at[j] = pos[j]
    BY <1>3, <2>2, SubSeqProperties
  <2>4. QED
    BY <2>1, <2>3 DEF T
<1> HIDE DEF kept, at
<1>5. at \in Seq(1 .. k + 1)
  <2> DEFINE T == 1 .. k + 1
  <2>1. \A j \in 1 .. g : at[j] \in T
    BY <1>4
  <2> HIDE DEF T
  <2>2. DOMAIN at = 1 .. g
    BY <1>4
  <2>3. at \in [1 .. g -> T]
    BY <1>4, <2>1, <2>2
  <2>4. at \in Seq(T)
    BY <1>3, <2>3
  <2>5. QED
    BY <2>4 DEF T
<1>6. /\ new \in Seq(Nat) /\ Len(new) = g + 1 /\ new[g + 1] = hs[k + 1]
      /\ \A j \in 1 .. g : new[j] = st[j]
  <2> DEFINE x == hs[k + 1]
  <2>1. x \in Nat
    BY <1>3
  <2> HIDE DEF x
  <2>2. /\ Append(kept, x) \in Seq(Nat) /\ Len(Append(kept, x)) = Len(kept) + 1
        /\ Append(kept, x)[Len(kept) + 1] = x
        /\ \A j \in 1 .. Len(kept) : Append(kept, x)[j] = kept[j]
    BY <1>4, <2>1, AppendProperties
  <2>3. QED
    BY <1>4, <2>2 DEF x
<1>7. /\ p \in Seq(1 .. k + 1) /\ Len(p) = g + 1 /\ p[g + 1] = k + 1
      /\ \A j \in 1 .. g : p[j] = pos[j]
  <2> DEFINE x == k + 1
             T == 1 .. k + 1
  <2>1. x \in T /\ at \in Seq(T)
    BY <1>3, <1>5
  <2> HIDE DEF x, T
  <2>2. /\ Append(at, x) \in Seq(T) /\ Len(Append(at, x)) = Len(at) + 1
        /\ Append(at, x)[Len(at) + 1] = x
        /\ \A j \in 1 .. Len(at) : Append(at, x)[j] = at[j]
    BY <2>1, AppendProperties
  <2>3. QED
    BY <1>4, <2>2 DEF x, T
<1> HIDE DEF new, p
<1>8. \A j \in 1 .. g + 1 : j # g + 1 => j \in 1 .. g /\ j \in 1 .. Len(st)
  BY <1>1, <1>3
<1>9. ASSUME NEW j \in 1 .. g PROVE pos[j] \in Nat /\ pos[j] < k + 1
  <2>1. j \in DOMAIN pos
    BY <1>1, <1>3
  <2>2. pos[j] \in 1 .. k
    BY <1>1, <2>1
  <2>3. QED
    BY <2>2
<1>10. \A j \in 1 .. Len(st) : st[j] = hs[pos[j]]
  BY DEF Stacked
<1>11. ASSUME NEW j \in 1 .. g + 1 PROVE new[j] = hs[p[j]]
  <2>1. CASE j = g + 1
    BY <1>6, <1>7, <2>1
  <2>2. CASE j # g + 1
    BY <1>6, <1>7, <1>8, <1>10, <2>2
  <2>3. QED
    BY <2>1, <2>2
<1>12. ASSUME NEW i \in 1 .. g + 1, NEW j \in 1 .. g + 1, i < j PROVE p[i] < p[j]
  <2>1. i # g + 1 /\ i \in 1 .. g /\ i \in 1 .. Len(st)
    BY <1>1, <1>3, <1>12
  <2>2. CASE j = g + 1
    <3>1. p[i] = pos[i] /\ p[j] = k + 1 /\ pos[i] < k + 1
      BY <1>7, <1>9, <2>1, <2>2
    <3>2. QED
      BY <3>1
  <2>3. CASE j # g + 1
    <3>1. j \in 1 .. g /\ j \in 1 .. Len(st)
      BY <1>8, <2>3
    <3>2. pos[i] < pos[j]
      BY <1>12, <2>1, <3>1 DEF Stacked
    <3>3. QED
      BY <1>7, <2>1, <3>1, <3>2
  <2>4. QED
    BY <2>2, <2>3
<1>13. ASSUME NEW m \in 1 .. k + 1,
              \A l \in m + 1 .. k + 1 : Level(snap, hs, m) < Level(snap, hs, l)
       PROVE  \E j \in 1 .. g + 1 : p[j] = m
  <2>1. CASE m = k + 1
    <3>1. g + 1 \in 1 .. g + 1
      BY <1>3
    <3>2. QED
      BY <1>7, <2>1, <3>1
  <2>2. CASE m # k + 1
    <3>1. m \in 1 .. k /\ k + 1 \in m + 1 .. k + 1 /\ m + 1 .. k \subseteq m + 1 .. k + 1
      BY <2>2
    <3>2. \A l \in m + 1 .. k : Level(snap, hs, m) < Level(snap, hs, l)
      BY <1>13, <3>1
    <3>3. PICK j \in 1 .. Len(st) : pos[j] = m
      BY <3>1, <3>2 DEF Stacked
    <3>4. Level(snap, hs, m) < level
      BY <1>13, <3>1
    <3>5. snap.raw[st[j]].level < level
      BY <1>10, <3>3, <3>4 DEF Level
    <3>6. j \in 1 .. g /\ j \in 1 .. g + 1
      BY <1>1, <1>2, <1>3, <3>5
    <3>7. QED
      BY <1>7, <3>3, <3>6
  <2>3. QED
    BY <2>1, <2>2
<1>14. Stacked(snap, hs, k + 1, new, p)
  BY <1>6, <1>7, <1>11, <1>12, <1>13 DEF Stacked
<1>15. new = Append(CloseFrom(snap, st, level), hs[k + 1])
  BY <1>2 DEF new, kept
<1>16. QED
  BY <1>14, <1>15


LEMMA AllStacked ==
  ASSUME NEW snap, NEW hs \in Seq(Nat), NEW k \in 0 .. Len(hs)
  PROVE  \E pos : Stacked(snap, hs, k, Stacks(snap, hs, Len(hs))[k], pos)
<1> DEFINE n == Len(hs)
           stack == Stacks(snap, hs, n)
           S == {i \in Nat : i <= n => \E pos : Stacked(snap, hs, i, stack[i], pos)}
<1>1. n \in Nat
  OBVIOUS
<1> HIDE DEF n
<1>2. stack = [i \in 0 .. n |->
        IF i = 0 THEN <<>> ELSE Append(CloseFrom(snap, stack[i - 1], Level(snap, hs, i)), hs[i])]
  BY <1>1, StacksExist
<1> HIDE DEF stack
<1>3. 0 \in S
  <2>1. stack[0] = <<>>
    BY <1>1, <1>2
  <2>2. Stacked(snap, hs, 0, <<>>, <<>>)
    BY DEF Stacked
  <2>3. QED
    BY <2>1, <2>2
<1>4. ASSUME NEW i \in S PROVE i + 1 \in S
  <2>1. i \in Nat
    OBVIOUS
  <2>2. ASSUME i + 1 <= n
        PROVE  \E pos : Stacked(snap, hs, i + 1, stack[i + 1], pos)
    <3>1. i <= n /\ i + 1 \in 0 .. n /\ i + 1 # 0 /\ i + 1 - 1 = i /\ i + 1 \in 1 .. Len(hs)
      BY <1>1, <2>1, <2>2 DEF n
    <3>2. PICK pos : Stacked(snap, hs, i, stack[i], pos)
      BY <3>1
    <3>3. stack[i + 1] = Append(CloseFrom(snap, stack[i], Level(snap, hs, i + 1)), hs[i + 1])
      <4>1. \A x \in 0 .. n : x # 0 =>
              stack[x] = Append(CloseFrom(snap, stack[x - 1], Level(snap, hs, x)), hs[x])
        BY <1>2
      <4>2. QED
        BY <3>1, <4>1
    <3>4. \E p : Stacked(snap, hs, i + 1,
                   Append(CloseFrom(snap, stack[i], Level(snap, hs, i + 1)), hs[i + 1]), p)
      BY <2>1, <3>1, <3>2, StackStep
    <3>5. QED
      BY <3>3, <3>4
  <2>3. QED
    BY <2>1, <2>2
<1>5. S = Nat
  <2>1. S \in SUBSET Nat
    OBVIOUS
  <2> HIDE DEF S
  <2>2. QED
    BY <1>3, <1>4, <2>1, SetInduction
<1>6. k \in Nat /\ k <= n
  BY <1>1 DEF n
<1>7. k \in S
  <2> HIDE DEF S
  <2>1. QED
    BY <1>5, <1>6
<1>8. QED
  BY <1>6, <1>7 DEF stack, n

\* The headings of a snapshot, with their levels.
LEMMA HeadingsOf ==
  ASSUME NEW snap \in Observed
  PROVE  LET hs == Headings(snap)
         IN  /\ hs \in Seq(Nat) /\ Len(hs) \in Nat /\ DOMAIN hs = 1 .. Len(hs)
             /\ \A k \in DOMAIN hs : Level(snap, hs, k) \in Nat
<1> DEFINE blocks == snap.blocks
           S == {k \in DOMAIN blocks : snap.raw[blocks[k]].kind = "heading"}
           at == Ascending(S)
           hs == Headings(snap)
<1>1. /\ snap.raw \in Pages
      /\ blocks \in Seq(DOMAIN snap.raw) /\ blocks \in Seq(Nat)
      /\ Len(blocks) \in Nat /\ DOMAIN blocks = 1 .. Len(blocks)
  BY ObservedBlocks
<1> HIDE DEF blocks
<1>2. S \in SUBSET (1 .. Len(blocks))
  BY <1>1
<1>3. hs = [k \in DOMAIN at |-> blocks[at[k]]]
  BY DEF Headings, blocks
<1> HIDE DEF S
<1>4. at \in Seq(S) /\ DOMAIN at = 1 .. Len(at)
  BY <1>1, <1>2, AscendingLists
<1> HIDE DEF at
<1>5. Len(at) \in Nat /\ \A k \in 1 .. Len(at) : at[k] \in S
  BY <1>4
<1>6. \A k \in 1 .. Len(at) : at[k] \in 1 .. Len(blocks)
  BY <1>2, <1>5
<1>7. \A k \in 1 .. Len(at) : blocks[at[k]] \in Nat /\ blocks[at[k]] \in DOMAIN snap.raw
  BY <1>1, <1>6
<1> HIDE DEF hs
<1>8. hs \in [1 .. Len(at) -> Nat]
  BY <1>3, <1>4, <1>7
<1>9. hs \in Seq(Nat) /\ Len(hs) \in Nat /\ DOMAIN hs = 1 .. Len(hs)
  BY <1>5, <1>8
<1>10. \A k \in DOMAIN hs : hs[k] \in DOMAIN snap.raw
  BY <1>3, <1>4, <1>7
<1>11. ASSUME NEW k \in DOMAIN hs PROVE Level(snap, hs, k) \in Nat
  <2> DEFINE B == [kind : {"heading", "paragraph", "list", "table", "code"},
                   level : 0..6, text : DOMAIN Chars, chrome : BOOLEAN]
  <2>1. snap.raw \in Seq(B)
    BY <1>1, PagesAssumption
  <2> HIDE DEF B
  <2>2. snap.raw[hs[k]] \in B
    BY <1>10, <2>1
  <2>3. QED
    BY <2>2 DEF B, Level
<1>12. QED
  BY <1>9, <1>11 DEF hs

\* Where a heading goes: under the nearest lower one before it.
LEMMA ParentIsNearest ==
  ASSUME NEW snap \in Observed, NEW k \in DOMAIN Headings(snap)
  PROVE  LET hs == Headings(snap)
             lower == {m \in 1 .. k - 1 : Level(snap, hs, m) < Level(snap, hs, k)}
         IN  Outline(snap)[k] = IF lower = {} THEN 0
                                ELSE hs[CHOOSE m \in lower : \A l \in lower : l <= m]
<1> DEFINE hs == Headings(snap)
           lower == {m \in 1 .. k - 1 : Level(snap, hs, m) < Level(snap, hs, k)}
           st == Stacks(snap, hs, Len(hs))[k - 1]
           level == Level(snap, hs, k)
           under == CloseFrom(snap, st, level)
<1>1. /\ hs \in Seq(Nat) /\ Len(hs) \in Nat /\ DOMAIN hs = 1 .. Len(hs)
      /\ \A i \in DOMAIN hs : Level(snap, hs, i) \in Nat
  BY HeadingsOf
<1>2. Outline(snap)[k] = IF under = <<>> THEN 0 ELSE under[Len(under)]
  BY OutlineOfStacks
<1> HIDE DEF hs
<1>3. k \in 1 .. Len(hs) /\ k - 1 \in 0 .. Len(hs) /\ level \in Nat
  BY <1>1 DEF hs
<1>4. PICK pos : Stacked(snap, hs, k - 1, st, pos)
  BY <1>1, <1>3, AllStacked
<1> HIDE DEF st, level
<1>5. /\ st \in Seq(Nat) /\ Len(st) \in Nat /\ pos \in Seq(1 .. k - 1) /\ Len(pos) = Len(st)
      /\ \A j \in 1 .. Len(st) : pos[j] \in 1 .. k - 1 /\ st[j] = hs[pos[j]]
  <2>1. /\ st \in Seq(Nat) /\ pos \in Seq(1 .. k - 1) /\ Len(pos) = Len(st)
        /\ \A j \in 1 .. Len(st) : st[j] = hs[pos[j]]
    BY <1>4 DEF Stacked
  <2> DEFINE T == 1 .. k - 1
  <2>2. pos \in Seq(T)
    BY <2>1
  <2> HIDE DEF T
  <2>3. \A j \in 1 .. Len(pos) : pos[j] \in T
    BY <2>2
  <2>4. \A j \in 1 .. Len(st) : pos[j] \in T
    BY <2>1, <2>3
  <2>5. QED
    BY <2>1, <2>4 DEF T
<1>6. PICK g \in 0 .. Len(st) :
        /\ under = SubSeq(st, 1, g)
        /\ g # 0 => snap.raw[st[g]].level < level
        /\ \A j \in 1 .. Len(st) : snap.raw[st[j]].level < level => j <= g
  BY <1>5, ClosesFrom
<1>7. /\ g \in Nat /\ Len(under) = g
      /\ \A j \in 1 .. g : under[j] = st[j] /\ j \in 1 .. Len(st)
  <2>1. g \in Nat /\ g <= Len(st) /\ \A j \in 1 .. g : j \in 1 .. Len(st)
    BY <1>5
  <2>2. Len(SubSeq(st, 1, g)) = g /\ \A j \in 1 .. g : SubSeq(st, 1, g)[j] = st[j]
    BY <1>5, <2>1, SubSeqProperties
  <2>3. QED
    BY <1>6, <2>1, <2>2
<1> HIDE DEF under
<1>8. \A j \in 1 .. Len(st) : (snap.raw[st[j]].level < level) <=> (pos[j] \in lower)
  BY <1>5 DEF Level, level
<1>9. CASE lower = {}
  <2>1. g = 0
    <3>1. ASSUME g # 0 PROVE FALSE
      <4>1. g \in 1 .. Len(st)
        BY <1>5, <3>1
      <4>2. pos[g] \in lower
        BY <1>6, <1>8, <3>1, <4>1
      <4>3. QED
        BY <1>9, <4>2
    <3>2. QED
      BY <3>1
  <2>2. under = <<>>
    BY <1>5, <1>6, <2>1
  <2>3. Outline(snap)[k] = 0
    BY <1>2, <2>2
  <2>4. QED
    BY <1>9, <2>3 DEF hs
<1>10. CASE lower # {}
  <2> DEFINE M == CHOOSE m \in lower : \A l \in lower : l <= m
  <2>1. M \in lower /\ \A l \in lower : l <= M
    <3>1. lower \in SUBSET (1 .. k - 1) /\ k - 1 \in Nat
      BY <1>3
    <3> HIDE DEF lower
    <3>2. \E m \in lower : \A l \in lower : l <= m
      BY <1>10, <3>1, GreatestElement
    <3>3. QED
      BY <3>2
  <2> HIDE DEF M
  <2>2. M \in 1 .. k - 1 /\ M \in Nat /\ Level(snap, hs, M) < level
    BY <1>3, <2>1 DEF level
  <2>3. ASSUME NEW l \in M + 1 .. k - 1 PROVE Level(snap, hs, M) < Level(snap, hs, l)
    <3>1. l \in 1 .. k - 1 /\ ~ (l <= M) /\ l \in DOMAIN hs /\ M \in DOMAIN hs
      BY <1>1, <1>3, <2>2
    <3>2. l \notin lower
      BY <2>1, <3>1
    <3>3. ~ (Level(snap, hs, l) < level)
      BY <3>1, <3>2 DEF level
    <3>4. Level(snap, hs, l) \in Nat /\ Level(snap, hs, M) \in Nat
      BY <1>1, <3>1
    <3>5. QED
      BY <1>3, <2>2, <3>3, <3>4
  <2>4. PICK j \in 1 .. Len(st) : pos[j] = M
    BY <1>4, <2>2, <2>3 DEF Stacked
  <2>5. j <= g
    <3>1. pos[j] \in lower
      BY <2>1, <2>4
    <3>2. QED
      BY <1>6, <1>8, <3>1
  <2>6. g \in 1 .. Len(st) /\ g # 0
    BY <1>5, <1>7, <2>5
  <2>7. pos[g] <= M /\ pos[g] \in Nat
    <3>1. pos[g] \in lower
      BY <1>6, <1>8, <2>6
    <3>2. QED
      BY <1>5, <2>1, <2>6, <3>1
  <2>8. j = g
    <3>1. ASSUME j < g PROVE FALSE
      <4>1. pos[j] < pos[g]
        BY <1>4, <2>6, <3>1 DEF Stacked
      <4>2. QED
        BY <2>2, <2>4, <2>7, <4>1
    <3>2. QED
      BY <1>5, <1>7, <2>5, <3>1
  <2>9. under[Len(under)] = hs[M]
    <3>1. g \in 1 .. g
      BY <1>7, <2>6
    <3>2. under[g] = st[g] /\ st[g] = hs[pos[g]]
      BY <1>5, <1>7, <2>6, <3>1
    <3>3. QED
      BY <1>7, <2>4, <2>8, <3>2
  <2>10. under # <<>>
    BY <1>7, <2>6
  <2>11. Outline(snap)[k] = hs[M]
    BY <1>2, <2>9, <2>10
  <2>12. QED
    BY <1>10, <2>11 DEF M, hs
<1>11. QED
  BY <1>9, <1>10

-----------------------------------------------------------------------------
(* The theorems *)

\* The registry holds no more snapshots than it may, each of them one there is,
\* and a reader is on a snapshot there is: the service's registry and its reads.
THEOREM TypeCorrect == Spec => []TypeOK
<1>1. IInv => TypeOK
  <2> SUFFICES ASSUME IInv PROVE TypeOK
    OBVIOUS
  <2>1. /\ snapshots \in Seq(Observed) /\ Len(snapshots) <= MaxSnapshots
        /\ retained \in Seq(1 .. Len(snapshots)) /\ Len(retained) <= Retention
    BY DEF IInv, RegistryInv
  <2>2. /\ Len(snapshots) \in Nat /\ DOMAIN snapshots = 1 .. Len(snapshots)
        /\ MaxSnapshots \in Nat
    BY <2>1, LimitsAssumption
  <2>3. \A id \in DOMAIN snapshots :
          /\ snapshots[id].raw \in Pages
          /\ snapshots[id].blocks \in Seq(DOMAIN snapshots[id].raw)
    <3>1. ASSUME NEW id \in DOMAIN snapshots PROVE snapshots[id] \in Observed
      BY <2>1, <2>2
    <3>2. QED
      BY <3>1, ObservedBlocks
  <2>4. retained \in Seq(1 .. MaxSnapshots)
    <3>1. 1 .. Len(snapshots) \subseteq 1 .. MaxSnapshots
      BY <2>1, <2>2
    <3>2. /\ Len(retained) \in Nat /\ DOMAIN retained = 1 .. Len(retained)
          /\ \A k \in 1 .. Len(retained) : retained[k] \in 1 .. Len(snapshots)
      BY <2>1
    <3>3. retained \in [1 .. Len(retained) -> 1 .. MaxSnapshots]
      BY <2>1, <3>1, <3>2
    <3> DEFINE ids == 1 .. MaxSnapshots
    <3> HIDE DEF ids
    <3>4. retained \in [1 .. Len(retained) -> ids]
      BY <3>3 DEF ids
    <3>5. retained \in Seq(ids)
      BY <3>2, <3>4
    <3>6. QED
      BY <3>5 DEF ids
  <2>5. \A r \in Reader :
          /\ reader[r].on \in 0 .. Len(snapshots)
          /\ reader[r].state \in {"fresh", "reading", "done", "refused"}
    <3>1. ASSUME NEW r \in Reader
          PROVE  /\ reader[r].on \in Nat /\ reader[r].on <= Len(snapshots)
                 /\ reader[r].state \in {"fresh", "reading", "done", "refused"}
      BY DEF IInv, ReaderInv, Readers
    <3>2. QED
      BY <2>2, <3>1
  <2>6. QED
    BY <2>1, <2>3, <2>4, <2>5 DEF TypeOK
<1>2. QED
  BY <1>1, AlwaysIInv, PTL

\* Extraction accounts for every block: one that is not retained is named by
\* exactly one omission, and a repeated text is read once unless all of it is
\* page chrome (_collapse and the budget of extract_page).
THEOREM EveryBlockAccounted == Spec => []NothingLostUndeclared
<1>1. IInv => NothingLostUndeclared
  <2>1. ASSUME IInv, NEW id \in DOMAIN snapshots PROVE Complete(snapshots[id])
    <3>1. snapshots[id] \in Observed
      BY <2>1 DEF IInv, RegistryInv
    <3>2. PICK raw \in Pages, cut \in Cuts : snapshots[id] = Snapshot(raw, cut)
      BY <3>1 DEF Observed
    <3>3. QED
      BY <3>2, SnapshotComplete
  <2>2. QED
    BY <2>1 DEF NothingLostUndeclared, Complete
<1>2. QED
  BY <1>1, AlwaysIInv, PTL

\* Whatever budgets a reader asks with, whatever is observed, retained or
\* evicted in between, the blocks it was given are the first ones of one
\* snapshot, each once and in order, and what it is told is left is the rest
\* (PageSnapshot.read and its cursors).
THEOREM ReadsFollowCursor == Spec => []ReadsInOrderOnce
<1>1. IInv => ReadsInOrderOnce
  BY DEF IInv, ReaderInv, Follows, ReadsInOrderOnce
<1>2. QED
  BY <1>1, AlwaysIInv, PTL

\* Every heading of a snapshot stands, in its outline, under the nearest heading
\* before it that is of a lower level, and is a root when there is none.
THEOREM HeadingsNest == Spec => []OutlineNests
<1>1. IInv => OutlineNests
  <2> SUFFICES ASSUME IInv, NEW id \in DOMAIN snapshots,
                      NEW k \in DOMAIN Headings(snapshots[id])
               PROVE  LET snap == snapshots[id]
                          hs == Headings(snap)
                          level(m) == snap.raw[hs[m]].level
                          lower == {m \in 1..k - 1 : level(m) < level(k)}
                      IN  Outline(snap)[k] = IF lower = {} THEN 0
                                             ELSE hs[CHOOSE m \in lower : \A l \in lower : l <= m]
    BY DEF OutlineNests
  <2> DEFINE snap == snapshots[id]
  <2>1. snap \in Observed
    BY DEF IInv, RegistryInv
  <2> HIDE DEF snap
  <2>2. k \in DOMAIN Headings(snap)
    BY DEF snap
  <2>3. LET hs == Headings(snap)
            lower == {m \in 1 .. k - 1 : Level(snap, hs, m) < Level(snap, hs, k)}
        IN  Outline(snap)[k] = IF lower = {} THEN 0
                               ELSE hs[CHOOSE m \in lower : \A l \in lower : l <= m]
    BY <2>1, <2>2, ParentIsNearest
  <2>4. QED
    BY ONLY <2>3 DEF snap, Level
<1>2. QED
  BY <1>1, AlwaysIInv, PTL
=============================================================================
