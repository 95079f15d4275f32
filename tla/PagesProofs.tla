---------------------------- MODULE PagesProofs ----------------------------
(***************************************************************************)
(* Lemmas about the operators of Pages and Notices, for every page and     *)
(* every difference: which entries a filter keeps, what each fetcher reads *)
(* off a page, and what each notice names.                                 *)
(***************************************************************************)
EXTENDS Notices, FiniteSetTheorems, SequenceTheorems, WellFoundedInduction, TLAPS

USE PagesAssumption, NoticesAssumption

-----------------------------------------------------------------------------
(* Numbers.  Induction is by sets: the prover cannot be given a predicate. *)

\* A set of numbers has a least one.
LEMMA LeastNumber ==
    ASSUME NEW T \in SUBSET Nat, T # {}
    PROVE  \E x \in T : \A y \in T : x <= y
<1> DEFINE Less == {ss \in Nat \X Nat : ss[1] < ss[2]}
<1>1. IsWellFoundedOn(Less, Nat)
  BY NatLessThanWellFounded DEF OpToRel
<1>2. PICK x \in T : \A y \in T : ~(<<y, x>> \in Less)
  <2>1. T \subseteq Nat
    OBVIOUS
  <2> HIDE DEF Less
  <2>2. QED
    BY <1>1, <2>1, WFMin
<1>3. \A y \in T : x <= y
  <2> SUFFICES ASSUME NEW y \in T PROVE x <= y
    OBVIOUS
  <2>1. x \in Nat /\ y \in Nat
    OBVIOUS
  <2>2. ~(y < x)
    BY <1>2, <2>1
  <2>3. QED
    BY <2>1, <2>2
<1>4. QED
  BY <1>3

\* What holds at 0 and goes from each number to the next holds up to n.
LEMMA Induction ==
    ASSUME NEW n \in Nat, NEW K, 0 \in K,
           \A k \in 1..n : k - 1 \in K => k \in K
    PROVE  \A k \in 0..n : k \in K
<1> DEFINE T == {k \in 0..n : k \notin K}
<1> SUFFICES ASSUME T # {} PROVE FALSE
  OBVIOUS
<1>1. PICK x \in T : \A y \in T : x <= y
  <2>1. T \in SUBSET Nat
    OBVIOUS
  <2> HIDE DEF T
  <2>2. QED
    BY <2>1, LeastNumber
<1>2. x \in 1..n /\ x - 1 \in 0..n
  OBVIOUS
<1>3. QED
  BY <1>1, <1>2

\* Max and Min are what their names say.
LEMMA MinIsLeast ==
    ASSUME NEW T \in SUBSET Nat, T # {}
    PROVE  Min(T) \in T /\ \A y \in T : Min(T) <= y
BY LeastNumber DEF Min

LEMMA MaxIsGreatest ==
    ASSUME NEW T, NEW x \in T, T \subseteq Nat, \A y \in T : y <= x
    PROVE  Max(T) = x
<1>1. \E m \in T : \A y \in T : m >= y
  OBVIOUS
<1>2. Max(T) \in T /\ \A y \in T : Max(T) >= y
  BY <1>1 DEF Max
<1>3. Max(T) \in Nat /\ x \in Nat /\ Max(T) >= x /\ Max(T) <= x
  BY <1>2
<1>4. QED
  BY <1>3

-----------------------------------------------------------------------------
(* Filters.                                                                *)

\* The positions up to i.
UpTo(I, i) == {j \in I : j <= i}

LEMMA RanksGrow ==
    ASSUME NEW I \in SUBSET Nat, IsFiniteSet(I)
    PROVE  /\ \A i \in I : Cardinality(UpTo(I, i)) \in 1..Cardinality(I)
           /\ \A i, j \in I : i < j => Cardinality(UpTo(I, i)) < Cardinality(UpTo(I, j))
<1>1. ASSUME NEW i \in I
      PROVE  /\ IsFiniteSet(UpTo(I, i))
             /\ Cardinality(UpTo(I, i)) \in 1..Cardinality(I)
  <2>1. UpTo(I, i) \subseteq I /\ i \in UpTo(I, i)
    BY DEF UpTo
  <2>2. /\ IsFiniteSet(UpTo(I, i)) /\ Cardinality(UpTo(I, i)) \in Nat
        /\ Cardinality(I) \in Nat /\ Cardinality(UpTo(I, i)) <= Cardinality(I)
    BY <2>1, FS_Subset, FS_CardinalityType
  <2>3. Cardinality(UpTo(I, i)) # 0
    BY <2>1, <2>2, FS_EmptySet
  <2>4. QED
    BY <2>2, <2>3
<1>2. ASSUME NEW i \in I, NEW j \in I, i < j
      PROVE  Cardinality(UpTo(I, i)) < Cardinality(UpTo(I, j))
  <2>0. (\A x \in I : x <= i => x <= j) /\ j <= j /\ ~(j <= i)
    <3>1. i \in Nat /\ j \in Nat /\ \A x \in I : x \in Nat
      OBVIOUS
    <3>2. QED
      BY <1>2, <3>1
  <2>1. UpTo(I, i) \subseteq UpTo(I, j) /\ j \in UpTo(I, j) /\ j \notin UpTo(I, i)
    BY <2>0 DEF UpTo
  <2>2. /\ Cardinality(UpTo(I, i)) <= Cardinality(UpTo(I, j))
        /\ Cardinality(UpTo(I, i)) # Cardinality(UpTo(I, j))
    BY <1>1, <2>1, FS_Subset
  <2>3. QED
    BY <1>1, <2>2
<1>3. QED
  BY <1>1, <1>2

\* Every rank is taken.
LEMMA RanksAreTaken ==
    ASSUME NEW I \in SUBSET Nat, IsFiniteSet(I), NEW k \in 1..Cardinality(I)
    PROVE  \E i \in I : Cardinality(UpTo(I, i)) = k
<1> DEFINE n == Cardinality(I)
           K == {0} \cup {m \in 1..n : \E i \in I : Cardinality(UpTo(I, i)) = m}
<1>1. n \in Nat
  BY FS_CardinalityType
<1>2. ASSUME NEW m \in 1..n, m - 1 \in K
      PROVE  m \in K
  <2>1. CASE m = 1
    <3>1. I # {}
      BY <1>2, <2>1, FS_EmptySet
    <3>2. PICK i \in I : \A y \in I : i <= y
      BY <3>1, LeastNumber
    <3>3. UpTo(I, i) = {i}
      <4>1. \A x \in I : x \in Nat /\ (x <= i <=> x = i)
        BY <3>2
      <4>2. QED
        BY <4>1 DEF UpTo
    <3>4. QED
      BY <2>1, <3>3, FS_Singleton
  <2>2. CASE m # 1
    <3>1. PICK i \in I : Cardinality(UpTo(I, i)) = m - 1
      BY <1>2, <2>2
    <3> DEFINE R == {j \in I : i < j}
    <3>2. R # {}
      <4> SUFFICES ASSUME R = {} PROVE FALSE
        OBVIOUS
      <4>1. \A x \in I : x \in Nat /\ ~(i < x)
        OBVIOUS
      <4>4. \A x \in I : x <= i
        BY <4>1
      <4>3. UpTo(I, i) = I
        BY <4>4 DEF UpTo
      <4>2. QED
        BY <1>1, <3>1, <4>3
    <3>3. PICK j \in R : \A y \in R : j <= y
      BY <3>2, LeastNumber
    <3>4. UpTo(I, j) = UpTo(I, i) \cup {j} /\ j \notin UpTo(I, i)
      <4>1. \A x \in I : x \in Nat /\ (x <= j <=> x <= i \/ x = j)
        BY <3>3
      <4>2. j \in I /\ ~(j <= i)
        BY <3>3
      <4>3. QED
        BY <4>1, <4>2 DEF UpTo
    <3>5. IsFiniteSet(UpTo(I, i))
      <4>1. UpTo(I, i) \subseteq I
        BY DEF UpTo
      <4>2. QED
        BY <4>1, FS_Subset
    <3>6. Cardinality(UpTo(I, j)) = Cardinality(UpTo(I, i)) + 1
      BY <3>4, <3>5, FS_AddElement
    <3>8. Cardinality(UpTo(I, j)) = m
      BY <1>1, <3>1, <3>6
    <3>7. QED
      BY <3>8
  <2>3. QED
    BY <2>1, <2>2
<1>3. k \in K
  <2>1. k \in 0..n /\ 0 \in K
    OBVIOUS
  <2>2. QED
    <3> HIDE DEF K, n
    <3> QED BY <1>1, <1>2, <2>1, Induction
<1>4. QED
  BY <1>3

\* Ascending lists a set of positions, each once and in order.
LEMMA AscendingLists ==
    ASSUME NEW I \in SUBSET Nat, IsFiniteSet(I)
    PROVE  /\ Cardinality(I) \in Nat
           /\ DOMAIN Ascending(I) = 1..Cardinality(I)
           /\ \A k \in 1..Cardinality(I) : Ascending(I)[k] \in I
           /\ \A i \in I : \E k \in 1..Cardinality(I) : Ascending(I)[k] = i
           /\ \A k, l \in 1..Cardinality(I) : k < l => Ascending(I)[k] < Ascending(I)[l]
<1> DEFINE n == Cardinality(I)
<1>1. n \in Nat
  BY FS_CardinalityType
<1>2. \A k \in 1..n : Ascending(I)[k] = CHOOSE i \in I : Cardinality(UpTo(I, i)) = k
  BY DEF Ascending, UpTo
<1>3. ASSUME NEW k \in 1..n
      PROVE  /\ Ascending(I)[k] \in I
             /\ Cardinality(UpTo(I, Ascending(I)[k])) = k
  BY <1>2, RanksAreTaken
<1>4. ASSUME NEW i \in I
      PROVE  \E k \in 1..n : Ascending(I)[k] = i
  <2>1. Cardinality(UpTo(I, i)) \in 1..n
    BY RanksGrow
  <2>2. PICK k \in 1..n : Cardinality(UpTo(I, i)) = k
    BY <2>1
  <2> DEFINE j == Ascending(I)[k]
  <2>3. j \in I /\ Cardinality(UpTo(I, j)) = k
    BY <1>3
  <2>5. i \in Nat /\ j \in Nat
    <3> HIDE DEF j
    <3> QED BY <2>3
  <2>6. ~(i < j) /\ ~(j < i)
    <3> HIDE DEF j
    <3> QED BY <2>2, <2>3, <2>5, RanksGrow
  <2>7. Ascending(I)[k] = i
    BY <2>5, <2>6
  <2>4. QED
    BY <2>7
<1>5. ASSUME NEW k \in 1..n, NEW l \in 1..n, k < l
      PROVE  Ascending(I)[k] < Ascending(I)[l]
  <2> DEFINE i == Ascending(I)[k]
             j == Ascending(I)[l]
  <2>1. /\ i \in I /\ Cardinality(UpTo(I, i)) = k
        /\ j \in I /\ Cardinality(UpTo(I, j)) = l
    BY <1>3
  <2>2. i \in Nat /\ j \in Nat /\ k \in Nat /\ l \in Nat
    <3>1. k \in Nat /\ l \in Nat
      BY <1>1
    <3>2. QED
      <4> HIDE DEF i, j
      <4> QED BY <2>1, <3>1
  <2>3. ~(j < i) /\ i # j
    <3> HIDE DEF i, j
    <3> QED BY <1>5, <2>1, <2>2, RanksGrow
  <2>4. QED
    BY <2>2, <2>3
<1>6. DOMAIN Ascending(I) = 1..n
  BY DEF Ascending
<1>7. QED
  BY <1>1, <1>3, <1>4, <1>5, <1>6

\* A growing list of a set of positions is the ascending one.
ListsInOrder(I, n, g) ==
    /\ \A k \in 1..n : g[k] \in I
    /\ \A i \in I : \E k \in 1..n : g[k] = i
    /\ \A k, l \in 1..n : k < l => g[k] < g[l]

LEMMA AscendingIsUnique ==
    ASSUME NEW I \in SUBSET Nat, NEW n \in Nat, NEW g, ListsInOrder(I, n, g)
    PROVE  Cardinality(I) = n /\ \A k \in 1..n : Ascending(I)[k] = g[k]
<1> USE DEF ListsInOrder
<1>1. ASSUME NEW m \in 0..n, NEW T, T = {g[k] : k \in 1..m}
      PROVE  IsFiniteSet(T) /\ Cardinality(T) = m
  <2> DEFINE f == [k \in 1..m |-> g[k]]
  <2>1. 1..m \subseteq 1..n
    OBVIOUS
  <2>2. \A k, l \in 1..m : k # l => g[k] # g[l]
    <3> SUFFICES ASSUME NEW k \in 1..m, NEW l \in 1..m, k < l
                 PROVE  g[k] # g[l]
      OBVIOUS
    <3>1. g[k] < g[l] /\ g[k] \in Nat /\ g[l] \in Nat
      BY <2>1
    <3>2. QED
      BY <3>1
  <2>3. f \in [1..m -> T] /\ \A k \in 1..m : f[k] = g[k]
    BY <1>1
  <2>4. IsInjective(f)
    BY <2>2 DEF IsInjective
  <2>5. \A t \in T : \E k \in 1..m : f[k] = t
    BY <1>1
  <2> HIDE DEF f
  <2>6. f \in Bijection(1..m, T)
    BY <2>3, <2>4, <2>5 DEF Bijection, Injection, Surjection
  <2>7. ExistsBijection(1..m, T) /\ m \in Nat
    BY <2>6 DEF ExistsBijection
  <2>8. IsFiniteSet(T)
    BY <2>7, FS_NatBijection
  <2>9. QED
    BY <2>7, <2>8, FS_CountingElements
<1>2. IsFiniteSet(I) /\ Cardinality(I) = n
  <2>1. n \in 0..n
    OBVIOUS
  <2>2. I = {g[k] : k \in 1..n}
    <3>1. {g[k] : k \in 1..n} \subseteq I
      OBVIOUS
    <3>2. I \subseteq {g[k] : k \in 1..n}
      OBVIOUS
    <3>3. QED
      BY <3>1, <3>2
  <2>3. QED
    BY <1>1, <2>1, <2>2
<1>3. ASSUME NEW k \in 1..n
      PROVE  Cardinality(UpTo(I, g[k])) = k
  <2>1. UpTo(I, g[k]) = {g[l] : l \in 1..k}
    <3>1. /\ 1..k \subseteq 1..n /\ k \in Nat
          /\ \A l \in 1..n : g[l] \in Nat /\ g[l] \in I /\ l \in Nat
      <4>1. 1..k \subseteq 1..n /\ k \in Nat /\ \A l \in 1..n : l \in Nat
        OBVIOUS
      <4>2. \A l \in 1..n : g[l] \in Nat /\ g[l] \in I
        OBVIOUS
      <4>3. QED
        BY <4>1, <4>2
    <3>2. \A l \in 1..n : g[l] <= g[k] <=> l <= k
      <4> SUFFICES ASSUME NEW l \in 1..n
                   PROVE  g[l] <= g[k] <=> l <= k
        OBVIOUS
      <4>1. CASE l < k
        BY <3>1, <4>1
      <4>2. CASE l = k
        BY <3>1, <4>2
      <4>3. CASE k < l
        BY <3>1, <4>3
      <4>4. QED
        BY <3>1, <4>1, <4>2, <4>3
    <3>3. \A l \in 1..n : g[l] <= g[k] <=> l \in 1..k
      BY <3>2
    <3>4. \A i \in I : i <= g[k] <=> \E l \in 1..k : i = g[l]
      BY <3>1, <3>3
    <3>5. \A l \in 1..k : g[l] \in I
      BY <3>1
    <3>6. QED
      BY <3>4, <3>5 DEF UpTo
  <2>2. k \in 0..n
    OBVIOUS
  <2>3. QED
    BY <1>1, <2>1, <2>2
<1>4. ASSUME NEW k \in 1..n
      PROVE  Ascending(I)[k] = g[k]
  <2> DEFINE i == CHOOSE i \in I : Cardinality(UpTo(I, i)) = k
  <2>1. Ascending(I)[k] = i
    BY <1>2 DEF Ascending, UpTo
  <2>2. i \in I /\ Cardinality(UpTo(I, i)) = k
    BY <1>3
  <2>3. PICK l \in 1..n : g[l] = i
    BY <2>2
  <2>4. l = k
    BY <1>3, <2>2, <2>3
  <2>5. QED
    BY <2>1, <2>3, <2>4
<1>5. QED
  BY <1>2, <1>4

\* A filter keeps the entries at the given positions, each once.
LEMMA KeptEntries ==
    ASSUME NEW n \in Nat, NEW I \in SUBSET (1..n), NEW s
    PROVE  /\ IsFiniteSet(I) /\ Cardinality(I) \in Nat
           /\ DOMAIN Kept(s, I) = 1..Cardinality(I) /\ Len(Kept(s, I)) = Cardinality(I)
           /\ \A k \in 1..Cardinality(I) :
                 Ascending(I)[k] \in I /\ Kept(s, I)[k] = s[Ascending(I)[k]]
           /\ \A i \in I : \E k \in 1..Cardinality(I) :
                 Ascending(I)[k] = i /\ Kept(s, I)[k] = s[i]
           /\ Kept(s, I) = <<>> <=> I = {}
<1>1. IsFiniteSet(I)
  <2>1. IsFiniteSet(1..n) /\ I \subseteq 1..n
    BY FS_Interval
  <2>2. QED
    BY <2>1, FS_Subset
<1>2. I \subseteq Nat
  OBVIOUS
<1>3. Cardinality(I) \in Nat /\ DOMAIN Kept(s, I) = 1..Cardinality(I)
      /\ Len(Kept(s, I)) = Cardinality(I)
  BY <1>1, FS_CardinalityType DEF Kept
<1>4. \A k \in 1..Cardinality(I) : Kept(s, I)[k] = s[Ascending(I)[k]]
  BY DEF Kept
<1>5. Kept(s, I) = <<>> <=> Cardinality(I) = 0
  <2>1. Kept(s, I) = <<>> => Cardinality(I) = 0
    BY <1>3
  <2>2. Cardinality(I) = 0 => Kept(s, I) = <<>>
    BY DEF Kept
  <2>3. QED
    BY <2>1, <2>2
<1>6. QED
  <2>1. Cardinality(I) = 0 <=> I = {}
    BY <1>1, FS_EmptySet
  <2>2. /\ \A k \in 1..Cardinality(I) : Ascending(I)[k] \in I
        /\ \A i \in I : \E k \in 1..Cardinality(I) : Ascending(I)[k] = i
    BY <1>1, <1>2, AscendingLists
  <2>3. \A i \in I : \E k \in 1..Cardinality(I) :
                 Ascending(I)[k] = i /\ Kept(s, I)[k] = s[i]
    BY <1>4, <2>2
  <2>4. QED
    BY <1>1, <1>3, <1>4, <1>5, <2>1, <2>2, <2>3

-----------------------------------------------------------------------------
(* Items.                                                                  *)

Ids(items) == {items[i].id : i \in DOMAIN items}
IsList(items) == Len(items) \in Nat /\ DOMAIN items = 1..Len(items)

\* Removing repetitions loses no ID.
LEMMA DistinctKeepsIds ==
    ASSUME NEW items, IsList(items)
    PROVE  /\ IsList(Distinct(items))
           /\ Ids(Distinct(items)) = Ids(items)
           /\ Distinct(items) = <<>> <=> Len(items) = 0
           /\ Len(items) = 1 => Len(Distinct(items)) = 1
<1> DEFINE n == Len(items)
           I == {i \in DOMAIN items : \A j \in 1..(i - 1) : items[j].id # items[i].id}
<1>1. n \in Nat /\ DOMAIN items = 1..n
  BY DEF IsList
<1>2. I \in SUBSET (1..n) /\ Distinct(items) = Kept(items, I)
  BY <1>1 DEF Distinct
<1>3. ASSUME NEW i \in 1..n
      PROVE  \E j \in I : items[j].id = items[i].id
  <2> DEFINE T == {j \in 1..n : items[j].id = items[i].id}
  <2>1. T \in SUBSET Nat /\ T # {}
    OBVIOUS
  <2>2. PICK j \in T : \A y \in T : j <= y
    <3> HIDE DEF T
    <3> QED BY <2>1, LeastNumber
  <2>3. \A y \in 1..(j - 1) : y \in 1..n /\ ~(j <= y)
    BY <1>1
  <2>4. j \in I
    BY <1>1, <2>2, <2>3
  <2>5. QED
    BY <2>4
<1>4. I = {} <=> n = 0
  BY <1>1, <1>2, <1>3
<1>5. n = 1 => I = {1}
  BY <1>1, <1>2, <1>4
<1> HIDE DEF I, n
<1>6. /\ IsFiniteSet(I) /\ Cardinality(I) \in Nat
      /\ DOMAIN Kept(items, I) = 1..Cardinality(I)
      /\ Len(Kept(items, I)) = Cardinality(I)
      /\ \A k \in 1..Cardinality(I) :
            Ascending(I)[k] \in I /\ Kept(items, I)[k] = items[Ascending(I)[k]]
      /\ \A i \in I : \E k \in 1..Cardinality(I) :
            Ascending(I)[k] = i /\ Kept(items, I)[k] = items[i]
      /\ Kept(items, I) = <<>> <=> I = {}
  BY <1>1, <1>2, KeptEntries
<1>7. IsList(Distinct(items))
  BY <1>2, <1>6 DEF IsList
<1>8. Ids(Distinct(items)) \subseteq Ids(items)
  <2> SUFFICES ASSUME NEW k \in 1..Cardinality(I)
               PROVE  Kept(items, I)[k].id \in Ids(items)
    BY <1>2, <1>6 DEF Ids
  <2>1. Ascending(I)[k] \in 1..n /\ Kept(items, I)[k] = items[Ascending(I)[k]]
    BY <1>2, <1>6
  <2>2. QED
    BY <1>1, <2>1 DEF Ids
<1>9. Ids(items) \subseteq Ids(Distinct(items))
  <2> SUFFICES ASSUME NEW i \in 1..n
               PROVE  items[i].id \in Ids(Distinct(items))
    BY <1>1 DEF Ids
  <2>1. PICK j \in I : items[j].id = items[i].id
    BY <1>3
  <2>2. PICK k \in 1..Cardinality(I) : Kept(items, I)[k] = items[j]
    BY <1>6
  <2>3. QED
    BY <1>2, <1>6, <2>1, <2>2 DEF Ids
<1>10. n = 1 => Len(Distinct(items)) = 1
  BY <1>2, <1>5, <1>6, FS_Singleton
<1>11. QED
  BY <1>2, <1>4, <1>6, <1>7, <1>8, <1>9, <1>10 DEF n

\* The elements with a text that a selector matches.
Hits(selector, nodes) ==
    {i \in DOMAIN nodes : Matches(selector, nodes[i]) /\ nodes[i].text # ""}
TextsAt(nodes, I) == {nodes[i].text : i \in I}

\* The texts the selector finds are the texts of the page's elements.
LEMMA ListingReadsTexts ==
    ASSUME NEW selector, NEW nodes, IsList(nodes)
    PROVE  /\ IsList(Listing(selector, nodes))
           /\ Ids(Listing(selector, nodes)) = TextsAt(nodes, Hits(selector, nodes))
           /\ Listing(selector, nodes) = <<>> <=> Hits(selector, nodes) = {}
<1> DEFINE n == Len(nodes)
           hits == Hits(selector, nodes)
           kept == Kept(nodes, hits)
           texts == Texts(selector, nodes)
           plain == [i \in DOMAIN texts |-> Plain(texts[i])]
<1>1. n \in Nat /\ DOMAIN nodes = 1..n /\ hits \in SUBSET (1..n)
  BY DEF IsList, Hits
<1>2. texts = [i \in DOMAIN kept |-> kept[i].text]
  BY DEF Texts, Hits
<1> HIDE DEF n, hits
<1>3. /\ Cardinality(hits) \in Nat
      /\ DOMAIN kept = 1..Cardinality(hits) /\ Len(kept) = Cardinality(hits)
      /\ \A k \in 1..Cardinality(hits) :
            Ascending(hits)[k] \in hits /\ kept[k] = nodes[Ascending(hits)[k]]
      /\ \A i \in hits : \E k \in 1..Cardinality(hits) :
            Ascending(hits)[k] = i /\ kept[k] = nodes[i]
      /\ kept = <<>> <=> hits = {}
  BY <1>1, KeptEntries
<1> HIDE DEF kept, texts
<1>4. /\ DOMAIN plain = 1..Cardinality(hits)
      /\ \A k \in 1..Cardinality(hits) : plain[k] = Plain(kept[k].text)
  BY <1>2, <1>3
<1>5. IsList(plain) /\ Len(plain) = Cardinality(hits)
  BY <1>2, <1>3 DEF IsList
<1>6. Listing(selector, nodes) = Distinct(plain)
  <2>1. texts = Texts(selector, nodes)
    BY DEF texts
  <2>2. plain = [i \in DOMAIN Texts(selector, nodes) |-> Plain(Texts(selector, nodes)[i])]
    BY <2>1
  <2> HIDE DEF plain
  <2>3. QED
    BY <2>2 DEF Listing
<1> HIDE DEF plain
<1>7. \A k \in 1..Cardinality(hits) : plain[k].id = kept[k].text
  <2>1. ASSUME NEW text PROVE Plain(text).id = text
    BY DEF Plain, Item
  <2>2. QED
    BY <1>4, <2>1
<1>8. Ids(plain) = {nodes[i].text : i \in hits}
  <2>1. Ids(plain) \subseteq {nodes[i].text : i \in hits}
    BY <1>3, <1>4, <1>7 DEF Ids
  <2>2. {nodes[i].text : i \in hits} \subseteq Ids(plain)
    BY <1>3, <1>4, <1>7 DEF Ids
  <2>3. QED
    BY <2>1, <2>2
<1>9. hits = {} <=> Cardinality(hits) = 0
  BY <1>1, KeptEntries, FS_EmptySet
<1>10. QED
  BY <1>5, <1>6, <1>8, <1>9, DistinctKeepsIds DEF hits, TextsAt

-----------------------------------------------------------------------------
(* Notices.                                                                *)

\* The first n of a list, all of it if it is no longer.
LEMMA FirstOfList ==
    ASSUME NEW items, IsList(items), NEW n \in Nat
    PROVE  /\ IsList(FirstOf(items, n))
           /\ Len(FirstOf(items, n)) = IF Len(items) < n THEN Len(items) ELSE n
           /\ \A i \in DOMAIN FirstOf(items, n) : i \in DOMAIN items /\ FirstOf(items, n)[i] = items[i]
           /\ Ids(FirstOf(items, n)) \subseteq Ids(items)
           /\ Len(items) <= n => Ids(FirstOf(items, n)) = Ids(items)
<1> DEFINE S == {items[i] : i \in DOMAIN items}
           m == IF Len(items) < n THEN Len(items) ELSE n
<1>1. /\ m \in Nat /\ m <= Len(items) /\ 1 \in Int /\ m \in Int
      /\ DOMAIN items = 1..Len(items) /\ Len(items) \in Nat
  BY DEF IsList
<1>2. \A i \in 1..m : items[i] \in S
  BY <1>1
<1>3. FirstOf(items, n) = SubSeq(items, 1, m)
  BY DEF FirstOf
<1> HIDE DEF S, m
<1>4. /\ SubSeq(items, 1, m) \in Seq(S)
      /\ Len(SubSeq(items, 1, m)) = IF 1 <= m THEN m - 1 + 1 ELSE 0
      /\ \A i \in 1..(m - 1 + 1) : SubSeq(items, 1, m)[i] = items[1 + i - 1]
  BY <1>1, <1>2, SubSeqProperties
<1>5. /\ Len(FirstOf(items, n)) = m
      /\ \A i \in 1..m : FirstOf(items, n)[i] = items[i]
  BY <1>1, <1>3, <1>4
<1>6. DOMAIN FirstOf(items, n) = 1..m
  BY <1>3, <1>4, <1>5, LenProperties
<1>7. \A i \in 1..m : i \in DOMAIN items
  BY <1>1
<1>8. Ids(FirstOf(items, n)) \subseteq Ids(items)
  <2> SUFFICES ASSUME NEW k \in 1..m
               PROVE  FirstOf(items, n)[k].id \in Ids(items)
    BY <1>6 DEF Ids
  <2>1. FirstOf(items, n)[k] = items[k] /\ k \in DOMAIN items
    BY <1>5, <1>7
  <2>2. QED
    BY <2>1 DEF Ids
<1>9. Len(items) <= n => m = Len(items)
  <2>1. Len(items) \in Nat
    BY <1>1
  <2>2. QED
    BY <2>1 DEF m
<1>10. Len(items) <= n => Ids(FirstOf(items, n)) = Ids(items)
  BY <1>1, <1>5, <1>6, <1>9 DEF Ids
<1>11. \A i \in DOMAIN FirstOf(items, n) : i \in DOMAIN items /\ FirstOf(items, n)[i] = items[i]
  BY <1>5, <1>6, <1>7
<1>12. QED
  BY <1>1, <1>5, <1>6, <1>8, <1>10, <1>11 DEF IsList, m

\* A list as a notice shows it: no other items, one at least, all up to limits.
Shows(shown, items, full) ==
    /\ Ids(shown) \subseteq Ids(items)
    /\ Len(items) # 0 => shown # <<>>
    /\ Ids(shown) = Ids(items) \/ Len(shown) = MaxListed \/ full

\* What a notice without a summary owes the reader of a difference.
Names(notice, added, removed) ==
    /\ notice.told /\ notice.told \in BOOLEAN
    /\ notice.summary = <<>>
    /\ Shows(notice.added, added, Len(notice.added) = MaxLines)
    /\ Shows(notice.removed, removed,
             Len(notice.added) + Len(notice.removed) >= MaxLines)
    /\ notice.counts[1] = Len(added)
    /\ notice.counts[2] = Len(removed)

LEMMA NoticeFields ==
    ASSUME NEW added, NEW removed, NEW counts
    PROVE  LET n == Notice(added, removed, counts)
           IN  /\ n.told /\ n.told \in BOOLEAN /\ n.summary = <<>>
               /\ n.added = added /\ n.removed = removed /\ n.counts = counts
BY DEF Notice, Silence

LEMMA NothingListed == IsList(<<>>) /\ Ids(<<>>) = {} /\ Len(<<>>) = 0
BY DEF IsList, Ids

\* A list cut at MaxListed, and then for the room in the body.
LEMMA ListIsCut ==
    ASSUME NEW items, IsList(items), NEW room \in Nat \ {0}
    PROVE  LET shown == FirstOf(FirstOf(items, MaxListed), room)
           IN  IsList(shown) /\ Len(shown) <= room /\ Shows(shown, items, Len(shown) = room)
<1> DEFINE first == FirstOf(items, MaxListed)
           shown == FirstOf(first, room)
<1>1. /\ IsList(first) /\ Ids(first) \subseteq Ids(items)
      /\ Len(first) = IF Len(items) < MaxListed THEN Len(items) ELSE MaxListed
      /\ Len(items) <= MaxListed => Ids(first) = Ids(items)
  BY FirstOfList DEF NoticesAssumption
<1> HIDE DEF first
<1>2. /\ IsList(shown) /\ Ids(shown) \subseteq Ids(first)
      /\ Len(shown) = IF Len(first) < room THEN Len(first) ELSE room
      /\ Len(first) <= room => Ids(shown) = Ids(first)
  BY <1>1, FirstOfList
<1> HIDE DEF shown
<1>3. /\ Len(items) \in Nat /\ Len(first) \in Nat /\ Len(<<>>) = 0
      /\ MaxListed \in Nat /\ MaxListed >= 1 /\ room \in Nat /\ room >= 1
  BY <1>1 DEF IsList, NoticesAssumption
<1>4. /\ Len(shown) <= room
      /\ Len(items) # 0 => shown # <<>>
  BY <1>1, <1>2, <1>3
<1>5. Ids(shown) = Ids(items) \/ Len(shown) = MaxListed \/ Len(shown) = room
  BY <1>1, <1>2, <1>3
<1>6. QED
  BY <1>1, <1>2, <1>4, <1>5 DEF Shows, shown, first

LEMMA ListDiffNames ==
    ASSUME NEW added, IsList(added), NEW removed, IsList(removed)
    PROVE  Names(ListDiff(added, removed), added, removed)
<1> DEFINE listed == FirstOf(FirstOf(added, MaxListed), MaxLines)
           room   == IF Len(listed) < MaxLines THEN MaxLines - Len(listed) ELSE 1
           gone   == FirstOf(FirstOf(removed, MaxListed), room)
           counts == <<Len(added), Len(removed)>>
<1>1. ListDiff(added, removed) = Notice(listed, gone, counts)
  BY DEF ListDiff
<1>2. IsList(listed) /\ Len(listed) <= MaxLines /\ Shows(listed, added, Len(listed) = MaxLines)
  BY ListIsCut DEF NoticesAssumption
<1> HIDE DEF listed
<1>3. room \in Nat \ {0} /\ Len(listed) \in Nat /\ Len(listed) + room >= MaxLines
  <2>1. Len(listed) \in Nat /\ MaxLines \in Nat /\ MaxLines # 0
    BY <1>2 DEF NoticesAssumption, IsList
  <2>2. QED
    BY <2>1
<1> HIDE DEF room
<1>4. IsList(gone) /\ Shows(gone, removed, Len(gone) = room)
  BY <1>3, ListIsCut
<1> HIDE DEF gone
<1>5. Shows(gone, removed, Len(listed) + Len(gone) >= MaxLines)
  BY <1>3, <1>4 DEF Shows
<1>6. counts[1] = Len(added) /\ counts[2] = Len(removed)
  OBVIOUS
<1> HIDE DEF counts
<1> DEFINE n == Notice(listed, gone, counts)
<1>7. /\ n.told /\ n.told \in BOOLEAN /\ n.summary = <<>>
      /\ n.added = listed /\ n.removed = gone /\ n.counts = counts
  BY NoticeFields
<1> HIDE DEF n
<1>8. Names(n, added, removed)
  BY <1>2, <1>5, <1>6, <1>7 DEF Names
<1>9. QED
  BY <1>1, <1>8 DEF n

\* At most one value is shown whole.
LEMMA ValueIsShown ==
    ASSUME NEW items, IsList(items), Len(items) <= 1, NEW full
    PROVE  Shows(FirstOf(items, 1), items, full)
<1>1. /\ Ids(FirstOf(items, 1)) = Ids(items)
      /\ Len(FirstOf(items, 1)) = IF Len(items) < 1 THEN Len(items) ELSE 1
  BY FirstOfList
<1>2. Len(items) # 0 => FirstOf(items, 1) # <<>>
  <2>1. Len(items) \in Nat /\ Len(<<>>) = 0
    BY DEF IsList
  <2>2. QED
    BY <1>1, <2>1
<1>3. QED
  BY <1>1, <1>2 DEF Shows

LEMMA FromToNames ==
    ASSUME NEW added, IsList(added), Len(added) <= 1,
           NEW removed, IsList(removed), Len(removed) <= 1
    PROVE  Names(FromTo(added, removed), added, removed)
<1> DEFINE new == FirstOf(added, 1)
           old == FirstOf(removed, 1)
           counts == <<Len(added), Len(removed)>>
<1>1. FromTo(added, removed) = Notice(new, old, counts)
  BY DEF FromTo
<1>2. /\ Shows(new, added, Len(new) = MaxLines)
      /\ Shows(old, removed, Len(new) + Len(old) >= MaxLines)
  BY ValueIsShown
<1> HIDE DEF new, old
<1>3. counts[1] = Len(added) /\ counts[2] = Len(removed)
  OBVIOUS
<1> HIDE DEF counts
<1> DEFINE n == Notice(new, old, counts)
<1>4. /\ n.told /\ n.told \in BOOLEAN /\ n.summary = <<>>
      /\ n.added = new /\ n.removed = old /\ n.counts = counts
  BY NoticeFields
<1> HIDE DEF n
<1>5. Names(n, added, removed)
  BY <1>2, <1>3, <1>4 DEF Names
<1>6. QED
  BY <1>1, <1>5 DEF n

\* The blocks the summarizer reads of a reply, and what it may take for the
\* answer that nothing changed.
ReadOf(src, reply) ==
    {i \in DOMAIN reply.blocks :
        /\ reply.blocks[i].text # ""
        /\ CASE src.provider = "responses" -> reply.blocks[i].type = "output_text"
             [] src.provider = "anthropic" -> reply.blocks[i].type = "text"
             [] OTHER                      -> i = 1}
SaidIn(src, reply, words) == {i \in ReadOf(src, reply) : reply.blocks[i].text \in words}
Waves(src, reply) ==
    /\ src.provider # "none" /\ reply.outcome = "answer"
    /\ \/ SaidIn(src, reply, Sentinels) # {}
       \/ /\ SaidIn(src, reply, Contrasts) = {}
          /\ \E i \in SaidIn(src, reply, Openers) : \A j \in ReadOf(src, reply) : i <= j

\* The texts of the blocks at the positions in R, in order.
TextsOf(reply, R, texts) ==
    /\ IsFiniteSet(R) /\ Cardinality(R) \in Nat /\ R \in SUBSET Nat
    /\ DOMAIN texts = 1..Cardinality(R) /\ Len(texts) = Cardinality(R)
    /\ Cardinality(R) = 0 => texts = <<>>
    /\ \A k \in 1..Cardinality(R) :
          Ascending(R)[k] \in R /\ texts[k] = reply.blocks[Ascending(R)[k]].text

LEMMA BlockTextsInOrder ==
    ASSUME NEW reply, IsList(reply.blocks), NEW types
    PROVE  TextsOf(reply, {i \in DOMAIN reply.blocks : reply.blocks[i].type \in types
                                                      /\ reply.blocks[i].text # ""},
                  BlockTexts(reply, types))
<1> DEFINE n == Len(reply.blocks)
           I == {i \in DOMAIN reply.blocks :
                    reply.blocks[i].type \in types /\ reply.blocks[i].text # ""}
           kept == Kept(reply.blocks, I)
           texts == BlockTexts(reply, types)
<1>1. n \in Nat /\ DOMAIN reply.blocks = 1..n /\ I \in SUBSET (1..n) /\ I \in SUBSET Nat
  <2>1. n \in Nat /\ DOMAIN reply.blocks = 1..n
    BY DEF IsList
  <2>2. I \in SUBSET (1..n)
    BY <2>1
  <2> HIDE DEF I, n
  <2>3. QED
    BY <2>1, <2>2
<1>2. texts = [k \in DOMAIN kept |-> kept[k].text]
  BY DEF BlockTexts
<1> HIDE DEF I, n
<1>3. /\ IsFiniteSet(I) /\ Cardinality(I) \in Nat /\ DOMAIN kept = 1..Cardinality(I)
      /\ \A k \in 1..Cardinality(I) :
            Ascending(I)[k] \in I /\ kept[k] = reply.blocks[Ascending(I)[k]]
  BY <1>1, KeptEntries
<1> HIDE DEF kept, texts
<1>4. /\ DOMAIN texts = 1..Cardinality(I) /\ Len(texts) = Cardinality(I)
      /\ Cardinality(I) = 0 => texts = <<>>
  BY <1>2, <1>3
<1>5. QED
  BY <1>1, <1>2, <1>3, <1>4 DEF TextsOf, I, texts

\* A filter that keeps everything changes nothing.
LEMMA KeptWhole ==
    ASSUME NEW m \in Nat, NEW s
    PROVE  /\ Cardinality(1..m) = m
           /\ DOMAIN Kept(s, 1..m) = 1..m /\ Len(Kept(s, 1..m)) = m
           /\ m = 0 => Kept(s, 1..m) = <<>>
           /\ \A k \in 1..m : Kept(s, 1..m)[k] = s[k]
<1> DEFINE g == [k \in 1..m |-> k]
<1>1. ListsInOrder(1..m, m, g)
  BY DEF ListsInOrder
<1>2. 1..m \in SUBSET Nat
  OBVIOUS
<1>3. Cardinality(1..m) = m /\ \A k \in 1..m : Ascending(1..m)[k] = g[k]
  BY <1>1, <1>2, AscendingIsUnique
<1>4. /\ DOMAIN Kept(s, 1..m) = 1..m /\ Len(Kept(s, 1..m)) = m
      /\ m = 0 => Kept(s, 1..m) = <<>>
      /\ \A k \in 1..m : Kept(s, 1..m)[k] = s[Ascending(1..m)[k]]
  BY <1>3 DEF Kept
<1>5. QED
  BY <1>3, <1>4

\* The summary is what is read of the reply, in order.
LEMMA SummaryIsRead ==
    ASSUME NEW src, NEW reply, IsList(reply.blocks), reply.outcome = "answer"
    PROVE  TextsOf(reply, ReadOf(src, reply), Summarize(src, reply))
<1> DEFINE R == ReadOf(src, reply)
           first == FirstOf([i \in DOMAIN reply.blocks |-> reply.blocks[i].text], 1)
           Parts(texts) == Kept(texts, {i \in DOMAIN texts : texts[i] # ""})
<1>1. Summarize(src, reply) =
          CASE src.provider = "responses" -> Parts(BlockTexts(reply, {"output_text"}))
            [] src.provider = "anthropic" -> Parts(BlockTexts(reply, {"text"}))
            [] OTHER                      -> Parts(first)
  BY DEF Summarize, SummarizeOpenAI, SummarizeResponses, SummarizeAnthropic
<1>2. ASSUME NEW type,
             R = {i \in DOMAIN reply.blocks : reply.blocks[i].type \in {type}
                                              /\ reply.blocks[i].text # ""}
      PROVE  TextsOf(reply, R, Parts(BlockTexts(reply, {type})))
  <2> DEFINE texts == BlockTexts(reply, {type})
             m == Cardinality(R)
  <2>1. TextsOf(reply, R, texts)
    BY <1>2, BlockTextsInOrder
  <2>2. \A i \in R : reply.blocks[i].text # ""
    BY <1>2
  <2> HIDE DEF R, texts
  <2>3. {i \in DOMAIN texts : texts[i] # ""} = 1..m /\ m \in Nat
    BY <2>1, <2>2 DEF TextsOf
  <2>4. Parts(texts) = Kept(texts, 1..m)
    BY <2>3
  <2> HIDE DEF Parts, m
  <2>5. /\ DOMAIN Parts(texts) = 1..m /\ Len(Parts(texts)) = m
        /\ m = 0 => Parts(texts) = <<>>
        /\ \A k \in 1..m : Parts(texts)[k] = texts[k]
    <3>1. /\ DOMAIN Kept(texts, 1..m) = 1..m /\ Len(Kept(texts, 1..m)) = m
          /\ m = 0 => Kept(texts, 1..m) = <<>>
          /\ \A k \in 1..m : Kept(texts, 1..m)[k] = texts[k]
      BY <2>3, KeptWhole
    <3>2. QED
      BY <2>4, <3>1
  <2>6. QED
    BY <2>1, <2>5 DEF TextsOf, m, texts
<1>3. CASE src.provider = "responses"
  <2>1. R = {i \in DOMAIN reply.blocks : reply.blocks[i].type \in {"output_text"}
                                         /\ reply.blocks[i].text # ""}
    BY <1>3 DEF ReadOf
  <2>2. Summarize(src, reply) = Parts(BlockTexts(reply, {"output_text"}))
    BY <1>1, <1>3
  <2> HIDE DEF R, Parts
  <2>3. QED
    BY <1>2, <2>1, <2>2 DEF R
<1>4. CASE src.provider = "anthropic"
  <2>1. R = {i \in DOMAIN reply.blocks : reply.blocks[i].type \in {"text"}
                                         /\ reply.blocks[i].text # ""}
    BY <1>4 DEF ReadOf
  <2>2. Summarize(src, reply) = Parts(BlockTexts(reply, {"text"}))
    BY <1>1, <1>4
  <2> HIDE DEF R, Parts
  <2>3. QED
    BY <1>2, <2>1, <2>2 DEF R
<1>5. CASE src.provider \notin {"responses", "anthropic"}
  <2> DEFINE all == [i \in DOMAIN reply.blocks |-> reply.blocks[i].text]
             n == Len(reply.blocks)
             J == {i \in DOMAIN first : first[i] # ""}
  <2>1. Summarize(src, reply) = Kept(first, J)
    BY <1>1, <1>5
  <2>2. R = {i \in DOMAIN reply.blocks : reply.blocks[i].text # "" /\ i = 1}
    BY <1>5 DEF ReadOf
  <2>3. n \in Nat /\ DOMAIN reply.blocks = 1..n /\ IsList(all) /\ Len(all) = n
        /\ DOMAIN all = 1..n /\ \A i \in 1..n : all[i] = reply.blocks[i].text
    BY DEF IsList
  <2>4. first = FirstOf(all, 1)
    OBVIOUS
  <2> HIDE DEF all, first
  <2>5. /\ IsList(first) /\ Len(first) = IF n < 1 THEN n ELSE 1
        /\ \A i \in DOMAIN first : i \in DOMAIN all /\ first[i] = all[i]
    <3>1. IsList(all) /\ Len(all) = n
      BY <2>3
    <3> HIDE DEF n
    <3>2. QED
      BY <2>4, <3>1, FirstOfList
  <2>6. /\ DOMAIN first = 1..Len(first)
        /\ \A i \in DOMAIN first : i = 1 /\ i \in 1..n /\ first[i] = reply.blocks[i].text
        /\ 1 \in 1..n => 1 \in DOMAIN first
    BY <2>3, <2>5 DEF IsList
  <2>7. J = R
    <3>1. J \subseteq R
      BY <2>2, <2>3, <2>6
    <3>2. R \subseteq J
      BY <2>2, <2>3, <2>6
    <3>3. QED
      BY <3>1, <3>2
  <2>8. Len(first) \in Nat /\ J \in SUBSET (1..Len(first)) /\ J \in SUBSET Nat
    <3>1. Len(first) \in Nat /\ J \in SUBSET (1..Len(first))
      BY <2>5, <2>6 DEF IsList
    <3> HIDE DEF J
    <3>2. QED
      BY <3>1
  <2>9. \A i \in J : first[i] = reply.blocks[i].text
    BY <2>6
  <2> HIDE DEF J, R
  <2>10. /\ IsFiniteSet(J) /\ Cardinality(J) \in Nat
         /\ DOMAIN Kept(first, J) = 1..Cardinality(J) /\ Len(Kept(first, J)) = Cardinality(J)
         /\ \A k \in 1..Cardinality(J) :
               Ascending(J)[k] \in J /\ Kept(first, J)[k] = first[Ascending(J)[k]]
         /\ Cardinality(J) = 0 => Kept(first, J) = <<>>
    <3>1. Cardinality(J) = 0 => Kept(first, J) = <<>>
      BY DEF Kept
    <3>2. QED
      BY <2>8, <3>1, KeptEntries
  <2>11. QED
    BY <2>1, <2>7, <2>8, <2>9, <2>10 DEF TextsOf, R
<1>6. QED
  BY <1>3, <1>4, <1>5

\* The summary is the answer that nothing changed exactly if the reply waves.
LEMMA VerdictIsRead ==
    ASSUME NEW src, src.provider # "none", NEW reply, IsList(reply.blocks),
           reply.outcome = "answer"
    PROVE  LET summary == Summarize(src, reply)
           IN  Waves(src, reply) <=> summary # <<>> /\ IsNoMeaningfulChange(summary)
<1> DEFINE summary == Summarize(src, reply)
           R == ReadOf(src, reply)
           n == Cardinality(R)
           at == Ascending(R)
           text == [i \in R |-> reply.blocks[i].text]
<1>1. /\ IsFiniteSet(R) /\ n \in Nat /\ R \in SUBSET Nat
      /\ DOMAIN summary = 1..n /\ Len(summary) = n /\ (n = 0 => summary = <<>>)
      /\ \A k \in 1..n : at[k] \in R /\ summary[k] = text[at[k]]
  BY SummaryIsRead DEF TextsOf
<1>2. /\ \A i \in R : \E k \in 1..n : at[k] = i
      /\ \A k, l \in 1..n : k < l => at[k] < at[l]
  BY <1>1, AscendingLists
<1> HIDE DEF summary, R, n, at, text
<1>3. \A words : (\E i \in R : text[i] \in words) <=> \E k \in 1..n : summary[k] \in words
  <2> SUFFICES ASSUME NEW words
               PROVE  (\E i \in R : text[i] \in words) <=> \E k \in 1..n : summary[k] \in words
    OBVIOUS
  <2>1. ASSUME NEW i \in R, text[i] \in words
        PROVE  \E k \in 1..n : summary[k] \in words
    <3>1. PICK k \in 1..n : at[k] = i
      BY <1>2
    <3>2. QED
      BY <1>1, <2>1, <3>1
  <2>2. ASSUME NEW k \in 1..n, summary[k] \in words
        PROVE  \E i \in R : text[i] \in words
    BY <1>1, <2>2
  <2>3. QED
    BY <2>1, <2>2
<1>4. summary # <<>> <=> n # 0
  <2>1. Len(<<>>) = 0
    OBVIOUS
  <2>2. QED
    BY <1>1, <2>1
<1>5. ASSUME n # 0
      PROVE  1 \in 1..n /\ \A i \in R : at[1] <= i
  <2>1. 1 \in 1..n
    BY <1>1, <1>5
  <2>2. ASSUME NEW i \in R
        PROVE  at[1] <= i
    <3>1. PICK k \in 1..n : at[k] = i
      BY <1>2
    <3>2. at[1] \in Nat
      BY <1>1, <2>1
    <3>3. i \in Nat
      BY <1>1
    <3>4. k = 1 \/ 1 < k
      BY <1>1
    <3>5. at[1] = i \/ at[1] < i
      BY <1>2, <2>1, <3>1, <3>4
    <3>6. QED
      BY <3>2, <3>3, <3>5
  <2>3. QED
    BY <2>1, <2>2
<1>6. \A words : (\E i \in R : text[i] \in words /\ \A j \in R : i <= j)
                 <=> n # 0 /\ summary[1] \in words
  <2> SUFFICES ASSUME NEW words
               PROVE  (\E i \in R : text[i] \in words /\ \A j \in R : i <= j)
                      <=> n # 0 /\ summary[1] \in words
    OBVIOUS
  <2>1. ASSUME NEW i \in R, text[i] \in words, \A j \in R : i <= j
        PROVE  n # 0 /\ summary[1] \in words
    <3>1. PICK k \in 1..n : at[k] = i
      BY <1>2
    <3>2. n # 0
      BY <1>1, <3>1
    <3>3. at[1] \in R /\ at[1] <= i /\ i <= at[1]
      BY <1>1, <1>5, <2>1, <3>2
    <3>4. at[1] = i
      <4>1. at[1] \in Nat /\ i \in Nat
        BY <1>1, <3>3
      <4>2. QED
        BY <3>3, <4>1
    <3>5. QED
      BY <1>1, <1>5, <2>1, <3>2, <3>4
  <2>2. ASSUME n # 0, summary[1] \in words
        PROVE  \E i \in R : text[i] \in words /\ \A j \in R : i <= j
    <3>1. at[1] \in R /\ summary[1] = text[at[1]]
      BY <1>1, <1>5, <2>2
    <3>2. QED
      BY <1>5, <2>2, <3>1
  <2>3. QED
    BY <2>1, <2>2
<1>7. Waves(src, reply) <=>
          \/ \E i \in R : text[i] \in Sentinels
          \/ /\ ~ \E i \in R : text[i] \in Contrasts
             /\ \E i \in R : text[i] \in Openers /\ \A j \in R : i <= j
  BY DEF Waves, SaidIn, R, text
<1>8. IsNoMeaningfulChange(summary) <=>
          \/ \E k \in 1..n : summary[k] \in Sentinels
          \/ summary[1] \in Openers /\ ~ \E k \in 1..n : summary[k] \in Contrasts
  BY <1>1 DEF IsNoMeaningfulChange
<1>9. (\E k \in 1..n : summary[k] \in Sentinels) => n # 0
  BY <1>1
<1>10. QED
  BY <1>3, <1>4, <1>6, <1>7, <1>8, <1>9 DEF summary

\* Whatever the model replies, page_llm's notice shows the old text and the
\* new one or a summary, and nothing exactly if the reply waves.
LEMMA FormatPageIsFair ==
    ASSUME NEW src, NEW reply, IsList(reply.blocks),
           NEW added, IsList(added), Len(added) <= 1,
           NEW removed, IsList(removed), Len(removed) <= 1
    PROVE  LET n == FormatPage(src, added, removed, reply)
           IN  IF Waves(src, reply) THEN n = Silence
               ELSE \/ Names(n, added, removed)
                    \/ n.told /\ n.told \in BOOLEAN /\ n.summary # <<>>
<1> DEFINE summary == Summarize(src, reply)
           told    == [Silence EXCEPT !.told = TRUE, !.summary = summary]
           n       == FormatPage(src, added, removed, reply)
<1>1. n = IF src.provider = "none" \/ summary = <<>> THEN FromTo(added, removed)
          ELSE IF IsNoMeaningfulChange(summary) THEN Silence ELSE told
  BY DEF FormatPage
<1>2. told.told /\ told.told \in BOOLEAN /\ told.summary = summary
  <2> HIDE DEF summary
  <2> QED BY DEF Silence
<1>3. Names(FromTo(added, removed), added, removed)
  BY FromToNames
<1>4. reply.outcome # "answer" => summary = <<>>
  BY DEF Summarize
<1> HIDE DEF summary, told, n
<1>5. Waves(src, reply) <=> /\ src.provider # "none" /\ summary # <<>>
                            /\ IsNoMeaningfulChange(summary)
  <2>1. CASE src.provider = "none" \/ reply.outcome # "answer"
    BY <1>4, <2>1 DEF Waves
  <2>2. CASE src.provider # "none" /\ reply.outcome = "answer"
    BY <2>2, VerdictIsRead DEF summary
  <2>3. QED
    BY <2>1, <2>2
<1>6. QED
  BY <1>1, <1>2, <1>3, <1>5 DEF n

SourceTypes == {"html", "page_llm", "json", "json_value", "nfvl", "amazon",
                "github_trending", "github_file"}
SingleTypes == {"page_llm", "json_value", "amazon", "github_file"}

\* The removals a type's notices speak of.
Reported(src, removed) ==
    IF src.type \in {"github_trending", "github_file"} THEN <<>> ELSE removed

\* A notice names and counts the difference, up to its limits; only page_llm
\* may stay silent, exactly when a model waved the difference through.
LEMMA FormatIsFair ==
    ASSUME NEW src, src.type \in SourceTypes,
           NEW reply, src.type = "page_llm" => IsList(reply.blocks),
           NEW added, IsList(added), src.type \in SingleTypes => Len(added) <= 1,
           NEW removed, IsList(removed), src.type \in SingleTypes => Len(removed) <= 1
    PROVE  LET n == Format(src, added, removed, reply)
           IN  IF src.type = "page_llm" /\ Waves(src, reply) THEN n = Silence
               ELSE \/ Names(n, added, Reported(src, removed))
                    \/ n.told /\ n.told \in BOOLEAN /\ n.summary # <<>>
<1> DEFINE n == Format(src, added, removed, reply)
<1>1. IsList(<<>>) /\ Ids(<<>>) = {} /\ Len(<<>>) = 0
  BY NothingListed
<1>2. CASE src.type \in {"html", "json", "nfvl"}
  <2>1. n = ListDiff(added, removed) /\ Reported(src, removed) = removed
    BY <1>2 DEF Format, Reported
  <2>2. QED
    BY <1>2, <2>1, ListDiffNames
<1>3. CASE src.type \in {"github_trending", "github_file"}
  <2> DEFINE listed == FirstOf(FirstOf(added, MaxListed), MaxLines)
             shown  == IF src.type = "github_file" THEN listed ELSE added
             counts == <<Len(added), 0>>
  <2>1. n = Notice(shown, <<>>, counts) /\ Reported(src, removed) = <<>>
    BY <1>3 DEF Format, FormatTrending, FormatFile, Reported
  <2>2. Shows(listed, added, Len(listed) = MaxLines)
    BY ListIsCut DEF NoticesAssumption
  <2>3. Shows(added, added, Len(added) = MaxLines)
    <3>1. Len(<<>>) = 0
      OBVIOUS
    <3>2. QED
      BY <3>1 DEF Shows
  <2>4. Shows(shown, added, Len(shown) = MaxLines)
    <3> HIDE DEF listed
    <3>1. QED
      BY <2>2, <2>3
  <2>5. \A full : Shows(<<>>, <<>>, full)
    BY <1>1 DEF Shows
  <2>6. counts[1] = Len(added) /\ counts[2] = 0
    OBVIOUS
  <2> HIDE DEF shown, counts, n
  <2>7. /\ n.told /\ n.told \in BOOLEAN /\ n.summary = <<>> /\ n.added = shown /\ n.removed = <<>>
        /\ n.counts = counts
    BY <2>1, NoticeFields
  <2>8. Names(n, added, <<>>)
    BY <1>1, <2>4, <2>5, <2>6, <2>7 DEF Names
  <2>9. QED
    BY <1>3, <2>1, <2>8 DEF n
<1>4. CASE src.type \in {"json_value", "amazon"}
  <2>1. Len(added) <= 1 /\ Len(removed) <= 1
    BY <1>4 DEF SingleTypes
  <2>2. n = FromTo(added, removed) /\ Reported(src, removed) = removed
    BY <1>4 DEF Format, Reported
  <2>3. QED
    BY <1>4, <2>1, <2>2, FromToNames
<1>5. CASE src.type = "page_llm"
  <2>1. Len(added) <= 1 /\ Len(removed) <= 1
    BY <1>5 DEF SingleTypes
  <2>2. n = FormatPage(src, added, removed, reply) /\ Reported(src, removed) = removed
    BY <1>5 DEF Format, Reported
  <2>3. QED
    BY <1>5, <2>1, <2>2, FormatPageIsFair
<1>6. QED
  BY <1>2, <1>3, <1>4, <1>5 DEF SourceTypes

-----------------------------------------------------------------------------
(* Sequences of a set's elements, and sequences after one another.         *)

LEMMA SetToSeqLists ==
    ASSUME NEW S, IsFiniteSet(S)
    PROVE  /\ Cardinality(S) \in Nat
           /\ SetToSeq(S) \in [1..Cardinality(S) -> S] /\ SetToSeq(S) \in Seq(S)
           /\ Len(SetToSeq(S)) = Cardinality(S)
           /\ \A x \in S : \E k \in 1..Cardinality(S) : SetToSeq(S)[k] = x
           /\ \A k, l \in 1..Cardinality(S) : SetToSeq(S)[k] = SetToSeq(S)[l] => k = l
<1> DEFINE n == Cardinality(S)
           s == SetToSeq(S)
<1>1. PICK f \in Bijection(1..n, S) : TRUE
  BY FS_CardinalityType DEF ExistsBijection
<1>2. f \in [1..n -> S] /\ IsInjective(f)
  BY <1>1 DEF Bijection, Injection
<1>3. s \in [1..n -> S] /\ IsInjective(s)
  BY <1>2 DEF SetToSeq
<1>4. n \in Nat
  BY FS_CardinalityType
<1> HIDE DEF s
<1>5. IsFiniteSet(1..n) /\ Cardinality(1..n) = n
  BY <1>4, FS_Interval
<1>6. s \in Injection(1..n, S)
  BY <1>3 DEF Injection
<1>7. s \in Surjection(1..n, S)
  BY <1>5, <1>6, FS_Injection
<1>8. \A x \in S : \E k \in 1..n : s[k] = x
  BY <1>7 DEF Surjection
<1>9. s \in Seq(S) /\ Len(s) = n
  BY <1>3, <1>4
<1>10. \A k, l \in 1..n : s[k] = s[l] => k = l
  BY <1>3 DEF IsInjective
<1>11. QED
  BY <1>3, <1>4, <1>8, <1>9, <1>10 DEF s

\* A sequence of a set's elements, in any order.
LEMMA AnyOrder ==
    ASSUME NEW S, IsFiniteSet(S), NEW order \in SetToSeqs(S)
    PROVE  /\ IsList(order) /\ Len(order) = Cardinality(S) /\ Cardinality(S) \in Nat
           /\ \A k \in DOMAIN order : order[k] \in S
           /\ \A x \in S : \E k \in DOMAIN order : order[k] = x
<1> DEFINE n == Cardinality(S)
<1>1. order \in [1..n -> S] /\ \A i, j \in 1..n : order[i] = order[j] => i = j
  BY DEF SetToSeqs
<1>2. n \in Nat
  BY FS_CardinalityType
<1>3. order \in Injection(1..n, S)
  BY <1>1 DEF Injection, IsInjective
<1>4. Cardinality(1..n) = n
  BY <1>2, FS_Interval
<1>5. order \in Surjection(1..n, S)
  BY <1>3, <1>4, FS_Injection
<1>6. \A x \in S : \E k \in 1..n : order[k] = x
  BY <1>5 DEF Surjection
<1>7. QED
  BY <1>1, <1>2, <1>6 DEF IsList

LEMMA OneAfterTheOther ==
    ASSUME NEW S, NEW a \in Seq(S), NEW b \in Seq(S)
    PROVE  /\ a \o b \in Seq(S) /\ IsList(a \o b)
           /\ Len(a) \in Nat /\ Len(b) \in Nat /\ Len(a \o b) = Len(a) + Len(b)
           /\ \A i \in 1..Len(a) : i \in 1..Len(a \o b) /\ (a \o b)[i] = a[i]
           /\ \A i \in 1..Len(b) : Len(a) + i \in 1..Len(a \o b) /\ (a \o b)[Len(a) + i] = b[i]
           /\ \A i \in 1..Len(a \o b) : i \in 1..Len(a) \/ \E j \in 1..Len(b) : i = Len(a) + j
           /\ Ids(a \o b) = Ids(a) \cup Ids(b)
<1> DEFINE c == a \o b
           m == Len(a)
           n == Len(b)
<1>1. m \in Nat /\ n \in Nat /\ DOMAIN a = 1..m /\ DOMAIN b = 1..n
  BY LenProperties
<1>2. /\ c \in Seq(S) /\ Len(c) = m + n
      /\ \A i \in 1..(m + n) : c[i] = IF i <= m THEN a[i] ELSE b[i - m]
  BY ConcatProperties
<1>3. DOMAIN c = 1..(m + n)
  BY <1>2, LenProperties
<1> HIDE DEF c, m, n
<1>4. \A i \in 1..m : i \in 1..(m + n) /\ i <= m
  BY <1>1
<1>5. \A i \in 1..n : m + i \in 1..(m + n) /\ ~(m + i <= m) /\ (m + i) - m = i
  BY <1>1
<1>6. \A i \in 1..(m + n) : i \in 1..m \/ \E j \in 1..n : i = m + j
  <2> SUFFICES ASSUME NEW i \in 1..(m + n), i \notin 1..m
               PROVE  \E j \in 1..n : i = m + j
    OBVIOUS
  <2>1. i - m \in 1..n /\ i = m + (i - m)
    BY <1>1
  <2>2. QED
    BY <2>1
<1>7. \A i \in 1..m : c[i] = a[i]
  BY <1>2, <1>4
<1>8. \A i \in 1..n : c[m + i] = b[i]
  BY <1>2, <1>5
<1>9. Ids(c) \subseteq Ids(a) \cup Ids(b)
  <2> SUFFICES ASSUME NEW i \in 1..(m + n)
               PROVE  c[i].id \in Ids(a) \cup Ids(b)
    BY <1>3 DEF Ids
  <2>1. CASE i \in 1..m
    BY <1>1, <1>7, <2>1 DEF Ids
  <2>2. CASE i \notin 1..m
    <3>1. PICK j \in 1..n : i = m + j
      BY <1>6, <2>2
    <3>2. c[i] = b[j]
      BY <1>8, <3>1
    <3>3. QED
      BY <1>1, <3>2 DEF Ids
  <2>3. QED
    BY <2>1, <2>2
<1>10. Ids(a) \subseteq Ids(c)
  BY <1>1, <1>3, <1>4, <1>7 DEF Ids
<1>11. Ids(b) \subseteq Ids(c)
  <2> SUFFICES ASSUME NEW i \in 1..n
               PROVE  b[i].id \in Ids(c)
    BY <1>1 DEF Ids
  <2>1. m + i \in 1..(m + n) /\ c[m + i] = b[i]
    BY <1>5, <1>8
  <2>2. c[m + i].id \in Ids(c)
    BY <1>3, <2>1 DEF Ids
  <2>3. QED
    BY <2>1, <2>2
<1>12. Ids(c) = Ids(a) \cup Ids(b)
  BY <1>9, <1>10, <1>11
<1>13. Len(c) \in Nat /\ DOMAIN c = 1..Len(c)
  BY <1>1, <1>2, <1>3
<1>14. QED
  BY <1>1, <1>2, <1>4, <1>5, <1>6, <1>7, <1>8, <1>12, <1>13 DEF IsList, c, m, n

-----------------------------------------------------------------------------
(* Paths of one step and of two.                                           *)

LEMMA TwoSteps ==
    ASSUME NEW doc, NEW path, DOMAIN path \in {1..1, 1..2}
    PROVE  Walk(doc, path) =
               IF DOMAIN path = 1..1 THEN Descend(doc, path[1])
               ELSE Descend(Descend(doc, path[1]), path[2])
<1> DEFINE I == DOMAIN path
           iter[u \in SUBSET I] ==
               IF u = {} THEN doc ELSE Descend(iter[u \ {Max(u)}], path[Max(u)])
           low(u) == IF 1 \in u THEN Descend(doc, path[1]) ELSE doc
           g == [u \in SUBSET I |-> IF 2 \in u THEN Descend(low(u), path[2]) ELSE low(u)]
<1>1. Walk(doc, path) = iter[I]
  BY DEF Walk, FoldLeft, MapThenFoldSet
<1>2. I = {1} \/ I = {1, 2}
  OBVIOUS
<1>3. ASSUME NEW u \in SUBSET I, u # {}
      PROVE  Max(u) = IF 2 \in u THEN 2 ELSE 1
  <2> DEFINE x == IF 2 \in u THEN 2 ELSE 1
  <2>1. x \in u /\ u \subseteq Nat /\ \A y \in u : y <= x
    BY <1>2, <1>3
  <2> HIDE DEF x
  <2>2. Max(u) = x
    BY <2>1, MaxIsGreatest
  <2>3. QED
    BY <2>2 DEF x
<1>4. ASSUME NEW u \in SUBSET I, u # {}
      PROVE  g[u] = Descend(g[u \ {Max(u)}], path[Max(u)])
  <2>1. u \ {Max(u)} \in SUBSET I
    OBVIOUS
  <2>2. CASE 2 \in u
    <3>1. Max(u) = 2
      BY <1>3, <2>2
    <3>2. low(u \ {2}) = low(u)
      OBVIOUS
    <3>3. g[u] = Descend(low(u), path[2]) /\ g[u \ {2}] = low(u \ {2})
      BY <2>1, <2>2, <3>1
    <3>4. QED
      BY <3>1, <3>2, <3>3
  <2>3. CASE 2 \notin u
    <3>1. Max(u) = 1 /\ u = {1}
      BY <1>2, <1>3, <1>4, <2>3
    <3>2. u \ {1} = {}
      BY <3>1
    <3>3. g[u] = Descend(doc, path[1]) /\ g[{}] = doc
      BY <2>1, <2>3, <3>1
    <3>4. QED
      BY <3>1, <3>2, <3>3
  <2>4. QED
    BY <2>2, <2>3
<1>5. g = [u \in SUBSET I |->
              IF u = {} THEN doc ELSE Descend(g[u \ {Max(u)}], path[Max(u)])]
  <2>1. g[{}] = doc
    OBVIOUS
  <2>2. g = [u \in SUBSET I |-> g[u]]
    OBVIOUS
  <2> HIDE DEF g
  <2>3. QED
    BY <1>4, <2>1, <2>2
<1>6. iter = [u \in SUBSET I |->
                 IF u = {} THEN doc ELSE Descend(iter[u \ {Max(u)}], path[Max(u)])]
  <2> HIDE DEF g, I
  <2> QED BY <1>5
<1> HIDE DEF iter, I
<1>7. iter[{}] = doc
  BY <1>6
<1>8. ASSUME NEW u \in SUBSET I, u # {}
      PROVE  iter[u] = Descend(iter[u \ {Max(u)}], path[Max(u)])
  BY <1>6, <1>8
<1>9. iter[{1}] = Descend(doc, path[1])
  <2>1. {1} \in SUBSET I /\ {1} # {} /\ {1} \ {1} = {}
    BY <1>2
  <2>2. Max({1}) = 1
    BY <1>3, <2>1
  <2>3. QED
    BY <1>7, <1>8, <2>1, <2>2
<1>10. I = {1, 2} => iter[I] = Descend(Descend(doc, path[1]), path[2])
  <2> SUFFICES ASSUME I = {1, 2} PROVE iter[I] = Descend(iter[{1}], path[2])
    BY <1>9
  <2>1. I \in SUBSET I /\ I # {} /\ 2 \in I /\ I \ {2} = {1}
    OBVIOUS
  <2>2. Max(I) = 2
    BY <1>3, <2>1
  <2>3. QED
    BY <1>8, <2>1, <2>2
<1>11. 1..1 = {1} /\ {1} # {1, 2}
  OBVIOUS
<1>12. QED
  BY <1>1, <1>2, <1>9, <1>10, <1>11 DEF I

-----------------------------------------------------------------------------
(* JSON arrays.                                                            *)

\* The entries of an array that are objects with an ID, and their IDs.
Usable(elems) == {i \in DOMAIN elems : elems[i].kind = "object" /\ Field(elems[i], "id") # ""}
FieldsAt(elems, I) == {Field(elems[i], "id") : i \in I}

LEMMA JSONReadsObjects ==
    ASSUME NEW src, NEW answer,
           LET leaf == Leaf(answer, src.path)
           IN  leaf.kind = "array" /\ IsList(leaf.elems)
    PROVE  LET elems == Leaf(answer, src.path).elems
               got   == FetchJSON(src, answer)
           IN  /\ got.ok = TRUE /\ IsList(got.items)
               /\ Ids(got.items) = FieldsAt(elems, Usable(elems))
<1> DEFINE leaf == Leaf(answer, src.path)
           n == Len(leaf.elems)
           usable == Usable(leaf.elems)
           entries == Kept(leaf.elems, usable)
           Entry(e) == Item(Field(e, "id"),
                            IF Field(e, "name") # "" THEN Field(e, "name") ELSE Field(e, "id"),
                            "", Field(e, "link"))
           items == [i \in DOMAIN entries |-> Entry(entries[i])]
<1>1. FetchJSON(src, answer) = Got(Distinct(items))
  BY DEF FetchJSON, Usable
<1>2. n \in Nat /\ DOMAIN leaf.elems = 1..n /\ usable \in SUBSET (1..n)
  BY DEF IsList, Usable
<1>3. \A e : Entry(e).id = Field(e, "id")
  BY DEF Item
<1> HIDE DEF leaf, n, usable, Entry
<1>4. /\ Cardinality(usable) \in Nat /\ DOMAIN entries = 1..Cardinality(usable)
      /\ \A k \in 1..Cardinality(usable) :
            Ascending(usable)[k] \in usable /\ entries[k] = leaf.elems[Ascending(usable)[k]]
      /\ \A i \in usable : \E k \in 1..Cardinality(usable) :
            Ascending(usable)[k] = i /\ entries[k] = leaf.elems[i]
  BY <1>2, KeptEntries
<1> HIDE DEF entries
<1>5. /\ IsList(items) /\ DOMAIN items = 1..Cardinality(usable)
      /\ \A k \in 1..Cardinality(usable) : items[k].id = Field(entries[k], "id")
  BY <1>3, <1>4 DEF IsList
<1> HIDE DEF items
<1>6. Ids(items) = FieldsAt(leaf.elems, usable)
  <2>1. Ids(items) \subseteq FieldsAt(leaf.elems, usable)
    BY <1>4, <1>5 DEF Ids, FieldsAt
  <2>2. FieldsAt(leaf.elems, usable) \subseteq Ids(items)
    BY <1>4, <1>5 DEF Ids, FieldsAt
  <2>3. QED
    BY <2>1, <2>2
<1>7. IsList(Distinct(items)) /\ Ids(Distinct(items)) = Ids(items)
  BY <1>5, DistinctKeepsIds
<1>8. Got(Distinct(items)).ok = TRUE /\ Got(Distinct(items)).items = Distinct(items)
  BY DEF Got
<1>9. QED
  BY <1>1, <1>6, <1>7, <1>8 DEF leaf, usable

-----------------------------------------------------------------------------
(* Trending pages.                                                         *)

\* The articles with a link, and their repos.
Articles(nodes) == {i \in DOMAIN nodes : nodes[i].tag = "article" /\ nodes[i].repo # ""}
ReposAt(nodes, I) == {nodes[i].repo : i \in I}

LEMMA ReposAreRead ==
    ASSUME NEW answer, IsList(Nodes(answer)), NEW window
    PROVE  LET nodes == Nodes(answer)
               repos == Repos(answer, window)
           IN  /\ IsList(repos) /\ Ids(repos) = ReposAt(nodes, Articles(nodes))
               /\ repos = <<>> <=> Articles(nodes) = {}
               /\ \A S : (\A k \in DOMAIN repos : repos[k] \in S) => repos \in Seq(S)
<1> DEFINE nodes == Nodes(answer)
           n == Len(nodes)
           I == Articles(nodes)
           rows == Kept(nodes, I)
           repos == [i \in DOMAIN rows |-> Item(rows[i].repo, rows[i].text, window, "repo")]
<1>1. n \in Nat /\ DOMAIN nodes = 1..n /\ I \in SUBSET (1..n)
  BY DEF IsList, Articles
<1>2. Repos(answer, window) = repos
  BY DEF Repos, Articles
<1>3. \A row : Item(row.repo, row.text, window, "repo").id = row.repo
  BY DEF Item
<1> HIDE DEF nodes, n, I
<1>4. /\ IsFiniteSet(I) /\ Cardinality(I) \in Nat /\ DOMAIN rows = 1..Cardinality(I)
      /\ \A k \in 1..Cardinality(I) : Ascending(I)[k] \in I /\ rows[k] = nodes[Ascending(I)[k]]
      /\ \A i \in I : \E k \in 1..Cardinality(I) : Ascending(I)[k] = i /\ rows[k] = nodes[i]
      /\ rows = <<>> <=> I = {}
  BY <1>1, KeptEntries
<1> HIDE DEF rows
<1>5. /\ DOMAIN repos = 1..Cardinality(I) /\ IsList(repos)
      /\ \A k \in 1..Cardinality(I) : repos[k].id = rows[k].repo
  BY <1>3, <1>4 DEF IsList
<1>6. repos = <<>> <=> I = {}
  <2>1. repos = <<>> => DOMAIN repos = {}
    OBVIOUS
  <2>2. Cardinality(I) = 0 => repos = <<>>
    BY <1>4
  <2>3. 1..Cardinality(I) = {} <=> Cardinality(I) = 0
    BY <1>4
  <2>4. Cardinality(I) = 0 <=> I = {}
    BY <1>4, FS_EmptySet
  <2>5. QED
    BY <1>5, <2>1, <2>2, <2>3, <2>4
<1>7. ASSUME NEW S, \A k \in DOMAIN repos : repos[k] \in S
      PROVE  repos \in Seq(S)
  <2>1. repos \in [1..Cardinality(I) -> S]
    BY <1>4, <1>5, <1>7
  <2>2. QED
    BY <1>4, <2>1
<1> HIDE DEF repos
<1>8. Ids(repos) = ReposAt(nodes, I)
  <2>1. Ids(repos) \subseteq ReposAt(nodes, I)
    BY <1>4, <1>5 DEF Ids, ReposAt
  <2>2. ReposAt(nodes, I) \subseteq Ids(repos)
    BY <1>4, <1>5 DEF Ids, ReposAt
  <2>3. QED
    BY <2>1, <2>2
<1>9. QED
  BY <1>2, <1>5, <1>6, <1>7, <1>8 DEF nodes, I

\* The three windows together, or none.
LEMMA TrendingReadsWindows ==
    ASSUME NEW src, NEW answer, answer.kind = "windows",
           \A w \in 1..3 : IsList(Nodes(answer.of[w]))
    PROVE  LET repos(w) == ReposAt(Nodes(answer.of[w]), Articles(Nodes(answer.of[w])))
               got == FetchTrending(src, answer)
           IN  IF \E w \in 1..3 : Articles(Nodes(answer.of[w])) = {} THEN got = Failed
               ELSE /\ got.ok = TRUE /\ IsList(got.items)
                    /\ Ids(got.items) = repos(1) \cup repos(2) \cup repos(3)
<1> DEFINE repos(w) == ReposAt(Nodes(answer.of[w]), Articles(Nodes(answer.of[w])))
           page(w) == Repos(answer.of[w], TrendingWindows[w])
           all == page(1) \o page(2) \o page(3)
<1>1. ASSUME NEW w \in 1..3
      PROVE  /\ IsList(page(w)) /\ Ids(page(w)) = repos(w)
             /\ page(w) = <<>> <=> Articles(Nodes(answer.of[w])) = {}
             /\ \A S : (\A k \in DOMAIN page(w) : page(w)[k] \in S) => page(w) \in Seq(S)
  BY ReposAreRead
<1>2. FetchTrending(src, answer) =
          IF \E w \in 1..3 : page(w) = <<>> THEN Failed ELSE Got(Distinct(all))
  <2> DEFINE pages == [i \in DOMAIN TrendingWindows |-> Repos(answer.of[i], TrendingWindows[i])]
  <2>1. DOMAIN TrendingWindows = 1..3
    BY DEF TrendingWindows
  <2>2. \A w \in 1..3 : pages[w] = page(w)
    BY <2>1
  <2>3. DOMAIN pages = 1..3
    BY <2>1
  <2>4. FetchTrending(src, answer) =
            IF \E i \in DOMAIN pages : pages[i] = <<>>
            THEN Failed ELSE Got(Distinct(pages[1] \o pages[2] \o pages[3]))
    BY DEF FetchTrending
  <2>5. 1 \in 1..3 /\ 2 \in 1..3 /\ 3 \in 1..3
    OBVIOUS
  <2> HIDE DEF pages, page
  <2>6. QED
    BY <2>2, <2>3, <2>4, <2>5
<1>3. IsList(all) /\ Ids(all) = repos(1) \cup repos(2) \cup repos(3)
  <2> DEFINE S == UNION {{page(w)[k] : k \in DOMAIN page(w)} : w \in 1..3}
             first == page(1) \o page(2)
  <2>1. \A w \in 1..3 : \A k \in DOMAIN page(w) : page(w)[k] \in S
    OBVIOUS
  <2>2. 1 \in 1..3 /\ 2 \in 1..3 /\ 3 \in 1..3
    OBVIOUS
  <2> HIDE DEF page, repos, S
  <2>3. page(1) \in Seq(S) /\ page(2) \in Seq(S) /\ page(3) \in Seq(S)
    BY <1>1, <2>1, <2>2
  <2>4. first \in Seq(S) /\ Ids(first) = Ids(page(1)) \cup Ids(page(2))
    BY <2>3, OneAfterTheOther
  <2>5. all = first \o page(3)
    OBVIOUS
  <2> HIDE DEF first, all
  <2>6. IsList(first \o page(3)) /\ Ids(first \o page(3)) = Ids(first) \cup Ids(page(3))
    BY <2>3, <2>4, OneAfterTheOther
  <2>7. QED
    BY <1>1, <2>2, <2>4, <2>5, <2>6
<1> HIDE DEF page, repos, all
<1>4. IsList(Distinct(all)) /\ Ids(Distinct(all)) = Ids(all)
  BY <1>3, DistinctKeepsIds
<1>5. Got(Distinct(all)).ok = TRUE /\ Got(Distinct(all)).items = Distinct(all)
  BY DEF Got
<1>6. QED
  BY <1>1, <1>2, <1>3, <1>4, <1>5 DEF repos

-----------------------------------------------------------------------------
(* The texts of a page, in order.                                          *)

\* The hits with a text no hit before them has.
FirstHits(selector, nodes) ==
    {i \in Hits(selector, nodes) :
        \A j \in Hits(selector, nodes) : j < i => nodes[j].text # nodes[i].text}

LEMMA ListingIsInOrder ==
    ASSUME NEW selector, NEW nodes, IsList(nodes)
    PROVE  LET first == FirstHits(selector, nodes)
               parts == Listing(selector, nodes)
           IN  /\ DOMAIN parts = 1..Cardinality(first) /\ Len(parts) = Cardinality(first)
               /\ Cardinality(first) \in Nat
               /\ \A k \in 1..Cardinality(first) : parts[k].id = nodes[Ascending(first)[k]].text
<1> DEFINE n == Len(nodes)
           hits == Hits(selector, nodes)
           first == FirstHits(selector, nodes)
           kept == Kept(nodes, hits)
           m == Cardinality(hits)
           texts == [i \in DOMAIN kept |-> kept[i].text]
           plain == [i \in DOMAIN texts |-> Plain(texts[i])]
           J == {i \in DOMAIN plain : \A j \in 1..(i - 1) : plain[j].id # plain[i].id}
           at == Ascending(hits)
           g == [k \in 1..Cardinality(J) |-> at[Ascending(J)[k]]]
<1>1. n \in Nat /\ DOMAIN nodes = 1..n /\ hits \in SUBSET (1..n) /\ first \in SUBSET hits
  BY DEF IsList, Hits, FirstHits
<1>2. first = {i \in hits : \A j \in hits : j < i => nodes[j].text # nodes[i].text}
  BY DEF FirstHits
<1>3. Listing(selector, nodes) = Kept(plain, J)
  BY DEF Listing, Texts, Distinct, Hits
<1> HIDE DEF n, hits, first
<1>4. /\ IsFiniteSet(hits) /\ m \in Nat /\ DOMAIN kept = 1..m
      /\ \A k \in 1..m : at[k] \in hits /\ kept[k] = nodes[at[k]]
  <2>1. n \in Nat /\ hits \in SUBSET (1..n)
    BY <1>1
  <2>2. QED
    BY ONLY <2>1, KeptEntries
<1>5. hits \in SUBSET Nat /\ first \in SUBSET Nat
  BY <1>1
<1>6. /\ \A i \in hits : \E k \in 1..m : at[k] = i
      /\ \A k, l \in 1..m : k < l => at[k] < at[l]
  BY <1>4, <1>5, AscendingLists
<1> HIDE DEF kept, at, m
<1>7. DOMAIN plain = 1..m /\ \A k \in 1..m : plain[k].id = nodes[at[k]].text
  <2>1. \A text : Plain(text).id = text
    BY DEF Plain, Item
  <2>2. QED
    BY <1>4, <2>1
<1> HIDE DEF plain, texts
<1>8. J = {i \in 1..m : \A j \in 1..(i - 1) : nodes[at[j]].text # nodes[at[i]].text}
  <2>1. \A i \in 1..m : \A j \in 1..(i - 1) : j \in 1..m
    BY <1>4
  <2>2. QED
    BY <1>7, <2>1
<1>9. J \in SUBSET (1..m) /\ J \in SUBSET Nat
  BY <1>4, <1>8
<1> HIDE DEF J
<1>10. /\ IsFiniteSet(J) /\ Cardinality(J) \in Nat
       /\ DOMAIN Kept(plain, J) = 1..Cardinality(J) /\ Len(Kept(plain, J)) = Cardinality(J)
       /\ \A k \in 1..Cardinality(J) :
             Ascending(J)[k] \in J /\ Kept(plain, J)[k] = plain[Ascending(J)[k]]
  <2>1. m \in Nat /\ J \in SUBSET (1..m)
    BY <1>4, <1>9
  <2>2. QED
    BY ONLY <2>1, KeptEntries
<1>11. /\ \A i \in J : \E k \in 1..Cardinality(J) : Ascending(J)[k] = i
       /\ \A k, l \in 1..Cardinality(J) : k < l => Ascending(J)[k] < Ascending(J)[l]
  BY <1>9, <1>10, AscendingLists
\* Positions grow with ranks, and ranks with positions.
<1>12. \A k, l \in 1..m : at[k] < at[l] <=> k < l
  <2> SUFFICES ASSUME NEW k \in 1..m, NEW l \in 1..m, at[k] < at[l]
               PROVE  k < l
    BY <1>6
  <2>1. at[k] \in Nat /\ at[l] \in Nat /\ k \in Nat /\ l \in Nat
    <3>1. at[k] \in hits /\ at[l] \in hits
      BY <1>4
    <3>2. at[k] \in Nat /\ at[l] \in Nat
      BY <1>5, <3>1
    <3>3. k \in Nat /\ l \in Nat
      BY <1>4
    <3>4. QED
      BY <3>2, <3>3
  <2>2. ~(l < k) /\ l # k
    BY <1>6, <2>1
  <2>3. QED
    BY <2>1, <2>2
<1>13. ASSUME NEW i \in 1..m
       PROVE  i \in J <=> at[i] \in first
  <2>1. ASSUME i \in J, NEW j \in hits, j < at[i]
        PROVE  nodes[j].text # nodes[at[i]].text
    <3>1. PICK l \in 1..m : at[l] = j
      BY <1>6
    <3>2. l < i
      BY <1>12, <2>1, <3>1
    <3>3. l \in 1..(i - 1)
      BY <1>4, <3>2
    <3>4. QED
      BY <1>8, <2>1, <3>1, <3>3
  <2>2. ASSUME at[i] \in first, NEW j \in 1..(i - 1)
        PROVE  nodes[at[j]].text # nodes[at[i]].text
    <3>1. j \in 1..m /\ j < i
      BY <1>4
    <3>2. at[j] \in hits /\ at[j] < at[i]
      BY <1>4, <1>12, <3>1
    <3>3. QED
      BY <1>2, <2>2, <3>2
  <2>3. at[i] \in hits
    BY <1>4
  <2>4. QED
    BY <1>2, <1>8, <2>1, <2>2, <2>3
<1>14. ASSUME NEW k \in 1..Cardinality(J)
       PROVE  g[k] = at[Ascending(J)[k]] /\ g[k] \in first /\ Ascending(J)[k] \in 1..m
  BY <1>9, <1>10, <1>13
<1>15. ASSUME NEW i \in first
       PROVE  \E k \in 1..Cardinality(J) : g[k] = i
  <2>1. PICK l \in 1..m : at[l] = i
    BY <1>1, <1>6
  <2>2. l \in J
    BY <1>13, <2>1
  <2>3. PICK k \in 1..Cardinality(J) : Ascending(J)[k] = l
    BY <1>11, <2>2
  <2>4. QED
    BY <1>14, <2>1, <2>3
<1>16. ASSUME NEW k \in 1..Cardinality(J), NEW l \in 1..Cardinality(J), k < l
       PROVE  g[k] < g[l]
  <2>1. Ascending(J)[k] < Ascending(J)[l]
    BY <1>11, <1>16
  <2>2. QED
    BY <1>12, <1>14, <2>1
<1> HIDE DEF g
<1>17. /\ Cardinality(first) = Cardinality(J)
       /\ \A k \in 1..Cardinality(J) : Ascending(first)[k] = g[k]
  <2>1. ListsInOrder(first, Cardinality(J), g)
    BY <1>14, <1>15, <1>16 DEF ListsInOrder
  <2>2. QED
    BY <1>5, <1>10, <2>1, AscendingIsUnique
<1>18. ASSUME NEW k \in 1..Cardinality(J)
       PROVE  Kept(plain, J)[k].id = nodes[Ascending(first)[k]].text
  BY <1>7, <1>10, <1>14, <1>17
<1>19. QED
  BY <1>3, <1>10, <1>17, <1>18 DEF first

-----------------------------------------------------------------------------
(* Sequences of sequences, and what is counted through a function.         *)

\* FlattenSeq appends one sequence after the other.
LEMMA FlattenSteps ==
    ASSUME NEW seqs, Len(seqs) \in Nat \ {0}
    PROVE  \E flat : /\ flat[1] = seqs[1]
                     /\ \A i \in 2..Len(seqs) : flat[i] = flat[i - 1] \o seqs[i]
                     /\ FlattenSeq(seqs) = flat[Len(seqs)]
<1> DEFINE n == Len(seqs)
           flatten[i \in 1..n] == IF i = 1 THEN seqs[i] ELSE flatten[i - 1] \o seqs[i]
           Next1(i, part) == IF i = 1 THEN seqs[1] ELSE part \o seqs[i]
           Is(f, m) == f = [i \in 1..m |-> Next1(i, f[i - 1])]
           K == {m \in 0..n : \E f : Is(f, m)}
<1>1. FlattenSeq(seqs) = flatten[n]
  BY DEF FlattenSeq
<1>2. 0 \in K
  <2>1. Is(<<>>, 0)
    OBVIOUS
  <2> HIDE DEF Is
  <2>2. 0 \in 0..n
    OBVIOUS
  <2>3. QED
    BY <2>1, <2>2
<1>3. ASSUME NEW m \in 1..n, m - 1 \in K
      PROVE  m \in K
  <2>1. PICK f : Is(f, m - 1)
    BY <1>3
  <2> DEFINE h == [i \in 1..m |-> IF i = m THEN Next1(m, f[m - 1]) ELSE f[i]]
  <2> HIDE DEF Next1
  <2>2. ASSUME NEW i \in 1..m
        PROVE  h[i] = Next1(i, h[i - 1])
    <3>1. CASE i = 1
      <4>1. \A part, other : Next1(1, part) = Next1(1, other)
        BY DEF Next1
      <4>2. i # m => h[i] = f[1] /\ 1 \in 1..(m - 1)
        BY <3>1
      <4>3. i # m => f[1] = Next1(1, f[1 - 1])
        BY <2>1, <4>2
      <4>4. i = m => h[i] = Next1(1, f[m - 1])
        BY <3>1
      <4>5. QED
        BY <3>1, <4>1, <4>2, <4>3, <4>4
    <3>2. CASE i # 1
      <4>1. i - 1 \in 1..m /\ i - 1 # m /\ h[i - 1] = f[i - 1]
        BY <3>2
      <4>2. i # m => i \in 1..(m - 1) /\ h[i] = f[i]
        OBVIOUS
      <4>3. i # m => f[i] = Next1(i, f[i - 1])
        BY <2>1, <4>2
      <4>4. i = m => h[i] = Next1(i, f[i - 1])
        OBVIOUS
      <4> HIDE DEF h
      <4>5. QED
        BY <4>1, <4>2, <4>3, <4>4
    <3>3. QED
      BY <3>1, <3>2
  <2>3. h = [i \in 1..m |-> h[i]]
    OBVIOUS
  <2> HIDE DEF h
  <2>4. Is(h, m)
    BY <2>2, <2>3
  <2> HIDE DEF Is
  <2>5. m \in 0..n
    OBVIOUS
  <2>6. QED
    BY <2>4, <2>5
<1>4. \E f : Is(f, n)
  <2>1. n \in Nat /\ n \in 0..n
    OBVIOUS
  <2> HIDE DEF K, n
  <2>2. \A m \in 0..n : m \in K
    BY <1>2, <1>3, <2>1, Induction
  <2>3. n \in K
    BY <2>1, <2>2
  <2>4. QED
    BY <2>3 DEF K
<1>5. Is(flatten, n)
  <2>1. \A f : Is(f, n) <=>
              f = [i \in 1..n |-> IF i = 1 THEN seqs[i] ELSE f[i - 1] \o seqs[i]]
    <3>1. \A i, part : Next1(i, part) = IF i = 1 THEN seqs[i] ELSE part \o seqs[i]
      OBVIOUS
    <3> HIDE DEF Next1
    <3>2. QED
      BY <3>1
  <2> HIDE DEF Is
  <2>2. QED
    BY <1>4, <2>1
<1> HIDE DEF flatten
<1>6. /\ flatten[1] = seqs[1]
      /\ \A i \in 2..n : flatten[i] = flatten[i - 1] \o seqs[i]
  <2>1. \A part : Next1(1, part) = seqs[1]
    OBVIOUS
  <2>2. \A i \in 2..n : \A part : Next1(i, part) = part \o seqs[i]
    OBVIOUS
  <2> HIDE DEF Next1
  <2>3. 1 \in 1..n /\ \A i \in 2..n : i \in 1..n
    OBVIOUS
  <2>4. \A i \in 1..n : flatten[i] = Next1(i, flatten[i - 1])
    BY <1>5
  <2>5. QED
    BY <2>1, <2>2, <2>3, <2>4
<1>7. QED
  BY <1>1, <1>6

\* A set has no more elements than one it is an image of.
LEMMA NoMoreThan ==
    ASSUME NEW S, IsFiniteSet(S), NEW T, NEW f, \A t \in T : \E s \in S : f[s] = t
    PROVE  IsFiniteSet(T) /\ Cardinality(T) <= Cardinality(S)
<1> DEFINE R == {s \in S : f[s] \in T}
           g == [s \in R |-> f[s]]
<1>1. IsFiniteSet(R) /\ Cardinality(R) <= Cardinality(S)
  BY FS_Subset
<1>2. g \in Surjection(R, T)
  BY DEF Surjection
<1> HIDE DEF R, g
<1>3. IsFiniteSet(T) /\ Cardinality(T) <= Cardinality(R)
  BY <1>1, <1>2, FS_Surjection
<1>4. Cardinality(R) \in Nat /\ Cardinality(S) \in Nat /\ Cardinality(T) \in Nat
  BY <1>1, <1>3, FS_CardinalityType
<1>5. QED
  BY <1>1, <1>3, <1>4

-----------------------------------------------------------------------------
(* The rows of a schedule.                                                 *)

IsHeading(node) == node.tag = "h5" /\ node.text # ""
Heads(nodes, i) == {j \in 1..(i - 1) : IsHeading(nodes[j])}
GameRows(nodes) == {i \in DOMAIN nodes : nodes[i].tag = "tr" /\ IsGame(nodes[i])}

\* A bounded set of numbers has a greatest one.
LEMMA GreatestNumber ==
    ASSUME NEW n \in Nat, NEW T \in SUBSET (1..n), T # {}
    PROVE  Max(T) \in T /\ \A y \in T : y <= Max(T)
<1> DEFINE R == {n - x : x \in T}
<1>1. R \in SUBSET Nat /\ R # {}
  <2>1. ASSUME NEW x \in 1..n
        PROVE  n - x \in Nat
    BY <2>1
  <2>2. \A x \in T : x \in 1..n
    OBVIOUS
  <2>3. \A r \in R : r \in Nat
    BY <2>1, <2>2
  <2>4. QED
    BY <2>3
<1>2. PICK r \in R : \A y \in R : r <= y
  BY <1>1, LeastNumber
<1>3. PICK x \in T : r = n - x
  BY <1>2
<1>4. \A y \in T : y <= x
  <2> SUFFICES ASSUME NEW y \in T PROVE y <= x
    OBVIOUS
  <2>1. n - x <= n - y /\ x \in Int /\ y \in Int
    BY <1>2, <1>3
  <2>2. QED
    BY <2>1
<1>5. T \subseteq Nat
  OBVIOUS
<1>6. Max(T) = x
  BY <1>3, <1>4, <1>5, MaxIsGreatest
<1>7. QED
  BY <1>4, <1>6

\* The date of a row depends on what is above it, and is the last heading there.
LEMMA DatesAbove ==
    ASSUME NEW nodes, NEW i \in Nat
    PROVE  /\ \A other : (\A j \in 1..(i - 1) : other[j] = nodes[j])
                             => DateAbove(other, i) = DateAbove(nodes, i)
           /\ \A j \in Heads(nodes, i) : (\A y \in Heads(nodes, i) : y <= j)
                             => DateAbove(nodes, i) = nodes[j].text
<1>1. \A other : DateAbove(other, i) = IF Heads(other, i) = {} THEN "Unknown"
                                       ELSE other[Max(Heads(other, i))].text
  BY DEF DateAbove, Heads, IsHeading
<1>2. ASSUME NEW other, \A j \in 1..(i - 1) : other[j] = nodes[j]
      PROVE  DateAbove(other, i) = DateAbove(nodes, i)
  <2>1. Heads(other, i) = Heads(nodes, i)
    BY <1>2 DEF Heads
  <2>2. CASE Heads(nodes, i) = {}
    BY <1>1, <2>1, <2>2
  <2>3. CASE Heads(nodes, i) # {}
    <3>1. i - 1 \in Nat /\ Heads(nodes, i) \in SUBSET (1..(i - 1))
      BY <2>3 DEF Heads
    <3>2. Max(Heads(nodes, i)) \in Heads(nodes, i)
      BY <2>3, <3>1, GreatestNumber
    <3>3. Max(Heads(nodes, i)) \in 1..(i - 1)
      BY <3>1, <3>2
    <3>4. QED
      BY <1>1, <1>2, <2>1, <3>3
  <2>4. QED
    BY <2>2, <2>3
<1>3. ASSUME NEW j \in Heads(nodes, i), \A y \in Heads(nodes, i) : y <= j
      PROVE  DateAbove(nodes, i) = nodes[j].text
  <2>1. Heads(nodes, i) \subseteq Nat
    BY DEF Heads
  <2>2. Max(Heads(nodes, i)) = j
    BY <1>3, <2>1, MaxIsGreatest
  <2>3. QED
    BY <1>1, <2>2
<1>4. QED
  BY <1>2, <1>3

\* When the games' rows are at place[g], each game is read from its row.
RowsAreAt(nodes, games, place) == GameRows(nodes) = {place[g] : g \in games}

LEMMA ScheduleIsParsed ==
    ASSUME NEW nodes, IsList(nodes), NEW games, NEW place,
           RowsAreAt(nodes, games, place)
    PROVE  LET parsed == ParseSchedule(nodes)
           IN  /\ IsList(parsed) /\ (parsed = <<>> <=> games = {})
               /\ \E pos :
                     /\ \A g \in games :
                           /\ pos[g] \in DOMAIN parsed
                           /\ parsed[pos[g]] = ParseRow(nodes[place[g]], DateAbove(nodes, place[g]))
                     /\ \A k \in DOMAIN parsed : \E g \in games : pos[g] = k
<1> DEFINE R == GameRows(nodes)
           m == Cardinality(R)
           at == Ascending(R)
           parsed == [k \in DOMAIN at |-> ParseRow(nodes[at[k]], DateAbove(nodes, at[k]))]
           pos == [g \in games |-> CHOOSE k \in 1..m : at[k] = place[g]]
<1>1. ParseSchedule(nodes) = parsed
  BY DEF ParseSchedule, GameRows
<1>2. Len(nodes) \in Nat /\ R \in SUBSET (1..Len(nodes)) /\ R \in SUBSET Nat
  BY DEF IsList, GameRows
<1>3. R = {place[g] : g \in games}
  BY DEF RowsAreAt
<1> HIDE DEF R
<1>4. IsFiniteSet(R)
  BY <1>2, KeptEntries
<1>5. /\ m \in Nat /\ DOMAIN at = 1..m
      /\ \A k \in 1..m : at[k] \in R
      /\ \A i \in R : \E k \in 1..m : at[k] = i
      /\ \A k, l \in 1..m : k < l => at[k] < at[l]
  BY <1>2, <1>4, AscendingLists
<1> HIDE DEF m, at
<1>6. IsList(parsed) /\ DOMAIN parsed = 1..m /\ (parsed = <<>> <=> 1..m = {})
      /\ \A k \in 1..m : parsed[k] = ParseRow(nodes[at[k]], DateAbove(nodes, at[k]))
  BY <1>5 DEF IsList
<1> HIDE DEF parsed
<1>7. ASSUME NEW g \in games
      PROVE  pos[g] \in 1..m /\ at[pos[g]] = place[g]
  <2>1. \E k \in 1..m : at[k] = place[g]
    BY <1>3, <1>5
  <2>2. pos[g] = CHOOSE k \in 1..m : at[k] = place[g]
    OBVIOUS
  <2>3. QED
    BY <2>1, <2>2
<1> HIDE DEF pos
<1>8. ASSUME NEW k \in 1..m
      PROVE  \E g \in games : pos[g] = k
  <2>1. PICK g \in games : at[k] = place[g]
    BY <1>3, <1>5
  <2>2. pos[g] \in 1..m /\ at[pos[g]] = at[k]
    BY <1>7, <2>1
  <2>3. at[k] \in Nat /\ ~(at[k] < at[k])
    <3>1. at[k] \in Nat
      BY <1>2, <1>5
    <3>2. QED
      BY <3>1
  <2>4. ~(pos[g] < k) /\ ~(k < pos[g])
    BY <1>5, <2>2, <2>3
  <2>5. pos[g] = k
    BY <1>5, <2>2, <2>4
  <2>6. QED
    BY <2>5
<1>9. games = {} <=> 1..m = {}
  BY <1>7, <1>8
<1>10. QED
  BY <1>1, <1>6, <1>7, <1>8, <1>9
=============================================================================
