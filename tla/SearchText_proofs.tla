--------------------------- MODULE SearchText_proofs ---------------------------
(***************************************************************************)
(* Proofs about the functions of SearchText, for words, texts and corpora  *)
(* of any size.  First what they and the proofs about clean-ups, builds,   *)
(* the client and the hub (SearchIndex_proofs) have in common: induction   *)
(* as a fact about a set of numbers, folds and recursive functions as the  *)
(* functions they are defined by, and lists in an order.                   *)
(***************************************************************************)
EXTENDS SearchText, FiniteSetTheorems, SequenceTheorems, WellFoundedInduction, NaturalsInduction, TLAPS

-----------------------------------------------------------------------------
\* Induction and folds.  What a fold over a sequence comes to is shown of the
\* function of the sets of positions that Folds defines it by.
\* Induction over a bounded interval, as a fact about a set of numbers.
LEMMA UpTo ==
    ASSUME NEW n \in Nat, NEW S, 0 \in S, \A k \in 0 .. n - 1 : k \in S => k + 1 \in S
    PROVE  0 .. n \subseteq S
<1> DEFINE T == (0 .. n) \ S
           R == OpToRel(<, Nat)
<1> SUFFICES ASSUME T # {} PROVE FALSE
  OBVIOUS
<1>1. PICK x \in T : \A y \in T : <<y, x>> \notin R
  <2>1. T \subseteq Nat
    OBVIOUS
  <2>2. IsWellFoundedOn(R, Nat)
    BY NatLessThanWellFounded
  <2> HIDE DEF T, R
  <2> QED BY <2>1, <2>2, WFMin
<1>2. x \in Nat /\ x # 0 /\ x \in 0 .. n
  OBVIOUS
<1>3. x - 1 \in 0 .. n - 1 /\ (x - 1) + 1 = x
  BY <1>2
<1>4. x - 1 \notin S
  BY <1>3
<1>5. <<x - 1, x>> \in R
  BY <1>2 DEF OpToRel
<1> HIDE DEF R
<1> QED BY <1>1, <1>3, <1>4, <1>5

LEMMA MaxOfSome ==
    ASSUME NEW n \in Nat, NEW s \in SUBSET (1 .. n), s # {}
    PROVE  Max(s) \in s /\ \A i \in s : i <= Max(s)
<1> DEFINE Has(k) == \A t \in SUBSET (1 .. k) : t # {} => \E m \in t : \A i \in t : m >= i
           S == {k \in 0 .. n : Has(k)}
<1>1. Has(0)
  <2>1. \A t \in SUBSET (1 .. 0) : t = {}
    OBVIOUS
  <2> QED BY <2>1
<1>2. ASSUME NEW k \in 0 .. n - 1, Has(k) PROVE Has(k + 1)
  <2> SUFFICES ASSUME NEW t \in SUBSET (1 .. k + 1), t # {} PROVE \E m \in t : \A i \in t : m >= i
    OBVIOUS
  <2>1. CASE k + 1 \in t
    BY <2>1
  <2>2. CASE k + 1 \notin t
    <3>1. t \in SUBSET (1 .. k)
      BY <2>2
    <3> QED BY <1>2, <3>1
  <2> QED BY <2>1, <2>2
<1>3. Has(n)
  <2> HIDE DEF Has
  <2>1. 0 \in S
    BY <1>1
  <2>2. \A k \in 0 .. n - 1 : k \in S => k + 1 \in S
    BY <1>2
  <2> HIDE DEF S
  <2>3. 0 .. n \subseteq S
    BY <2>1, <2>2, UpTo
  <2>4. n \in S
    BY <2>3
  <2> QED BY <2>4 DEF S
<1>4. \E m \in s : \A i \in s : m >= i
  BY <1>3
<1> QED BY <1>4 DEF Max

LEMMA MaxOfAll == ASSUME NEW n \in Nat, n # 0 PROVE Max(1 .. n) = n /\ (1 .. n) \ {n} = 1 .. (n - 1)
<1>1. Max(1 .. n) \in 1 .. n /\ \A i \in 1 .. n : i <= Max(1 .. n)
  BY 1 .. n # {}, 1 .. n \in SUBSET (1 .. n), MaxOfSome
<1> QED BY <1>1

LEMMA BeginningIsPart == ASSUME NEW n \in Nat, NEW k \in 1 .. n PROVE 1 .. k \in SUBSET (1 .. n) /\ 1 .. k # {}
  OBVIOUS

\* What is folded, of any of the first n positions taken from the last.
IsFold(g, n, B, base, H) ==
    /\ g \in [SUBSET (1 .. n) -> B] /\ g[{}] = base
    /\ \A s \in SUBSET (1 .. n) : s # {} => g[s] = H[<<g[s \ {Max(s)}], Max(s)>>]

LEMMA FoldExists ==
    ASSUME NEW n \in Nat, NEW B, NEW base \in B, NEW H \in [B \X (1 .. n) -> B]
    PROVE  \E g : IsFold(g, n, B, base, H)
<1> DEFINE Folds(g, k) == /\ g \in [SUBSET (1 .. k) -> B]
                          /\ \A s \in SUBSET (1 .. k) :
                                g[s] = IF s = {} THEN base ELSE H[<<g[s \ {Max(s)}], Max(s)>>]
           Has(k) == \E g : Folds(g, k)
           S == {k \in 0 .. n : Has(k)}
<1>1. Has(0)
  <2> DEFINE g == [s \in SUBSET (1 .. 0) |-> base]
  <2>1. \A s \in SUBSET (1 .. 0) : s = {}
    OBVIOUS
  <2>2. g \in [SUBSET (1 .. 0) -> B] /\ \A s \in SUBSET (1 .. 0) : g[s] = base
    OBVIOUS
  <2> HIDE DEF g
  <2>3. Folds(g, 0)
    BY <2>1, <2>2
  <2> QED BY <2>3
<1>2. ASSUME NEW k \in 0 .. n - 1, Has(k) PROVE Has(k + 1)
  <2>1. PICK h : Folds(h, k)
    BY <1>2
  <2> DEFINE g == [s \in SUBSET (1 .. k + 1) |->
                     IF k + 1 \in s THEN H[<<h[s \ {k + 1}], k + 1>>] ELSE h[s]]
  <2>2. ASSUME NEW s \in SUBSET (1 .. k + 1), k + 1 \notin s
        PROVE  s \in SUBSET (1 .. k) /\ g[s] = h[s] /\ g[s] \in B
               /\ g[s] = IF s = {} THEN base ELSE H[<<g[s \ {Max(s)}], Max(s)>>]
    <3>1. s \in SUBSET (1 .. k) /\ g[s] = h[s] /\ g[s] \in B
      BY <2>1, <2>2
    <3>2. s \ {Max(s)} \in SUBSET (1 .. k + 1) /\ k + 1 \notin s \ {Max(s)}
      BY <2>2
    <3>3. g[s \ {Max(s)}] = h[s \ {Max(s)}]
      BY <3>2
    <3> HIDE DEF g
    <3> QED BY <2>1, <3>1, <3>3
  <2>3. ASSUME NEW s \in SUBSET (1 .. k + 1), k + 1 \in s
        PROVE  g[s] \in B /\ g[s] = IF s = {} THEN base ELSE H[<<g[s \ {Max(s)}], Max(s)>>]
    <3>1. Max(s) \in s /\ \A i \in s : i <= Max(s)
      BY <2>3, s # {}, k + 1 \in Nat, MaxOfSome
    <3>2. Max(s) \in 1 .. k + 1 /\ k + 1 <= Max(s)
      BY <2>3, <3>1
    <3>3. Max(s) = k + 1
      BY <3>2
    <3>4. s \ {k + 1} \in SUBSET (1 .. k + 1) /\ k + 1 \notin s \ {k + 1}
      OBVIOUS
    <3>5. g[s \ {k + 1}] = h[s \ {k + 1}] /\ g[s \ {k + 1}] \in B
      BY <2>2, <3>4
    <3>6. g[s] = H[<<h[s \ {k + 1}], k + 1>>]
      BY <2>3
    <3> HIDE DEF g
    <3>7. H[<<g[s \ {k + 1}], k + 1>>] \in B
      BY <3>5
    <3> QED BY <2>3, <3>3, <3>5, <3>6, <3>7
  <2>4. Folds(g, k + 1)
    <3>1. g = [s \in SUBSET (1 .. k + 1) |-> g[s]]
      OBVIOUS
    <3> HIDE DEF g
    <3> QED BY <2>2, <2>3, <3>1
  <2> HIDE DEF g, Folds
  <2> QED BY <2>4
<1>3. Has(n)
  <2> HIDE DEF Has
  <2>1. 0 \in S
    BY <1>1
  <2>2. \A k \in 0 .. n - 1 : k \in S => k + 1 \in S
    BY <1>2
  <2> HIDE DEF S
  <2>3. 0 .. n \subseteq S
    BY <2>1, <2>2, UpTo
  <2>4. n \in S
    BY <2>3
  <2> QED BY <2>4 DEF S
<1>4. PICK g : Folds(g, n)
  BY <1>3
<1>5. {} \in SUBSET (1 .. n)
  OBVIOUS
<1> QED BY <1>4, <1>5 DEF IsFold

\* A list of all there is of something, each once.
Lists(order, D) ==
    \E n \in Nat : /\ order \in [1 .. n -> D]
                   /\ \A i, j \in 1 .. n : i # j => order[i] # order[j]
                   /\ {order[i] : i \in 1 .. n} = D

\* A sequence of all the members of a set has each of them once.
LEMMA ListsAll ==
    ASSUME NEW D, IsFiniteSet(D), NEW order \in SetToSeqs(D)
    PROVE  Lists(order, D)
<1> DEFINE n == Cardinality(D)
<1>1. n \in Nat
  BY FS_CardinalityType
<1>2. order \in [1 .. n -> D] /\ \A i, j \in 1 .. n : i # j => order[i] # order[j]
  BY DEF SetToSeqs
<1>3. order \in Injection(1 .. n, D)
  BY <1>2 DEF Injection, IsInjective
<1>4. Cardinality(1 .. n) = n
  BY <1>1, FS_Interval
<1> HIDE DEF n
<1>5. order \in Surjection(1 .. n, D)
  BY <1>3, <1>4, FS_Injection DEF n
<1>6. D = {order[i] : i \in 1 .. n}
  BY <1>2, <1>5 DEF Surjection
<1> QED BY <1>1, <1>2, <1>6 DEF Lists

LEMMA SeqsList ==
    ASSUME NEW D, IsFiniteSet(D)
    PROVE  /\ \A order \in SetToSeqs(D) : Lists(order, D)
           /\ Lists(SetToSeq(D), D)
<1>1. ASSUME NEW order \in SetToSeqs(D) PROVE Lists(order, D)
  BY <1>1, ListsAll
<1>2. SetToSeq(D) \in SetToSeqs(D)
  <2> DEFINE n == Cardinality(D)
  <2>1. PICK f : f \in Bijection(1 .. n, D)
    BY FS_CardinalityType DEF ExistsBijection
  <2>2. f \in [1 .. n -> D] /\ IsInjective(f)
    BY <2>1 DEF Bijection, Injection, IsInjective
  <2>3. SetToSeq(D) \in [1 .. n -> D] /\ IsInjective(SetToSeq(D))
    BY <2>2 DEF SetToSeq
  <2> HIDE DEF n
  <2>4. \A i, j \in 1 .. n : i # j => SetToSeq(D)[i] # SetToSeq(D)[j]
    BY <2>3 DEF IsInjective
  <2> QED BY <2>3, <2>4 DEF SetToSeqs, n
<1> QED BY <1>1, <1>2

-----------------------------------------------------------------------------
\* Sorting.
\* A list of what is in a set, each once, in an order.
IsListOf(list, S, order, n) ==
    /\ list \in [1 .. n -> S]
    /\ \A x \in S : \E i \in 1 .. n : list[i] = x
    /\ \A i, j \in 1 .. n : i < j => list[i] # list[j] /\ <<list[i], list[j]>> \in order

\* Of any two there is a first, and what comes before it comes before the other.
IsOrder(order, S) ==
    /\ \A x, y \in S : x # y => <<x, y>> \in order \/ <<y, x>> \in order
    /\ \A x, y, z \in S : x # z /\ <<x, y>> \in order /\ <<y, z>> \in order => <<x, z>> \in order

LEMMA FirstAndRest ==
    ASSUME NEW S, NEW order, IsOrder(order, S), NEW n \in Nat, NEW T \in SUBSET S, NEW x \in T,
           NEW list, IsListOf(list, T \ {x}, order, n), n # 0
    PROVE  \E m \in T : \A y \in T : y # m => <<m, y>> \in order
<1> DEFINE a == list[1]
<1>1. 1 \in 1 .. n /\ a \in T \ {x}
  BY DEF IsListOf
<1>2. \A y \in T \ {x} : y # a => <<a, y>> \in order
  BY <1>1 DEF IsListOf
<1>3. CASE <<a, x>> \in order
  BY <1>1, <1>2, <1>3
<1>4. CASE <<a, x>> \notin order
  <2>1. <<x, a>> \in order
    BY <1>1, <1>4 DEF IsOrder
  <2>2. ASSUME NEW y \in T, y # x PROVE <<x, y>> \in order
    <3>1. CASE y = a
      BY <2>1, <3>1
    <3>2. CASE y # a
      BY <1>1, <1>2, <2>1, <2>2, <3>2 DEF IsOrder
    <3> QED BY <3>1, <3>2
  <2> QED BY <2>2
<1> QED BY <1>3, <1>4

LEMMA OneBefore ==
    ASSUME NEW order, NEW n \in Nat, NEW T, NEW m \in T, \A y \in T : y # m => <<m, y>> \in order,
           NEW list, IsListOf(list, T \ {m}, order, n)
    PROVE  \E l : IsListOf(l, T, order, n + 1)
<1> DEFINE l == [i \in 1 .. n + 1 |-> IF i = 1 THEN m ELSE list[i - 1]]
<1>1. \A i \in 1 .. n + 1 : i # 1 => i - 1 \in 1 .. n /\ l[i] = list[i - 1]
  OBVIOUS
<1>2. l[1] = m /\ 1 \in 1 .. n + 1
  OBVIOUS
<1>3. l \in [1 .. n + 1 -> T]
  <2>1. \A i \in 1 .. n : list[i] \in T
    BY DEF IsListOf
  <2> QED BY <2>1
<1> HIDE DEF l
<1>4. ASSUME NEW x \in T PROVE \E i \in 1 .. n + 1 : l[i] = x
  <2>1. CASE x = m
    BY <1>2, <2>1
  <2>2. CASE x # m
    <3>1. PICK i \in 1 .. n : list[i] = x
      BY <2>2 DEF IsListOf
    <3>2. i + 1 \in 1 .. n + 1 /\ i + 1 # 1 /\ (i + 1) - 1 = i
      OBVIOUS
    <3> QED BY <1>1, <3>1, <3>2
  <2> QED BY <2>1, <2>2
<1>5. ASSUME NEW i \in 1 .. n + 1, NEW j \in 1 .. n + 1, i < j
      PROVE  l[i] # l[j] /\ <<l[i], l[j]>> \in order
  <2>1. j # 1 /\ j - 1 \in 1 .. n /\ l[j] = list[j - 1] /\ l[j] \in T \ {m}
    <3>1. j # 1
      BY <1>5
    <3> QED BY <1>1, <3>1 DEF IsListOf
  <2>2. CASE i = 1
    BY <1>2, <2>1, <2>2
  <2>3. CASE i # 1
    <3>1. i - 1 \in 1 .. n /\ l[i] = list[i - 1] /\ i - 1 < j - 1
      BY <1>1, <1>5, <2>3
    <3> QED BY <2>1, <3>1 DEF IsListOf
  <2> QED BY <2>2, <2>3
<1>6. IsListOf(l, T, order, n + 1)
  BY <1>3, <1>4, <1>5 DEF IsListOf
<1> QED BY <1>6

LEMMA SortedExists ==
    ASSUME NEW S, IsFiniteSet(S), NEW order, IsOrder(order, S)
    PROVE  \E list : IsListOf(list, S, order, Cardinality(S))
<1> DEFINE n == Cardinality(S)
           Has(k) == \A T \in SUBSET S : Cardinality(T) = k => \E list : IsListOf(list, T, order, k)
           K == {k \in 0 .. n : Has(k)}
<1>0. n \in Nat
  BY FS_CardinalityType
<1>1. Has(0)
  <2>1. ASSUME NEW T \in SUBSET S, Cardinality(T) = 0 PROVE \E list : IsListOf(list, T, order, 0)
    <3>1. T = {}
      BY <2>1, FS_Subset, FS_EmptySet
    <3>2. 1 .. 0 = {}
      OBVIOUS
    <3>3. IsListOf([i \in 1 .. 0 |-> i], T, order, 0)
      BY <3>1, <3>2 DEF IsListOf
    <3> QED BY <3>3
  <2> QED BY <2>1
<1>2. ASSUME NEW k \in 0 .. n - 1, Has(k) PROVE Has(k + 1)
  <2> SUFFICES ASSUME NEW T \in SUBSET S, Cardinality(T) = k + 1
               PROVE  \E list : IsListOf(list, T, order, k + 1)
    OBVIOUS
  <2> HIDE DEF n
  <2>1. IsFiniteSet(T) /\ k \in Nat
    BY <1>0, FS_Subset
  <2>2. ASSUME NEW x \in T PROVE \E list : IsListOf(list, T \ {x}, order, k)
    <3>1. Cardinality(T \ {x}) = k
      <4>1. Cardinality(T \ {x}) = Cardinality(T) - 1
        BY <2>1, FS_RemoveElement
      <4> QED BY <2>1, <4>1
    <3>2. T \ {x} \in SUBSET S
      OBVIOUS
    <3> QED BY <1>2, <3>1, <3>2
  <2>3. \E m \in T : \A y \in T : y # m => <<m, y>> \in order
    <3>1. PICK x \in T : TRUE
      BY <2>1, FS_EmptySet
    <3>2. PICK list : IsListOf(list, T \ {x}, order, k)
      BY <2>2
    <3>3. CASE k = 0
      <4>1. T = {x}
        BY <2>1, <3>3, FS_Singleton
      <4> QED BY <4>1
    <3>4. CASE k # 0
      BY <2>1, <3>2, <3>4, FirstAndRest
    <3> QED BY <3>3, <3>4
  <2>4. PICK m \in T : \A y \in T : y # m => <<m, y>> \in order
    BY <2>3
  <2>5. PICK list : IsListOf(list, T \ {m}, order, k)
    BY <2>2
  <2> QED BY <2>1, <2>4, <2>5, OneBefore
<1>3. Has(n)
  <2> HIDE DEF Has
  <2>1. 0 \in K
    BY <1>0, <1>1
  <2> HIDE DEF n
  <2>2. \A k \in 0 .. n - 1 : k \in K => k + 1 \in K
    BY <1>0, <1>2
  <2> HIDE DEF K
  <2>3. 0 .. n \subseteq K
    BY <1>0, <2>1, <2>2, UpTo
  <2>4. n \in K
    BY <1>0, <2>3
  <2> QED BY <2>4 DEF K
<1> QED BY <1>3

LEMMA SortedIs ==
    ASSUME NEW S, IsFiniteSet(S), NEW order, IsOrder(order, S)
    PROVE  Cardinality(S) \in Nat /\ IsListOf(Sorted(S, order), S, order, Cardinality(S))
<1> DEFINE n == Cardinality(S)
           Is(list) == list \in Bijection(1 .. n, S) /\ \A i, j \in DOMAIN list : i < j => <<list[i], list[j]>> \in order
<1>1. n \in Nat
  BY FS_CardinalityType
<1>2. PICK list : IsListOf(list, S, order, n)
  BY SortedExists
<1>3. Is(list)
  <2>1. list \in [1 .. n -> S] /\ DOMAIN list = 1 .. n
    BY <1>2 DEF IsListOf
  <2>2. ASSUME NEW i \in 1 .. n, NEW j \in 1 .. n, list[i] = list[j] PROVE i = j
    <3>1. i < j \/ j < i \/ i = j
      OBVIOUS
    <3> QED BY <1>2, <2>2, <3>1 DEF IsListOf
  <2>3. list \in Bijection(1 .. n, S)
    BY <1>2, <2>1, <2>2 DEF Bijection, Injection, Surjection, IsInjective, IsListOf
  <2> QED BY <1>2, <2>1, <2>3 DEF IsListOf
<1>4. Is(Sorted(S, order))
  <2>1. Sorted(S, order) = CHOOSE l : Is(l)
    BY DEF Sorted
  <2> HIDE DEF Is
  <2> QED BY <1>3, <2>1
<1>5. ASSUME NEW l, Is(l) PROVE IsListOf(l, S, order, n)
  <2> HIDE DEF n
  <2>1. l \in [1 .. n -> S] /\ DOMAIN l = 1 .. n /\ IsInjective(l) /\ \A x \in S : \E i \in 1 .. n : l[i] = x
    BY <1>5 DEF Bijection, Injection, Surjection
  <2>2. \A i, j \in 1 .. n : i < j => l[i] # l[j]
    BY <1>1, <2>1 DEF IsInjective
  <2> QED BY <1>5, <2>1, <2>2 DEF IsListOf
<1> QED BY <1>1, <1>4, <1>5

\* There is one list in an order in which no two come before each other.
LEMMA OneList ==
    ASSUME NEW S, NEW order, \A x, y \in S : ~(<<x, y>> \in order /\ <<y, x>> \in order),
           NEW n \in Nat, NEW l, IsListOf(l, S, order, n), NEW m, IsListOf(m, S, order, n)
    PROVE  l = m
<1> DEFINE K == {k \in 0 .. n : \A i \in 1 .. k : l[i] = m[i]}
<1>1. 0 \in K
  OBVIOUS
<1>2. ASSUME NEW k \in 0 .. n - 1, k \in K PROVE k + 1 \in K
  <2>1. k + 1 \in 1 .. n /\ \A i \in 1 .. k : i \in 1 .. n /\ l[i] = m[i]
    BY <1>2
  <2> DEFINE j == k + 1
  <2>2. ASSUME NEW a, IsListOf(a, S, order, n), NEW b, IsListOf(b, S, order, n), \A i \in 1 .. k : a[i] = b[i],
               a[j] # b[j]
        PROVE  <<a[j], b[j]>> \in order
    <3>1. b[j] \in S /\ j \in 1 .. n
      BY <2>1, <2>2 DEF IsListOf
    <3>2. PICK p \in 1 .. n : a[p] = b[j]
      BY <2>2, <3>1 DEF IsListOf
    <3>3. p # j
      BY <2>2, <3>2
    <3>4. ~(p < j)
      <4>1. SUFFICES ASSUME p < j PROVE FALSE
        OBVIOUS
      <4>2. p \in 1 .. k
        BY <4>1
      <4>3. b[p] = b[j]
        BY <2>2, <3>2, <4>2
      <4> QED BY <2>2, <3>1, <4>1, <4>3 DEF IsListOf
    <3>5. j < p
      BY <3>3, <3>4
    <3> QED BY <2>2, <3>1, <3>2, <3>5 DEF IsListOf
  <2>3. l[j] = m[j]
    <3>1. SUFFICES ASSUME l[j] # m[j] PROVE FALSE
      OBVIOUS
    <3>2. <<l[j], m[j]>> \in order /\ <<m[j], l[j]>> \in order
      BY <2>1, <2>2, <3>1
    <3>3. l[j] \in S /\ m[j] \in S
      BY <2>1 DEF IsListOf
    <3> QED BY <3>2, <3>3
  <2>4. \A i \in 1 .. k + 1 : i \in 1 .. k \/ i = k + 1
    OBVIOUS
  <2> QED BY <2>1, <2>3, <2>4
<1>3. \A i \in 1 .. n : l[i] = m[i]
  <2> HIDE DEF K
  <2>1. 0 .. n \subseteq K
    BY <1>1, <1>2, UpTo
  <2>2. n \in K
    BY <2>1
  <2> QED BY <2>2 DEF K
<1>4. l \in [1 .. n -> S] /\ m \in [1 .. n -> S]
  BY DEF IsListOf
<1> QED BY <1>3, <1>4

-----------------------------------------------------------------------------
\* A list whose members are each made from the one before.
IsChain(f, n, B, base, H) ==
    /\ f \in [0 .. n -> B] /\ f[0] = base
    /\ \A k \in 1 .. n : f[k] = H[<<f[k - 1], k>>]

LEMMA RecursionExists ==
    ASSUME NEW n \in Nat, NEW B, NEW base \in B, NEW H \in [B \X (1 .. n) -> B]
    PROVE  \E f : IsChain(f, n, B, base, H)
<1> DEFINE Has(k) == \E f : IsChain(f, k, B, base, H)
           S == {k \in 0 .. n : Has(k)}
<1>1. Has(0)
  <2> DEFINE f == [k \in 0 .. 0 |-> base]
  <2>1. f \in [0 .. 0 -> B] /\ f[0] = base
    OBVIOUS
  <2>2. 1 .. 0 = {}
    OBVIOUS
  <2> HIDE DEF f
  <2>3. IsChain(f, 0, B, base, H)
    BY <2>1, <2>2 DEF IsChain
  <2> QED BY <2>3
<1>2. ASSUME NEW k \in 0 .. n - 1, Has(k) PROVE Has(k + 1)
  <2>0. PICK f : IsChain(f, k, B, base, H)
    BY <1>2
  <2>1. f \in [0 .. k -> B] /\ f[0] = base /\ \A i \in 1 .. k : f[i] = H[<<f[i - 1], i>>]
    BY <2>0 DEF IsChain
  <2> DEFINE next == H[<<f[k], k + 1>>]
             g == [i \in 0 .. k + 1 |-> IF i = k + 1 THEN next ELSE f[i]]
  <2>2. next \in B
    <3>1. f[k] \in B /\ k + 1 \in 1 .. n
      BY <2>1
    <3> QED BY <3>1
  <2> HIDE DEF next
  <2>3. g \in [0 .. k + 1 -> B] /\ g[0] = base /\ g[k + 1] = next /\ \A i \in 0 .. k : g[i] = f[i]
    BY <2>1, <2>2
  <2> HIDE DEF g
  <2>4. ASSUME NEW i \in 1 .. k + 1 PROVE g[i] = H[<<g[i - 1], i>>]
    <3>1. CASE i = k + 1
      <4>1. i - 1 = k /\ k \in 0 .. k
        BY <3>1
      <4> QED BY <2>3, <3>1, <4>1 DEF next
    <3>2. CASE i # k + 1
      <4>1. i \in 1 .. k /\ i \in 0 .. k /\ i - 1 \in 0 .. k
        BY <3>2
      <4> QED BY <2>1, <2>3, <4>1
    <3> QED BY <3>1, <3>2
  <2>5. IsChain(g, k + 1, B, base, H)
    BY <2>3, <2>4 DEF IsChain
  <2> QED BY <2>5
<1>3. Has(n)
  <2> HIDE DEF Has
  <2>1. 0 \in S
    BY <1>1
  <2>2. \A k \in 0 .. n - 1 : k \in S => k + 1 \in S
    BY <1>2
  <2> HIDE DEF S
  <2>3. 0 .. n \subseteq S
    BY <2>1, <2>2, UpTo
  <2>4. n \in S
    BY <2>3
  <2> QED BY <2>4 DEF S
<1> QED BY <1>3

\* A property of the cells of a table that each has if the cell before it in its
\* row, and the row before, have it.
LEMMA CellByCell ==
    ASSUME NEW m \in Nat, NEW n \in Nat, NEW S,
           \A j \in 0 .. m, i \in 0 .. n :
              /\ j # 0 => \A k \in 0 .. n : <<j - 1, k>> \in S
              /\ i # 0 => <<j, i - 1>> \in S
              => <<j, i>> \in S
    PROVE  \A j \in 0 .. m, i \in 0 .. n : <<j, i>> \in S
<1> DEFINE RowDone(j) == \A i \in 0 .. n : <<j, i>> \in S
           Done == {j \in 0 .. m : RowDone(j)}
<1>1. ASSUME NEW j \in 0 .. m, j # 0 => RowDone(j - 1) PROVE RowDone(j)
  <2> DEFINE T == {i \in 0 .. n : <<j, i>> \in S}
  <2>1. 0 \in T
    <3>1. 0 \in 0 .. n
      OBVIOUS
    <3> QED BY <1>1, <3>1
  <2>2. \A k \in 0 .. n - 1 : k \in T => k + 1 \in T
    <3> SUFFICES ASSUME NEW k \in 0 .. n - 1, k \in T PROVE k + 1 \in T
      OBVIOUS
    <3>1. k + 1 \in 0 .. n /\ (k + 1) - 1 = k /\ k + 1 # 0
      OBVIOUS
    <3> QED BY <1>1, <3>1
  <2> HIDE DEF T
  <2>3. 0 .. n \subseteq T
    BY <2>1, <2>2, UpTo
  <2> QED BY <2>3 DEF T
<1> HIDE DEF RowDone
<1>2. 0 \in Done
  <2>1. 0 \in 0 .. m
    OBVIOUS
  <2> QED BY <1>1, <2>1
<1>3. \A j \in 0 .. m - 1 : j \in Done => j + 1 \in Done
  <2> SUFFICES ASSUME NEW j \in 0 .. m - 1, j \in Done PROVE j + 1 \in Done
    OBVIOUS
  <2>1. j + 1 \in 0 .. m /\ (j + 1) - 1 = j
    OBVIOUS
  <2> QED BY <1>1, <2>1
<1> HIDE DEF Done
<1>4. 0 .. m \subseteq Done
  BY <1>2, <1>3, UpTo
<1> QED BY <1>4 DEF Done, RowDone

-----------------------------------------------------------------------------
\* Distances.
LEMMA MinOfThree ==
    ASSUME NEW a \in Nat, NEW b \in Nat, NEW c \in Nat
    PROVE  LET m == Min({a, b, c})
           IN  m \in Nat /\ m <= a /\ m <= b /\ m <= c /\ (m = a \/ m = b \/ m = c)
<1>1. \E x \in {a, b, c} : \A y \in {a, b, c} : x =< y
  OBVIOUS
<1> QED BY <1>1 DEF Min

IsRow(row, before, s, c, j) ==
    row = [i \in 0 .. Len(s) |->
             IF i = 0 THEN j
             ELSE Min({before[i] + 1, row[i - 1] + 1, before[i - 1] + IF s[i] = c THEN 0 ELSE 1})]

\* cell is made of the three next to it.
IsLeast(cell, above, left, corner, same) ==
    /\ cell \in Nat /\ above \in Nat /\ left \in Nat /\ corner \in Nat
    /\ cell <= above + 1 /\ cell <= left + 1 /\ cell <= corner + 1 /\ (same => cell <= corner)
    /\ \/ cell = above + 1 \/ cell = left + 1
       \/ (~same /\ cell = corner + 1) \/ (same /\ cell = corner)

LEMMA LeastOfThree ==
    ASSUME NEW above \in Nat, NEW left \in Nat, NEW corner \in Nat, NEW same \in BOOLEAN,
           NEW cell, cell = Min({above + 1, left + 1, corner + IF same THEN 0 ELSE 1})
    PROVE  IsLeast(cell, above, left, corner, same)
<1> DEFINE last == corner + IF same THEN 0 ELSE 1
<1>1. above + 1 \in Nat /\ left + 1 \in Nat /\ last \in Nat
  OBVIOUS
<1>2. /\ cell \in Nat /\ cell <= above + 1 /\ cell <= left + 1 /\ cell <= last
      /\ cell = above + 1 \/ cell = left + 1 \/ cell = last
  <2> HIDE DEF last
  <2>1. cell = Min({above + 1, left + 1, last})
    BY DEF last
  <2> QED BY <1>1, <2>1, MinOfThree
<1>3. CASE same
  BY <1>2, <1>3 DEF IsLeast
<1>4. CASE ~same
  BY <1>2, <1>4 DEF IsLeast
<1> QED BY <1>3, <1>4

LEMMA RowIsLeast ==
    ASSUME NEW s, Len(s) \in Nat, NEW before \in [0 .. Len(s) -> Nat], NEW c, NEW j \in Nat
    PROVE  LET row == NextRow(before, s, c, j)
           IN  /\ row \in [0 .. Len(s) -> Nat] /\ row[0] = j
               /\ \A i \in 1 .. Len(s) : IsLeast(row[i], before[i], row[i - 1], before[i - 1], s[i] = c)
<1> DEFINE n == Len(s)
           H == [p \in Nat \X (1 .. n) |->
                   Min({before[p[2]] + 1, p[1] + 1, before[p[2] - 1] + IF s[p[2]] = c THEN 0 ELSE 1})]
           row == NextRow(before, s, c, j)
<1>0. \A i \in 1 .. n : i \in 0 .. n /\ i - 1 \in 0 .. n /\ i # 0
  OBVIOUS
<1>1. \A i \in 1 .. n : before[i] \in Nat /\ before[i - 1] \in Nat
  BY <1>0
<1>2. H \in [Nat \X (1 .. n) -> Nat]
  <2>1. ASSUME NEW p \in Nat \X (1 .. n)
        PROVE  Min({before[p[2]] + 1, p[1] + 1, before[p[2] - 1] + IF s[p[2]] = c THEN 0 ELSE 1}) \in Nat
    <3>1. p[1] \in Nat /\ p[2] \in 1 .. n
      OBVIOUS
    <3>2. before[p[2]] + 1 \in Nat /\ p[1] + 1 \in Nat /\ before[p[2] - 1] + (IF s[p[2]] = c THEN 0 ELSE 1) \in Nat
      BY <1>1, <3>1
    <3> QED BY <3>2, MinOfThree
  <2> QED BY <2>1
<1>3. PICK f : f \in [0 .. n -> Nat] /\ f[0] = j /\ \A k \in 1 .. n : f[k] = H[<<f[k - 1], k>>]
  <2> HIDE DEF H
  <2>1. PICK f : IsChain(f, n, Nat, j, H)
    BY <1>2, RecursionExists
  <2> QED BY <2>1 DEF IsChain
<1>4. IsRow(f, before, s, c, j)
  <2>1. ASSUME NEW i \in 0 .. n
        PROVE  f[i] = IF i = 0 THEN j
                      ELSE Min({before[i] + 1, f[i - 1] + 1, before[i - 1] + IF s[i] = c THEN 0 ELSE 1})
    <3>1. CASE i = 0
      BY <1>3, <3>1
    <3>2. CASE i # 0
      <4>1. i \in 1 .. n /\ i - 1 \in 0 .. n
        BY <3>2
      <4>2. f[i - 1] \in Nat
        BY <1>3, <4>1
      <4>3. f[i] = H[<<f[i - 1], i>>]
        BY <1>3, <4>1
      <4>4. <<f[i - 1], i>> \in Nat \X (1 .. n)
        BY <4>1, <4>2
      <4> QED BY <3>2, <4>3, <4>4
    <3> QED BY <3>1, <3>2
  <2>2. f = [i \in 0 .. n |-> f[i]]
    BY <1>3
  <2> QED BY <2>1, <2>2 DEF IsRow
<1>5. row = CHOOSE r : IsRow(r, before, s, c, j)
  BY DEF NextRow, IsRow
<1>6. IsRow(row, before, s, c, j)
  BY <1>4, <1>5
<1> HIDE DEF row, H
<1>7. /\ DOMAIN row = 0 .. n /\ row = [i \in 0 .. n |-> row[i]]
      /\ \A i \in 0 .. n : row[i] = IF i = 0 THEN j
            ELSE Min({before[i] + 1, row[i - 1] + 1, before[i - 1] + IF s[i] = c THEN 0 ELSE 1})
  BY <1>6 DEF IsRow
<1>8. row[0] = j
  BY <1>7, 0 \in 0 .. n
<1> DEFINE T == {i \in 0 .. n : row[i] \in Nat}
<1>9. ASSUME NEW i \in 1 .. n, row[i - 1] \in Nat
      PROVE  row[i] \in Nat /\ IsLeast(row[i], before[i], row[i - 1], before[i - 1], s[i] = c)
  <2>1. row[i] = Min({before[i] + 1, row[i - 1] + 1, before[i - 1] + IF s[i] = c THEN 0 ELSE 1})
    BY <1>0, <1>7
  <2>2. before[i] \in Nat /\ row[i - 1] \in Nat /\ before[i - 1] \in Nat
    BY <1>1, <1>9
  <2>3. IsLeast(row[i], before[i], row[i - 1], before[i - 1], s[i] = c)
    BY <2>1, <2>2, LeastOfThree
  <2> QED BY <2>3 DEF IsLeast
<1>10. 0 .. n \subseteq T
  <2>1. 0 \in T
    BY <1>8
  <2>2. \A k \in 0 .. n - 1 : k \in T => k + 1 \in T
    <3> SUFFICES ASSUME NEW k \in 0 .. n - 1, k \in T PROVE k + 1 \in T
      OBVIOUS
    <3>1. k + 1 \in 1 .. n /\ (k + 1) - 1 = k /\ k + 1 \in 0 .. n
      OBVIOUS
    <3> QED BY <1>9, <3>1
  <2> HIDE DEF T
  <2> QED BY <2>1, <2>2, UpTo
<1>11. \A i \in 0 .. n : row[i] \in Nat
  BY <1>10
<1>12. row \in [0 .. n -> Nat]
  BY <1>7, <1>11
<1>13. \A i \in 1 .. n : IsLeast(row[i], before[i], row[i - 1], before[i - 1], s[i] = c)
  BY <1>0, <1>9, <1>11
<1> QED BY <1>8, <1>12, <1>13 DEF row

IsTable(rows, s, t) ==
    rows = [j \in 0 .. Len(t) |-> IF j = 0 THEN [i \in 0 .. Len(s) |-> i] ELSE NextRow(rows[j - 1], s, t[j], j)]

\* The whole of what levenshtein_distance fills row by row, when it never gives up.
Table(s, t) == CHOOSE rows : IsTable(rows, s, t)

\* Its cells are numbers made of their neighbours.
IsGrid(d, s, t) ==
    /\ d \in [0 .. Len(t) -> [0 .. Len(s) -> Nat]]
    /\ \A i \in 0 .. Len(s) : d[0][i] = i
    /\ \A j \in 0 .. Len(t) : d[j][0] = j
    /\ \A j \in 1 .. Len(t), i \in 1 .. Len(s) :
          IsLeast(d[j][i], d[j - 1][i], d[j][i - 1], d[j - 1][i - 1], s[i] = t[j])

LEMMA TableIsGrid ==
    ASSUME NEW s, NEW t, Len(s) \in Nat, Len(t) \in Nat
    PROVE  IsGrid(Table(s, t), s, t)
<1> DEFINE n == Len(s)
           m == Len(t)
           B == [0 .. n -> Nat]
           first == [i \in 0 .. n |-> i]
           H == [p \in B \X (1 .. m) |-> NextRow(p[1], s, t[p[2]], p[2])]
           d == Table(s, t)
<1>1. first \in B
  OBVIOUS
<1>2. H \in [B \X (1 .. m) -> B]
  <2>1. ASSUME NEW p \in B \X (1 .. m) PROVE NextRow(p[1], s, t[p[2]], p[2]) \in B
    <3>1. p[1] \in [0 .. Len(s) -> Nat] /\ p[2] \in Nat
      OBVIOUS
    <3> QED BY <3>1, RowIsLeast
  <2> HIDE DEF B
  <2> QED BY <2>1
<1>3. PICK f : f \in [0 .. m -> B] /\ f[0] = first /\ \A k \in 1 .. m : f[k] = H[<<f[k - 1], k>>]
  <2> HIDE DEF H, first, B
  <2>1. PICK f : IsChain(f, m, B, first, H)
    BY <1>1, <1>2, RecursionExists
  <2> QED BY <2>1 DEF IsChain
<1>4. IsTable(f, s, t)
  <2>1. ASSUME NEW j \in 0 .. m
        PROVE  f[j] = IF j = 0 THEN first ELSE NextRow(f[j - 1], s, t[j], j)
    <3>1. CASE j = 0
      BY <1>3, <3>1
    <3>2. CASE j # 0
      <4>1. j \in 1 .. m /\ j - 1 \in 0 .. m
        BY <3>2
      <4> HIDE DEF B
      <4>2. f[j - 1] \in B
        BY <1>3, <4>1
      <4>3. f[j] = H[<<f[j - 1], j>>]
        BY <1>3, <4>1
      <4>4. <<f[j - 1], j>> \in B \X (1 .. m)
        BY <4>1, <4>2
      <4> QED BY <3>2, <4>3, <4>4
    <3> QED BY <3>1, <3>2
  <2>2. f = [j \in 0 .. m |-> f[j]]
    BY <1>3
  <2> QED BY <2>1, <2>2 DEF IsTable
<1>5. IsTable(d, s, t)
  BY <1>4 DEF Table
<1> HIDE DEF d, H
<1>6. /\ d = [j \in 0 .. m |-> d[j]]
      /\ \A j \in 0 .. m : d[j] = IF j = 0 THEN first ELSE NextRow(d[j - 1], s, t[j], j)
  BY <1>5 DEF IsTable
<1>7. d[0] = first
  BY <1>6, 0 \in 0 .. m
<1>8. ASSUME NEW j \in 1 .. m, d[j - 1] \in B
      PROVE  /\ d[j] \in B /\ d[j][0] = j
             /\ \A i \in 1 .. n : IsLeast(d[j][i], d[j - 1][i], d[j][i - 1], d[j - 1][i - 1], s[i] = t[j])
  <2>1. j \in Nat /\ j \in 0 .. m /\ j # 0
    OBVIOUS
  <2>2. d[j] = NextRow(d[j - 1], s, t[j], j)
    BY <1>6, <2>1
  <2> QED BY <1>8, <2>1, <2>2, RowIsLeast
<1> DEFINE T == {j \in 0 .. m : d[j] \in B}
<1>9. 0 .. m \subseteq T
  <2> HIDE DEF B
  <2>1. 0 \in T
    BY <1>1, <1>7
  <2>2. \A k \in 0 .. m - 1 : k \in T => k + 1 \in T
    <3> SUFFICES ASSUME NEW k \in 0 .. m - 1, k \in T PROVE k + 1 \in T
      OBVIOUS
    <3>1. k + 1 \in 1 .. m /\ (k + 1) - 1 = k /\ k + 1 \in 0 .. m
      OBVIOUS
    <3> QED BY <1>8, <3>1
  <2> HIDE DEF T
  <2> QED BY <2>1, <2>2, UpTo
<1>10. \A j \in 0 .. m : d[j] \in B
  <2> HIDE DEF B
  <2> QED BY <1>9
<1>11. d \in [0 .. m -> B]
  <2> HIDE DEF B
  <2> QED BY <1>6, <1>10
<1>12. \A j \in 1 .. m : j - 1 \in 0 .. m
  OBVIOUS
<1>13. \A j \in 1 .. m, i \in 1 .. n :
          IsLeast(d[j][i], d[j - 1][i], d[j][i - 1], d[j - 1][i - 1], s[i] = t[j])
  <2> HIDE DEF B
  <2> QED BY <1>8, <1>10, <1>12
<1>14. \A j \in 0 .. m : d[j][0] = j
  <2> SUFFICES ASSUME NEW j \in 0 .. m PROVE d[j][0] = j
    OBVIOUS
  <2>1. CASE j = 0
    <3>1. d[0][0] = 0
      BY <1>7, 0 \in 0 .. n
    <3> QED BY <2>1, <3>1
  <2>2. CASE j # 0
    <3>1. j \in 1 .. m
      BY <2>2
    <3> HIDE DEF B
    <3> QED BY <1>8, <1>10, <1>12, <3>1
  <2> QED BY <2>1, <2>2
<1>15. \A i \in 0 .. n : d[0][i] = i
  BY <1>7
<1> QED BY <1>11, <1>13, <1>14, <1>15 DEF IsGrid, d

LEMMA CellsOf ==
    ASSUME NEW d, NEW s, NEW t, Len(s) \in Nat, Len(t) \in Nat, IsGrid(d, s, t)
    PROVE  /\ \A j \in 0 .. Len(t), i \in 0 .. Len(s) : d[j][i] \in Nat
           /\ \A i \in 0 .. Len(s) : d[0][i] = i
           /\ \A j \in 0 .. Len(t) : d[j][0] = j
           /\ \A j \in 0 .. Len(t), i \in 0 .. Len(s) :
                 j # 0 /\ i # 0 =>
                    /\ j - 1 \in 0 .. Len(t) /\ i - 1 \in 0 .. Len(s)
                    /\ IsLeast(d[j][i], d[j - 1][i], d[j][i - 1], d[j - 1][i - 1], s[i] = t[j])
<1>1. \A j \in 0 .. Len(t), i \in 0 .. Len(s) : d[j][i] \in Nat
  BY DEF IsGrid
<1>2. ASSUME NEW j \in 0 .. Len(t), NEW i \in 0 .. Len(s), j # 0, i # 0
      PROVE  /\ j - 1 \in 0 .. Len(t) /\ i - 1 \in 0 .. Len(s)
             /\ IsLeast(d[j][i], d[j - 1][i], d[j][i - 1], d[j - 1][i - 1], s[i] = t[j])
  <2>1. j \in 1 .. Len(t) /\ j - 1 \in 0 .. Len(t) /\ i \in 1 .. Len(s) /\ i - 1 \in 0 .. Len(s)
    BY <1>2
  <2> QED BY <2>1 DEF IsGrid
<1>3. /\ \A i \in 0 .. Len(s) : d[0][i] = i
      /\ \A j \in 0 .. Len(t) : d[j][0] = j
  BY DEF IsGrid
<1> QED BY <1>1, <1>2, <1>3

Close(a, b) == a \in Nat /\ b \in Nat /\ a <= b + 1 /\ b <= a + 1

LEMMA LeastIsClose ==
    ASSUME NEW cell, NEW above, NEW left, NEW corner, NEW same, IsLeast(cell, above, left, corner, same),
           Close(above, corner), Close(left, corner)
    PROVE  Close(cell, above) /\ Close(cell, left)
BY DEF IsLeast, Close

\* One letter more in either word is one edit more at most.
LEMMA NeighboursAreClose ==
    ASSUME NEW d, NEW s, NEW t, Len(s) \in Nat, Len(t) \in Nat, IsGrid(d, s, t)
    PROVE  \A j \in 0 .. Len(t), i \in 0 .. Len(s) :
              /\ i # 0 => Close(d[j][i], d[j][i - 1])
              /\ j # 0 => Close(d[j][i], d[j - 1][i])
<1> DEFINE n == Len(s)
           m == Len(t)
           P(j, i) == /\ i # 0 => Close(d[j][i], d[j][i - 1])
                      /\ j # 0 => Close(d[j][i], d[j - 1][i])
           S == {p \in (0 .. m) \X (0 .. n) : P(p[1], p[2])}
<1>1. ASSUME NEW j \in 0 .. m, NEW i \in 0 .. n,
             j # 0 => \A k \in 0 .. n : P(j - 1, k), i # 0 => P(j, i - 1)
      PROVE  P(j, i)
  <2>1. CASE j = 0
    <3>1. CASE i # 0
      <4>1. i - 1 \in 0 .. n /\ Close(i, i - 1)
        BY <3>1 DEF Close
      <4>2. d[0][i] = i /\ d[0][i - 1] = i - 1
        BY <4>1, CellsOf
      <4> QED BY <2>1, <4>1, <4>2
    <3> QED BY <2>1, <3>1
  <2>2. CASE i = 0
    <3>1. CASE j # 0
      <4>1. j - 1 \in 0 .. m /\ Close(j, j - 1)
        BY <3>1 DEF Close
      <4>2. d[j][0] = j /\ d[j - 1][0] = j - 1
        BY <4>1, CellsOf
      <4> QED BY <2>2, <4>1, <4>2
    <3> QED BY <2>2, <3>1
  <2>3. CASE j # 0 /\ i # 0
    <3>1. P(j - 1, i) /\ P(j, i - 1)
      BY <1>1, <2>3
    <3>2. Close(d[j - 1][i], d[j - 1][i - 1]) /\ Close(d[j][i - 1], d[j - 1][i - 1])
      BY <2>3, <3>1
    <3>3. IsLeast(d[j][i], d[j - 1][i], d[j][i - 1], d[j - 1][i - 1], s[i] = t[j])
      BY <2>3, CellsOf
    <3>4. Close(d[j][i], d[j - 1][i]) /\ Close(d[j][i], d[j][i - 1])
      BY <3>2, <3>3, LeastIsClose
    <3> QED BY <3>4
  <2> QED BY <2>1, <2>2, <2>3
<1>2. \A j \in 0 .. m, i \in 0 .. n : <<j, i>> \in S
  <2> HIDE DEF P
  <2>1. \A j \in 0 .. m, i \in 0 .. n :
           /\ j # 0 => \A k \in 0 .. n : <<j - 1, k>> \in S
           /\ i # 0 => <<j, i - 1>> \in S
           => <<j, i>> \in S
    BY <1>1
  <2> HIDE DEF S
  <2> QED BY <2>1, CellByCell
<1>3. \A j \in 0 .. m, i \in 0 .. n : P(j, i)
  <2> HIDE DEF P
  <2> QED BY <1>2
<1> QED BY <1>3

\* The distance of two beginnings is at least the difference of their lengths,
\* so that words whose lengths differ by more than the limit can be given up.
LEMMA FarIsFar ==
    ASSUME NEW d, NEW s, NEW t, Len(s) \in Nat, Len(t) \in Nat, IsGrid(d, s, t)
    PROVE  \A j \in 0 .. Len(t), i \in 0 .. Len(s) : d[j][i] >= i - j /\ d[j][i] >= j - i
<1> DEFINE n == Len(s)
           m == Len(t)
           P(j, i) == d[j][i] >= i - j /\ d[j][i] >= j - i
           S == {p \in (0 .. m) \X (0 .. n) : P(p[1], p[2])}
<1>1. ASSUME NEW j \in 0 .. m, NEW i \in 0 .. n,
             j # 0 => \A k \in 0 .. n : P(j - 1, k), i # 0 => P(j, i - 1)
      PROVE  P(j, i)
  <2>1. CASE j = 0
    <3>1. d[0][i] = i
      BY CellsOf
    <3> QED BY <2>1, <3>1
  <2>2. CASE i = 0
    <3>1. d[j][0] = j
      BY CellsOf
    <3> QED BY <2>2, <3>1
  <2>3. CASE j # 0 /\ i # 0
    <3> DEFINE cell == d[j][i]
               above == d[j - 1][i]
               left == d[j][i - 1]
               corner == d[j - 1][i - 1]
    <3>1. i - 1 \in 0 .. n
      BY <2>3
    <3>2. P(j - 1, i) /\ P(j, i - 1) /\ P(j - 1, i - 1)
      BY <1>1, <2>3, <3>1
    <3>3. IsLeast(cell, above, left, corner, s[i] = t[j])
      BY <2>3, CellsOf
    <3>4. /\ above >= i - (j - 1) /\ above >= (j - 1) - i
          /\ left >= (i - 1) - j /\ left >= j - (i - 1)
          /\ corner >= (i - 1) - (j - 1) /\ corner >= (j - 1) - (i - 1)
      BY <3>2
    <3> HIDE DEF cell, above, left, corner
    <3>5. cell >= i - j /\ cell >= j - i
      <4>1. /\ cell \in Nat /\ above \in Nat /\ left \in Nat /\ corner \in Nat
            /\ cell = above + 1 \/ cell = left + 1 \/ cell = corner + 1 \/ cell = corner
        BY <3>3 DEF IsLeast
      <4> QED BY <3>4, <4>1
    <3> QED BY <3>5 DEF cell
  <2> QED BY <2>1, <2>2, <2>3
<1>2. \A j \in 0 .. m, i \in 0 .. n : <<j, i>> \in S
  <2> HIDE DEF P
  <2>1. \A j \in 0 .. m, i \in 0 .. n :
           /\ j # 0 => \A k \in 0 .. n : <<j - 1, k>> \in S
           /\ i # 0 => <<j, i - 1>> \in S
           => <<j, i>> \in S
    BY <1>1
  <2> HIDE DEF S
  <2> QED BY <2>1, CellByCell
<1>3. \A j \in 0 .. m, i \in 0 .. n : P(j, i)
  <2> HIDE DEF P
  <2> QED BY <1>2
<1> QED BY <1>3

\* Once a whole row is above the limit all rows below it are.
LEMMA HopelessStays ==
    ASSUME NEW d, NEW s, NEW t, Len(s) \in Nat, Len(t) \in Nat, IsGrid(d, s, t), NEW limit \in Nat,
           NEW from \in 0 .. Len(t), \A i \in 0 .. Len(s) : d[from][i] > limit
    PROVE  \A j \in from .. Len(t), i \in 0 .. Len(s) : d[j][i] > limit
<1> DEFINE n == Len(s)
           m == Len(t)
           P(j, i) == j >= from => d[j][i] > limit
           S == {p \in (0 .. m) \X (0 .. n) : P(p[1], p[2])}
<1>1. ASSUME NEW j \in 0 .. m, NEW i \in 0 .. n,
             j # 0 => \A k \in 0 .. n : P(j - 1, k), i # 0 => P(j, i - 1)
      PROVE  P(j, i)
  <2>1. CASE j <= from
    <3>1. j >= from => j = from
      BY <2>1
    <3> QED BY <3>1
  <2>2. CASE j > from /\ i = 0
    <3>1. j # 0 /\ j - 1 >= from /\ j - 1 \in 0 .. m /\ 0 \in 0 .. n
      BY <2>2
    <3>2. d[j][0] = j /\ d[j - 1][0] = j - 1
      BY <3>1, CellsOf
    <3>3. d[j - 1][0] > limit
      BY <1>1, <3>1
    <3>4. j > limit
      BY <3>2, <3>3
    <3> QED BY <2>2, <3>2, <3>4
  <2>3. CASE j > from /\ i # 0
    <3> DEFINE cell == d[j][i]
               above == d[j - 1][i]
               left == d[j][i - 1]
               corner == d[j - 1][i - 1]
    <3>1. i - 1 \in 0 .. n /\ j # 0 /\ j - 1 >= from /\ j >= from
      BY <2>3
    <3>2. P(j - 1, i) /\ P(j, i - 1) /\ P(j - 1, i - 1)
      BY <1>1, <2>3, <3>1
    <3>3. IsLeast(cell, above, left, corner, s[i] = t[j])
      BY <2>3, <3>1, CellsOf
    <3>4. above > limit /\ left > limit /\ corner > limit
      BY <3>1, <3>2
    <3> HIDE DEF cell, above, left, corner
    <3>5. cell > limit
      BY <3>3, <3>4 DEF IsLeast
    <3> QED BY <3>5 DEF cell
  <2> QED BY <2>1, <2>2, <2>3
<1>2. \A j \in 0 .. m, i \in 0 .. n : <<j, i>> \in S
  <2> HIDE DEF P
  <2>1. \A j \in 0 .. m, i \in 0 .. n :
           /\ j # 0 => \A k \in 0 .. n : <<j - 1, k>> \in S
           /\ i # 0 => <<j, i - 1>> \in S
           => <<j, i>> \in S
    BY <1>1
  <2> HIDE DEF S
  <2> QED BY <2>1, CellByCell
<1>3. \A j \in 0 .. m, i \in 0 .. n : P(j, i)
  <2> HIDE DEF P
  <2> QED BY <1>2
<1>4. \A j \in from .. m : j \in 0 .. m /\ j >= from
  OBVIOUS
<1> QED BY <1>3, <1>4

\* A word is as far from another as the other is from it.
LEMMA TablesMirror ==
    ASSUME NEW d, NEW e, NEW s, NEW t, Len(s) \in Nat, Len(t) \in Nat, IsGrid(d, s, t), IsGrid(e, t, s)
    PROVE  \A j \in 0 .. Len(t), i \in 0 .. Len(s) : d[j][i] = e[i][j]
<1> DEFINE n == Len(s)
           m == Len(t)
           P(j, i) == d[j][i] = e[i][j]
           S == {p \in (0 .. m) \X (0 .. n) : P(p[1], p[2])}
<1>1. ASSUME NEW j \in 0 .. m, NEW i \in 0 .. n,
             j # 0 => \A k \in 0 .. n : P(j - 1, k), i # 0 => P(j, i - 1)
      PROVE  P(j, i)
  <2>1. CASE j = 0
    <3>1. d[0][i] = i /\ e[i][0] = i
      BY CellsOf
    <3> QED BY <2>1, <3>1
  <2>2. CASE i = 0
    <3>1. d[j][0] = j /\ e[0][j] = j
      BY CellsOf
    <3> QED BY <2>2, <3>1
  <2>3. CASE j # 0 /\ i # 0
    <3> DEFINE cell == d[j][i]
               above == d[j - 1][i]
               left == d[j][i - 1]
               corner == d[j - 1][i - 1]
               mirror == e[i][j]
    <3>1. i - 1 \in 0 .. n
      BY <2>3
    <3>2. P(j - 1, i) /\ P(j, i - 1) /\ P(j - 1, i - 1)
      BY <1>1, <2>3, <3>1
    <3>3. IsLeast(cell, above, left, corner, s[i] = t[j])
      BY <2>3, CellsOf
    <3>4. IsLeast(mirror, e[i - 1][j], e[i][j - 1], e[i - 1][j - 1], t[j] = s[i])
      BY <2>3, CellsOf
    <3>5. IsLeast(mirror, left, above, corner, t[j] = s[i])
      BY <3>2, <3>4
    <3> HIDE DEF cell, above, left, corner, mirror
    <3>6. cell = mirror
      BY <3>3, <3>5 DEF IsLeast
    <3> QED BY <3>6 DEF cell, mirror
  <2> QED BY <2>1, <2>2, <2>3
<1>2. \A j \in 0 .. m, i \in 0 .. n : <<j, i>> \in S
  <2> HIDE DEF P
  <2>1. \A j \in 0 .. m, i \in 0 .. n :
           /\ j # 0 => \A k \in 0 .. n : <<j - 1, k>> \in S
           /\ i # 0 => <<j, i - 1>> \in S
           => <<j, i>> \in S
    BY <1>1
  <2> HIDE DEF S
  <2> QED BY <2>1, CellByCell
<1>3. \A j \in 0 .. m, i \in 0 .. n : P(j, i)
  <2> HIDE DEF P
  <2> QED BY <1>2
<1> QED BY <1>3

\* How far two words are apart.
Distance(s, t) == Table(s, t)[Len(t)][Len(s)]

\* Giving up never changes which words are near, nor how near.
LEMMA GivingUpIsSafe ==
    ASSUME NEW s, NEW t, Len(s) \in Nat, Len(t) \in Nat, NEW limit \in Nat, NEW k \in 0 .. limit
    PROVE  Rows(s, t, limit) \in Nat /\ ((Rows(s, t, limit) <= k) <=> (Distance(s, t) <= k))
<1> DEFINE n == Len(s)
           m == Len(t)
           d == Table(s, t)
           hopeless == \E j \in 1 .. m : \A i \in 0 .. n : d[j][i] > limit
           distance == d[m][n]
<1>1. IsGrid(d, s, t)
  BY TableIsGrid
<1>2. Rows(s, t, limit) = IF m - n > limit \/ n - m > limit \/ hopeless THEN limit + 1 ELSE distance
  BY DEF Rows, Table, IsTable
<1>3. m \in 0 .. m /\ n \in 0 .. n
  OBVIOUS
<1>4. distance \in Nat /\ distance >= n - m /\ distance >= m - n
  <2> HIDE DEF d
  <2> QED BY <1>1, <1>3, CellsOf, FarIsFar
<1>5. hopeless => distance > limit
  <2> SUFFICES ASSUME NEW j \in 1 .. m, \A i \in 0 .. n : d[j][i] > limit PROVE distance > limit
    OBVIOUS
  <2>1. j \in 0 .. m /\ m \in j .. m
    OBVIOUS
  <2> HIDE DEF d
  <2> QED BY <1>1, <1>3, <2>1, HopelessStays
<1> HIDE DEF distance, hopeless
<1>6. distance = Distance(s, t)
  BY DEF distance, Distance
<1>7. CASE m - n > limit \/ n - m > limit \/ hopeless
  <2>1. Rows(s, t, limit) = limit + 1 /\ distance > limit
    BY <1>2, <1>4, <1>5, <1>7
  <2> QED BY <1>4, <1>6, <2>1
<1>8. CASE ~(m - n > limit \/ n - m > limit \/ hopeless)
  BY <1>2, <1>4, <1>6, <1>8
<1> QED BY <1>7, <1>8

LEMMA DistanceFacts ==
    ASSUME NEW s, NEW t, Len(s) \in Nat, Len(t) \in Nat
    PROVE  /\ Distance(s, t) \in Nat /\ Distance(s, t) = Distance(t, s)
           /\ Len(s) = 0 => Distance(s, t) = Len(t)
           /\ Len(t) = 0 => Distance(s, t) = Len(s)
<1> DEFINE n == Len(s)
           m == Len(t)
           d == Table(s, t)
           e == Table(t, s)
<1>1. IsGrid(d, s, t) /\ IsGrid(e, t, s)
  BY TableIsGrid
<1>2. m \in 0 .. m /\ n \in 0 .. n
  OBVIOUS
<1>3. /\ d[m][n] \in Nat /\ d[m][0] = m /\ d[0][n] = n
  <2> HIDE DEF d, e
  <2> QED BY <1>1, <1>2, CellsOf
<1>4. d[m][n] = e[n][m]
  <2> HIDE DEF d, e
  <2> QED BY <1>1, <1>2, TablesMirror
<1> QED BY <1>3, <1>4 DEF Distance

\* The server and the command line agree on which words are near and how near,
\* whichever word makes the row.
LEMMA LevenshteinIsDistance ==
    ASSUME NEW s \in Seq(Letters), NEW t \in Seq(Letters), NEW limit \in Nat, NEW k \in 0 .. limit
    PROVE  /\ (Levenshtein(s, t, limit) <= k) <=> (Distance(s, t) <= k)
           /\ (CliLevenshtein(s, t, limit) <= k) <=> (Distance(s, t) <= k)
<1>1. Len(s) \in Nat /\ Len(t) \in Nat
  OBVIOUS
<1>2. /\ (Rows(s, t, limit) <= k) <=> (Distance(s, t) <= k)
      /\ (Rows(t, s, limit) <= k) <=> (Distance(t, s) <= k)
  BY <1>1, GivingUpIsSafe
<1>3. Distance(s, t) = Distance(t, s)
  BY <1>1, DistanceFacts
<1>4. CASE s = << >> \/ t = << >>
  <2>1. Levenshtein(s, t, limit) = Len(s) + Len(t) /\ CliLevenshtein(s, t, limit) = Len(s) + Len(t)
    BY <1>4 DEF Levenshtein, CliLevenshtein
  <2>2. Len(s) = 0 \/ Len(t) = 0
    BY <1>4
  <2>3. Distance(s, t) = Len(s) + Len(t)
    BY <1>1, <2>2, DistanceFacts
  <2> QED BY <2>1, <2>3
<1>5. CASE ~(s = << >> \/ t = << >>)
  <2>1. CliLevenshtein(s, t, limit) = Rows(t, s, limit)
    BY <1>5 DEF CliLevenshtein
  <2>2. Levenshtein(s, t, limit) = Rows(t, s, limit) \/ Levenshtein(s, t, limit) = Rows(s, t, limit)
    BY <1>5 DEF Levenshtein
  <2> QED BY <1>2, <1>3, <2>1, <2>2
<1> QED BY <1>4, <1>5

LEMMA LevenshteinIsANumber ==
    ASSUME NEW s \in Seq(Letters), NEW t \in Seq(Letters), NEW limit \in Nat
    PROVE  Levenshtein(s, t, limit) \in Nat /\ CliLevenshtein(s, t, limit) \in Nat
<1>1. Len(s) \in Nat /\ Len(t) \in Nat /\ limit \in 0 .. limit
  OBVIOUS
<1>2. Rows(s, t, limit) \in Nat /\ Rows(t, s, limit) \in Nat
  BY <1>1, GivingUpIsSafe
<1> QED BY <1>1, <1>2 DEF Levenshtein, CliLevenshtein

\* Edits.  p is the place of the letter.
Substituted(w, u, p) ==
    /\ Len(u) = Len(w) /\ p \in 1 .. Len(w)
    /\ \A q \in 1 .. Len(w) : q # p => u[q] = w[q]

\* u has a letter more.
Longer(w, u, p) ==
    /\ Len(u) = Len(w) + 1 /\ p \in 1 .. Len(w) + 1
    /\ \A q \in 1 .. Len(w) : q < p => u[q] = w[q]
    /\ \A q \in 1 .. Len(w) : q >= p => u[q + 1] = w[q]

IsEdit(w, u) == \E p \in Nat : Substituted(w, u, p) \/ Longer(w, u, p) \/ Longer(u, w, p)

LEMMA SameWord ==
    ASSUME NEW L, NEW s \in Seq(L), NEW t \in Seq(L), Len(s) = Len(t), \A q \in 1 .. Len(s) : s[q] = t[q]
    PROVE  s = t
OBVIOUS

LEMMA InsertAtIs ==
    ASSUME NEW L, NEW s \in Seq(L), NEW e \in L, NEW p \in 1 .. Len(s) + 1
    PROVE  /\ InsertAt(s, p, e) \in Seq(L) /\ InsertAt(s, p, e)[p] = e
           /\ Longer(s, InsertAt(s, p, e), p)
<1> DEFINE head == SubSeq(s, 1, p - 1)
           rest == SubSeq(s, p, Len(s))
           upto == head \o <<e>>
           u == upto \o rest
<1>0. Len(s) \in Nat /\ p \in Nat /\ p >= 1
  OBVIOUS
<1>1. head \in Seq(L) /\ Len(head) = p - 1 /\ \A q \in 1 .. p - 1 : head[q] = s[q]
  OBVIOUS
<1>2. rest \in Seq(L) /\ Len(rest) = Len(s) - p + 1 /\ \A q \in p .. Len(s) : rest[q - p + 1] = s[q]
  OBVIOUS
<1> HIDE DEF head, rest
<1>3. upto \in Seq(L) /\ Len(upto) = p /\ upto[p] = e /\ \A q \in 1 .. p - 1 : upto[q] = s[q]
  BY <1>1
<1> HIDE DEF upto
<1>4. u \in Seq(L) /\ Len(u) = Len(s) + 1 /\ u[p] = e /\ \A q \in 1 .. p - 1 : u[q] = s[q]
  BY <1>2, <1>3
<1>5. ASSUME NEW q \in p .. Len(s) PROVE u[q + 1] = s[q]
  <2>1. q + 1 = Len(upto) + (q - p + 1) /\ q - p + 1 \in 1 .. Len(rest)
    BY <1>2, <1>3
  <2>2. u[Len(upto) + (q - p + 1)] = rest[q - p + 1]
    BY <1>2, <1>3, <2>1
  <2> QED BY <1>2, <2>1, <2>2
<1>6. u = InsertAt(s, p, e)
  BY DEF InsertAt, head, rest, upto
<1> HIDE DEF u
<1>7. Longer(s, u, p)
  BY <1>4, <1>5 DEF Longer
<1> QED BY <1>4, <1>6, <1>7

LEMMA RemoveAtIs ==
    ASSUME NEW L, NEW s \in Seq(L), NEW p \in 1 .. Len(s)
    PROVE  RemoveAt(s, p) \in Seq(L) /\ Longer(RemoveAt(s, p), s, p)
<1> DEFINE head == SubSeq(s, 1, p - 1)
           rest == SubSeq(s, p + 1, Len(s))
           u == head \o rest
<1>0. Len(s) \in Nat /\ p \in Nat /\ p >= 1
  OBVIOUS
<1>1. head \in Seq(L) /\ Len(head) = p - 1 /\ \A q \in 1 .. p - 1 : head[q] = s[q]
  OBVIOUS
<1>2. rest \in Seq(L) /\ Len(rest) = Len(s) - p /\ \A q \in p + 1 .. Len(s) : rest[q - p] = s[q]
  OBVIOUS
<1> HIDE DEF head, rest
<1>3. Len(rest) \in Nat /\ Len(head) \in Nat /\ (p - 1) + (Len(s) - p) = Len(s) - 1
  BY <1>0, <1>1, <1>2
<1>4. u \in Seq(L) /\ Len(u) = Len(s) - 1 /\ \A q \in 1 .. p - 1 : u[q] = s[q]
  <2>1. u \in Seq(L) /\ Len(u) = Len(head) + Len(rest)
    BY <1>1, <1>2
  <2>2. \A q \in 1 .. Len(head) : u[q] = head[q]
    BY <1>1, <1>2
  <2> HIDE DEF u
  <2> QED BY <1>1, <1>2, <1>3, <2>1, <2>2
<1>5. ASSUME NEW q \in p .. Len(s) - 1 PROVE u[q] = s[q + 1]
  <2>1. q = Len(head) + (q + 1 - p) /\ q + 1 - p \in 1 .. Len(rest) /\ q + 1 \in p + 1 .. Len(s)
    BY <1>0, <1>1, <1>2
  <2>2. u[Len(head) + (q + 1 - p)] = rest[q + 1 - p]
    BY <1>1, <1>2, <2>1
  <2>3. rest[q + 1 - p] = s[q + 1]
    <3>1. q + 1 \in p + 1 .. Len(s) /\ \A r \in p + 1 .. Len(s) : rest[r - p] = s[r]
      BY <1>2, <2>1
    <3> QED BY <3>1
  <2> HIDE DEF u
  <2> QED BY <2>1, <2>2, <2>3
<1>6. u = RemoveAt(s, p)
  BY DEF RemoveAt, head, rest
<1> HIDE DEF u
<1>7. Longer(u, s, p)
  <2>1. Len(s) = Len(u) + 1 /\ p \in 1 .. Len(u) + 1
    BY <1>4
  <2>2. ASSUME NEW q \in 1 .. Len(u) PROVE (q < p => s[q] = u[q]) /\ (q >= p => s[q + 1] = u[q])
    <3>1. CASE q < p
      BY <1>4, <3>1
    <3>2. CASE q >= p
      <4>1. q \in p .. Len(s) - 1
        BY <1>4, <3>2
      <4> QED BY <1>5, <3>2, <4>1
    <3> QED BY <3>1, <3>2
  <2> QED BY <2>1, <2>2 DEF Longer
<1> QED BY <1>4, <1>6, <1>7

\* What Edited enumerates.
LEMMA EditedIs ==
    ASSUME NEW w \in Seq(Letters), NEW u
    PROVE  u \in Edited(w) <=> u \in Seq(Letters) /\ IsEdit(w, u)
<1>1. ASSUME NEW p \in 1 .. Len(w), NEW c \in Letters
      PROVE  [w EXCEPT ![p] = c] \in Seq(Letters) /\ Substituted(w, [w EXCEPT ![p] = c], p)
  BY DEF Substituted
<1>2. ASSUME u \in Edited(w) PROVE u \in Seq(Letters) /\ IsEdit(w, u)
  <2>1. CASE \E p \in 1 .. Len(w), c \in Letters : u = [w EXCEPT ![p] = c]
    <3>1. PICK p \in 1 .. Len(w), c \in Letters : u = [w EXCEPT ![p] = c]
      BY <2>1
    <3>2. u \in Seq(Letters) /\ Substituted(w, u, p)
      BY <1>1, <3>1
    <3> QED BY <3>2 DEF IsEdit
  <2>2. CASE \E p \in 1 .. Len(w) : u = RemoveAt(w, p)
    BY <2>2, RemoveAtIs DEF IsEdit
  <2>3. CASE \E p \in 1 .. Len(w) + 1, c \in Letters : u = InsertAt(w, p, c)
    BY <2>3, InsertAtIs DEF IsEdit
  <2> QED BY <1>2, <2>1, <2>2, <2>3 DEF Edited
<1>3. ASSUME u \in Seq(Letters), NEW p \in Nat, Substituted(w, u, p) PROVE u \in Edited(w)
  <2>1. p \in 1 .. Len(w) /\ u[p] \in Letters
    BY <1>3 DEF Substituted
  <2> DEFINE v == [w EXCEPT ![p] = u[p]]
  <2>2. v \in Seq(Letters) /\ Len(v) = Len(u) /\ \A q \in 1 .. Len(u) : v[q] = u[q]
    BY <1>3, <2>1 DEF Substituted
  <2> HIDE DEF v
  <2>3. v = u
    BY <1>3, <2>2, SameWord
  <2> QED BY <2>1, <2>3 DEF Edited, v
<1>4. ASSUME u \in Seq(Letters), NEW p \in Nat, Longer(w, u, p) PROVE u \in Edited(w)
  <2>1. p \in 1 .. Len(w) + 1 /\ u[p] \in Letters
    BY <1>4 DEF Longer
  <2> DEFINE v == InsertAt(w, p, u[p])
  <2>2. v \in Seq(Letters) /\ v[p] = u[p] /\ Longer(w, v, p)
    BY <2>1, InsertAtIs
  <2> HIDE DEF v
  <2>3. ASSUME NEW q \in 1 .. Len(u) PROVE v[q] = u[q]
    <3>1. CASE q < p
      BY <1>4, <2>2, <3>1 DEF Longer
    <3>2. CASE q = p
      BY <2>2, <3>2
    <3>3. CASE q > p
      <4>1. q - 1 \in 1 .. Len(w) /\ q - 1 >= p /\ (q - 1) + 1 = q
        BY <1>4, <3>3 DEF Longer
      <4>2. v[(q - 1) + 1] = w[q - 1] /\ u[(q - 1) + 1] = w[q - 1]
        BY <1>4, <2>2, <4>1 DEF Longer
      <4> QED BY <4>1, <4>2
    <3> QED BY <2>1, <3>1, <3>2, <3>3
  <2>4. Len(v) = Len(u)
    BY <1>4, <2>2 DEF Longer
  <2>5. v = u
    BY <1>4, <2>2, <2>3, <2>4, SameWord
  <2> QED BY <2>1, <2>5 DEF Edited, v
<1>5. ASSUME u \in Seq(Letters), NEW p \in Nat, Longer(u, w, p) PROVE u \in Edited(w)
  <2>1. p \in 1 .. Len(w)
    BY <1>5 DEF Longer
  <2> DEFINE v == RemoveAt(w, p)
  <2>2. v \in Seq(Letters) /\ Longer(v, w, p)
    BY <2>1, RemoveAtIs
  <2> HIDE DEF v
  <2>3. Len(v) = Len(u)
    BY <1>5, <2>2 DEF Longer
  <2>4. ASSUME NEW q \in 1 .. Len(u) PROVE v[q] = u[q]
    BY <1>5, <2>2, <2>3 DEF Longer
  <2>5. v = u
    BY <1>5, <2>2, <2>3, <2>4, SameWord
  <2> QED BY <2>1, <2>5 DEF Edited, v
<1> QED BY <1>2, <1>3, <1>4, <1>5 DEF IsEdit

\* What a corner may be to another for their cells to differ by one at most.
MayGrow(k2, k, same2, same) == k2 <= k \/ (k2 <= k + 1 /\ (same => same2))

LEMMA LeastGrows ==
    ASSUME NEW c, NEW a, NEW l, NEW k, NEW same, IsLeast(c, a, l, k, same),
           NEW c2, NEW a2, NEW l2, NEW k2, NEW same2, IsLeast(c2, a2, l2, k2, same2),
           a2 <= a + 1, l2 <= l + 1, MayGrow(k2, k, same2, same)
    PROVE  c2 <= c + 1
BY DEF IsLeast, MayGrow

\* As far as two words begin alike they are as far from another.
LEMMA SameBeginning ==
    ASSUME NEW s, NEW w, NEW u, Len(s) \in Nat, Len(w) \in Nat, Len(u) \in Nat,
           NEW d, NEW e, IsGrid(d, s, w), IsGrid(e, s, u),
           NEW p \in Nat, p <= Len(u) + 1, \A q \in 1 .. Len(w) : q < p => u[q] = w[q]
    PROVE  \A j \in 0 .. Len(w), i \in 0 .. Len(s) : j < p => e[j][i] = d[j][i]
<1> DEFINE n == Len(s)
           m == Len(w)
           P(j, i) == j < p => e[j][i] = d[j][i]
           S == {r \in (0 .. m) \X (0 .. n) : P(r[1], r[2])}
<1>1. ASSUME NEW j \in 0 .. m, NEW i \in 0 .. n,
             j # 0 => \A k \in 0 .. n : P(j - 1, k), i # 0 => P(j, i - 1)
      PROVE  P(j, i)
  <2> SUFFICES ASSUME j < p PROVE e[j][i] = d[j][i]
    OBVIOUS
  <2>0. j \in 0 .. Len(u)
    OBVIOUS
  <2>1. CASE j = 0
    <3>1. d[0][i] = i /\ e[0][i] = i
      BY CellsOf
    <3> QED BY <2>1, <3>1
  <2>2. CASE i = 0
    <3>1. d[j][0] = j /\ e[j][0] = j
      BY <2>0, CellsOf
    <3> QED BY <2>2, <3>1
  <2>3. CASE j # 0 /\ i # 0
    <3> DEFINE cell == d[j][i]
               above == d[j - 1][i]
               left == d[j][i - 1]
               corner == d[j - 1][i - 1]
               other == e[j][i]
    <3>1. i - 1 \in 0 .. n /\ j - 1 < p /\ j \in 1 .. m
      BY <2>3
    <3>2. e[j - 1][i] = above /\ e[j][i - 1] = left /\ e[j - 1][i - 1] = corner
      BY <1>1, <2>3, <3>1
    <3>3. IsLeast(cell, above, left, corner, s[i] = w[j])
      BY <2>3, CellsOf
    <3>4. IsLeast(other, e[j - 1][i], e[j][i - 1], e[j - 1][i - 1], s[i] = u[j])
      BY <2>0, <2>3, CellsOf
    <3>5. u[j] = w[j]
      BY <3>1
    <3>6. IsLeast(other, above, left, corner, s[i] = w[j])
      BY <3>2, <3>4, <3>5
    <3> HIDE DEF cell, above, left, corner, other
    <3>7. other = cell
      BY <3>3, <3>6 DEF IsLeast
    <3> QED BY <3>7 DEF cell, other
  <2> QED BY <2>1, <2>2, <2>3
<1>2. \A j \in 0 .. m, i \in 0 .. n : <<j, i>> \in S
  <2> HIDE DEF P
  <2>1. \A j \in 0 .. m, i \in 0 .. n :
           /\ j # 0 => \A k \in 0 .. n : <<j - 1, k>> \in S
           /\ i # 0 => <<j, i - 1>> \in S
           => <<j, i>> \in S
    BY <1>1
  <2> HIDE DEF S
  <2> QED BY <2>1, CellByCell
<1>3. \A j \in 0 .. m, i \in 0 .. n : P(j, i)
  <2> HIDE DEF P
  <2> QED BY <1>2
<1> QED BY <1>3

\* One letter for another.
LEMMA SubstitutedIsNear ==
    ASSUME NEW s, NEW w, NEW u, Len(s) \in Nat, Len(w) \in Nat, Len(u) \in Nat,
           NEW d, NEW e, IsGrid(d, s, w), IsGrid(e, s, u), NEW p \in Nat, Substituted(w, u, p)
    PROVE  \A j \in 0 .. Len(w), i \in 0 .. Len(s) : e[j][i] <= d[j][i] + 1
<1> DEFINE n == Len(s)
           m == Len(w)
           P(j, i) == e[j][i] <= d[j][i] + 1
           S == {r \in (0 .. m) \X (0 .. n) : P(r[1], r[2])}
<1>0. /\ Len(u) = m /\ p \in 1 .. m /\ \A q \in 1 .. m : q # p => u[q] = w[q]
      /\ \A j \in 0 .. m, i \in 0 .. n : j < p => e[j][i] = d[j][i]
  <2>1. Len(u) = m /\ p \in 1 .. m /\ \A q \in 1 .. m : q # p => u[q] = w[q]
    BY DEF Substituted
  <2>2. p <= Len(u) + 1 /\ \A q \in 1 .. Len(w) : q < p => u[q] = w[q]
    BY <2>1
  <2>3. \A j \in 0 .. Len(w), i \in 0 .. Len(s) : j < p => e[j][i] = d[j][i]
    BY <2>2, SameBeginning
  <2> QED BY <2>1, <2>3
<1>1. ASSUME NEW j \in 0 .. m, NEW i \in 0 .. n,
             j # 0 => \A k \in 0 .. n : P(j - 1, k), i # 0 => P(j, i - 1)
      PROVE  P(j, i)
  <2>0. j \in 0 .. Len(u)
    BY <1>0
  <2>1. CASE j = 0
    <3>1. d[0][i] = i /\ e[0][i] = i
      BY CellsOf
    <3> QED BY <2>1, <3>1
  <2>2. CASE i = 0
    <3>1. d[j][0] = j /\ e[j][0] = j
      BY <2>0, CellsOf
    <3> QED BY <2>2, <3>1
  <2>3. CASE j # 0 /\ i # 0
    <3>1. i - 1 \in 0 .. n /\ j \in 1 .. m /\ j - 1 \in 0 .. m
      BY <2>3
    <3>2. P(j - 1, i) /\ P(j, i - 1) /\ P(j - 1, i - 1)
      BY <1>1, <2>3, <3>1
    <3>3. IsLeast(d[j][i], d[j - 1][i], d[j][i - 1], d[j - 1][i - 1], s[i] = w[j])
      BY <2>3, CellsOf
    <3>4. IsLeast(e[j][i], e[j - 1][i], e[j][i - 1], e[j - 1][i - 1], s[i] = u[j])
      BY <2>0, <2>3, CellsOf
    <3>5. MayGrow(e[j - 1][i - 1], d[j - 1][i - 1], s[i] = u[j], s[i] = w[j])
      <4>1. CASE j = p
        <5>1. j - 1 < p
          BY <4>1
        <5>2. e[j - 1][i - 1] = d[j - 1][i - 1] /\ d[j - 1][i - 1] \in Nat
          BY <1>0, <3>1, <5>1, CellsOf
        <5> QED BY <5>2 DEF MayGrow
      <4>2. CASE j # p
        BY <1>0, <3>1, <3>2, <4>2 DEF MayGrow
      <4> QED BY <4>1, <4>2
    <3>6. e[j][i] <= d[j][i] + 1
      BY <3>2, <3>3, <3>4, <3>5, LeastGrows
    <3> QED BY <3>6
  <2> QED BY <2>1, <2>2, <2>3
<1>2. \A j \in 0 .. m, i \in 0 .. n : <<j, i>> \in S
  <2> HIDE DEF P
  <2>1. \A j \in 0 .. m, i \in 0 .. n :
           /\ j # 0 => \A k \in 0 .. n : <<j - 1, k>> \in S
           /\ i # 0 => <<j, i - 1>> \in S
           => <<j, i>> \in S
    BY <1>1
  <2> HIDE DEF S
  <2> QED BY <2>1, CellByCell
<1>3. \A j \in 0 .. m, i \in 0 .. n : P(j, i)
  <2> HIDE DEF P
  <2> QED BY <1>2
<1> QED BY <1>3

\* One letter more.
LEMMA InsertedIsNear ==
    ASSUME NEW s, NEW w, NEW u, Len(s) \in Nat, Len(w) \in Nat, Len(u) \in Nat,
           NEW d, NEW e, IsGrid(d, s, w), IsGrid(e, s, u), NEW p \in Nat, Longer(w, u, p)
    PROVE  \A j \in 0 .. Len(w), i \in 0 .. Len(s) : j >= p - 1 => e[j + 1][i] <= d[j][i] + 1
<1> DEFINE n == Len(s)
           m == Len(w)
           P(j, i) == j >= p - 1 => e[j + 1][i] <= d[j][i] + 1
           S == {r \in (0 .. m) \X (0 .. n) : P(r[1], r[2])}
<1>0. /\ Len(u) = m + 1 /\ p \in 1 .. m + 1 /\ \A q \in 1 .. m : q >= p => u[q + 1] = w[q]
      /\ \A j \in 0 .. m, i \in 0 .. n : j < p => e[j][i] = d[j][i]
  <2>1. /\ Len(u) = m + 1 /\ p \in 1 .. m + 1
        /\ \A q \in 1 .. m : q < p => u[q] = w[q]
        /\ \A q \in 1 .. m : q >= p => u[q + 1] = w[q]
    BY DEF Longer
  <2>2. p <= Len(u) + 1 /\ \A q \in 1 .. Len(w) : q < p => u[q] = w[q]
    BY <2>1
  <2>3. \A j \in 0 .. Len(w), i \in 0 .. Len(s) : j < p => e[j][i] = d[j][i]
    BY <2>2, SameBeginning
  <2> QED BY <2>1, <2>3
<1>1. ASSUME NEW j \in 0 .. m, NEW i \in 0 .. n,
             j # 0 => \A k \in 0 .. n : P(j - 1, k), i # 0 => P(j, i - 1)
      PROVE  P(j, i)
  <2> SUFFICES ASSUME j >= p - 1 PROVE e[j + 1][i] <= d[j][i] + 1
    OBVIOUS
  <2>0. j + 1 \in 0 .. Len(u) /\ j + 1 # 0 /\ (j + 1) - 1 = j /\ j \in 0 .. Len(u)
    BY <1>0
  <2>1. CASE j = p - 1
    <3>1. e[j][i] = d[j][i]
      BY <1>0, <2>1
    <3>2. Close(e[j + 1][i], e[j][i])
      BY <2>0, NeighboursAreClose
    <3> QED BY <3>1, <3>2 DEF Close
  <2>2. CASE i = 0
    <3>1. d[j][0] = j /\ e[j + 1][0] = j + 1
      BY <2>0, CellsOf
    <3> QED BY <2>2, <3>1
  <2>3. CASE j # p - 1 /\ i # 0
    <3>1. i - 1 \in 0 .. n /\ j \in 1 .. m /\ j - 1 \in 0 .. m /\ j - 1 >= p - 1 /\ j >= p /\ (j - 1) + 1 = j
      BY <1>0, <2>3
    <3>2. e[j][i] <= d[j - 1][i] + 1 /\ e[j + 1][i - 1] <= d[j][i - 1] + 1 /\ MayGrow(e[j][i - 1], d[j - 1][i - 1], s[i] = w[j], s[i] = w[j])
      <4>1. P(j - 1, i) /\ P(j, i - 1) /\ P(j - 1, i - 1)
        BY <1>1, <2>3, <3>1
      <4> QED BY <3>1, <4>1 DEF MayGrow
    <3>3. IsLeast(d[j][i], d[j - 1][i], d[j][i - 1], d[j - 1][i - 1], s[i] = w[j])
      BY <2>3, <3>1, CellsOf
    <3>4. IsLeast(e[j + 1][i], e[(j + 1) - 1][i], e[j + 1][i - 1], e[(j + 1) - 1][i - 1], s[i] = u[j + 1])
      BY <2>0, <2>3, CellsOf
    <3>5. u[j + 1] = w[j]
      BY <1>0, <3>1
    <3>6. IsLeast(e[j + 1][i], e[j][i], e[j + 1][i - 1], e[j][i - 1], s[i] = w[j])
      BY <2>0, <3>4, <3>5
    <3>7. e[j + 1][i] <= d[j][i] + 1
      BY <3>2, <3>3, <3>6, LeastGrows
    <3> QED BY <3>7
  <2> QED BY <2>1, <2>2, <2>3
<1>2. \A j \in 0 .. m, i \in 0 .. n : <<j, i>> \in S
  <2> HIDE DEF P
  <2>1. \A j \in 0 .. m, i \in 0 .. n :
           /\ j # 0 => \A k \in 0 .. n : <<j - 1, k>> \in S
           /\ i # 0 => <<j, i - 1>> \in S
           => <<j, i>> \in S
    BY <1>1
  <2> HIDE DEF S
  <2> QED BY <2>1, CellByCell
<1>3. \A j \in 0 .. m, i \in 0 .. n : P(j, i)
  <2> HIDE DEF P
  <2> QED BY <1>2
<1> QED BY <1>3

\* One letter less.
LEMMA RemovedIsNear ==
    ASSUME NEW s, NEW w, NEW u, Len(s) \in Nat, Len(w) \in Nat, Len(u) \in Nat,
           NEW d, NEW e, IsGrid(d, s, w), IsGrid(e, s, u), NEW p \in Nat, Longer(u, w, p)
    PROVE  \A j \in 0 .. Len(u), i \in 0 .. Len(s) : j >= p - 1 => e[j][i] <= d[j + 1][i] + 1
<1> DEFINE n == Len(s)
           m == Len(u)
           P(j, i) == j >= p - 1 => e[j][i] <= d[j + 1][i] + 1
           S == {r \in (0 .. m) \X (0 .. n) : P(r[1], r[2])}
<1>0. /\ Len(w) = m + 1 /\ p \in 1 .. m + 1 /\ \A q \in 1 .. m : q >= p => w[q + 1] = u[q]
      /\ \A j \in 0 .. m, i \in 0 .. n : j < p => e[j][i] = d[j][i]
  <2>1. /\ Len(w) = m + 1 /\ p \in 1 .. m + 1
        /\ \A q \in 1 .. m : q < p => w[q] = u[q]
        /\ \A q \in 1 .. m : q >= p => w[q + 1] = u[q]
    BY DEF Longer
  <2>2. p <= Len(w) + 1
    BY <2>1
  <2>3. \A j \in 0 .. Len(u), i \in 0 .. Len(s) : j < p => d[j][i] = e[j][i]
    BY <2>1, <2>2, SameBeginning
  <2> QED BY <2>1, <2>3
<1>1. ASSUME NEW j \in 0 .. m, NEW i \in 0 .. n,
             j # 0 => \A k \in 0 .. n : P(j - 1, k), i # 0 => P(j, i - 1)
      PROVE  P(j, i)
  <2> SUFFICES ASSUME j >= p - 1 PROVE e[j][i] <= d[j + 1][i] + 1
    OBVIOUS
  <2>0. j + 1 \in 0 .. Len(w) /\ j + 1 # 0 /\ (j + 1) - 1 = j /\ j \in 0 .. Len(w)
    BY <1>0
  <2>1. CASE j = p - 1
    <3>1. e[j][i] = d[j][i]
      BY <1>0, <2>1
    <3>2. Close(d[j + 1][i], d[j][i])
      BY <2>0, NeighboursAreClose
    <3> QED BY <3>1, <3>2 DEF Close
  <2>2. CASE i = 0
    <3>1. e[j][0] = j /\ d[j + 1][0] = j + 1
      BY <2>0, CellsOf
    <3> QED BY <2>2, <3>1
  <2>3. CASE j # p - 1 /\ i # 0
    <3>1. i - 1 \in 0 .. n /\ j \in 1 .. m /\ j - 1 \in 0 .. m /\ j - 1 >= p - 1 /\ j >= p /\ (j - 1) + 1 = j
      BY <1>0, <2>3
    <3>2. e[j - 1][i] <= d[j][i] + 1 /\ e[j][i - 1] <= d[j + 1][i - 1] + 1 /\ MayGrow(e[j - 1][i - 1], d[j][i - 1], s[i] = u[j], s[i] = u[j])
      <4>1. P(j - 1, i) /\ P(j, i - 1) /\ P(j - 1, i - 1)
        BY <1>1, <2>3, <3>1
      <4> QED BY <3>1, <4>1 DEF MayGrow
    <3>3. IsLeast(e[j][i], e[j - 1][i], e[j][i - 1], e[j - 1][i - 1], s[i] = u[j])
      BY <2>3, <3>1, CellsOf
    <3>4. IsLeast(d[j + 1][i], d[(j + 1) - 1][i], d[j + 1][i - 1], d[(j + 1) - 1][i - 1], s[i] = w[j + 1])
      BY <2>0, <2>3, CellsOf
    <3>5. w[j + 1] = u[j]
      BY <1>0, <3>1
    <3>6. IsLeast(d[j + 1][i], d[j][i], d[j + 1][i - 1], d[j][i - 1], s[i] = u[j])
      BY <2>0, <3>4, <3>5
    <3>7. e[j][i] <= d[j + 1][i] + 1
      BY <3>2, <3>3, <3>6, LeastGrows
    <3> QED BY <3>7
  <2> QED BY <2>1, <2>2, <2>3
<1>2. \A j \in 0 .. m, i \in 0 .. n : <<j, i>> \in S
  <2> HIDE DEF P
  <2>1. \A j \in 0 .. m, i \in 0 .. n :
           /\ j # 0 => \A k \in 0 .. n : <<j - 1, k>> \in S
           /\ i # 0 => <<j, i - 1>> \in S
           => <<j, i>> \in S
    BY <1>1
  <2> HIDE DEF S
  <2> QED BY <2>1, CellByCell
<1>3. \A j \in 0 .. m, i \in 0 .. n : P(j, i)
  <2> HIDE DEF P
  <2> QED BY <1>2
<1> QED BY <1>3

\* An edit of a word is one further from another at most.
LEMMA EditIsNear ==
    ASSUME NEW s \in Seq(Letters), NEW w \in Seq(Letters), NEW u \in Seq(Letters), IsEdit(w, u)
    PROVE  Distance(s, u) <= Distance(s, w) + 1
<1> DEFINE d == Table(s, w)
           e == Table(s, u)
<1>1. Len(s) \in Nat /\ Len(w) \in Nat /\ Len(u) \in Nat
  OBVIOUS
<1>2. IsGrid(d, s, w) /\ IsGrid(e, s, u)
  BY <1>1, TableIsGrid
<1>3. Distance(s, u) = e[Len(u)][Len(s)] /\ Distance(s, w) = d[Len(w)][Len(s)]
  BY DEF Distance
<1>4. Len(s) \in 0 .. Len(s) /\ Len(w) \in 0 .. Len(w) /\ Len(u) \in 0 .. Len(u)
  BY <1>1
<1> HIDE DEF d, e
<1>5. PICK p \in Nat : Substituted(w, u, p) \/ Longer(w, u, p) \/ Longer(u, w, p)
  BY DEF IsEdit
<1>6. CASE Substituted(w, u, p)
  <2>1. Len(u) = Len(w)
    BY <1>6 DEF Substituted
  <2>2. e[Len(w)][Len(s)] <= d[Len(w)][Len(s)] + 1
    BY <1>1, <1>2, <1>4, <1>6, SubstitutedIsNear
  <2> QED BY <1>3, <2>1, <2>2
<1>7. CASE Longer(w, u, p)
  <2>1. Len(u) = Len(w) + 1 /\ Len(w) >= p - 1
    BY <1>1, <1>7 DEF Longer
  <2>2. e[Len(w) + 1][Len(s)] <= d[Len(w)][Len(s)] + 1
    BY <1>1, <1>2, <1>4, <1>7, <2>1, InsertedIsNear
  <2> QED BY <1>3, <2>1, <2>2
<1>8. CASE Longer(u, w, p)
  <2>1. Len(w) = Len(u) + 1 /\ Len(u) >= p - 1
    BY <1>1, <1>8 DEF Longer
  <2>2. e[Len(u)][Len(s)] <= d[Len(u) + 1][Len(s)] + 1
    BY <1>1, <1>2, <1>4, <1>8, <2>1, RemovedIsNear
  <2> QED BY <1>3, <2>1, <2>2
<1> QED BY <1>5, <1>6, <1>7, <1>8

-----------------------------------------------------------------------------
\* k edits, or fewer, make u of w.
IsPath(path, w, u, k) ==
    /\ path \in [0 .. k -> Seq(Letters)] /\ path[0] = w /\ path[k] = u
    /\ \A i \in 1 .. k : path[i] = path[i - 1] \/ IsEdit(path[i - 1], path[i])

Reaches(w, u, k) == \E path : IsPath(path, w, u, k)

LEMMA ReachesNothing ==
    ASSUME NEW w \in Seq(Letters), NEW u
    PROVE  Reaches(w, u, 0) <=> u = w
<1>1. ASSUME NEW path, IsPath(path, w, u, 0) PROVE u = w
  BY <1>1 DEF IsPath
<1>2. ASSUME u = w PROVE Reaches(w, u, 0)
  <2> DEFINE path == [i \in 0 .. 0 |-> w]
  <2>1. path \in [0 .. 0 -> Seq(Letters)] /\ path[0] = w
    OBVIOUS
  <2>2. 1 .. 0 = {}
    OBVIOUS
  <2> HIDE DEF path
  <2>3. IsPath(path, w, u, 0)
    BY <1>2, <2>1, <2>2 DEF IsPath
  <2> QED BY <2>3 DEF Reaches
<1> QED BY <1>1, <1>2 DEF Reaches

\* One edit more, or none.
LEMMA ReachesMore ==
    ASSUME NEW w, NEW u, NEW v \in Seq(Letters), NEW k \in Nat, Reaches(w, u, k), v = u \/ IsEdit(u, v)
    PROVE  Reaches(w, v, k + 1)
<1>1. PICK path : IsPath(path, w, u, k)
  BY DEF Reaches
<1>2. /\ path \in [0 .. k -> Seq(Letters)] /\ path[0] = w /\ path[k] = u
      /\ \A i \in 1 .. k : path[i] = path[i - 1] \/ IsEdit(path[i - 1], path[i])
  BY <1>1 DEF IsPath
<1> DEFINE longer == [i \in 0 .. k + 1 |-> IF i = k + 1 THEN v ELSE path[i]]
<1>3. /\ longer \in [0 .. k + 1 -> Seq(Letters)] /\ longer[0] = w /\ longer[k + 1] = v
      /\ \A i \in 0 .. k : longer[i] = path[i]
  BY <1>2
<1> HIDE DEF longer
<1>4. ASSUME NEW i \in 1 .. k + 1 PROVE longer[i] = longer[i - 1] \/ IsEdit(longer[i - 1], longer[i])
  <2>1. CASE i = k + 1
    <3>1. i - 1 = k /\ k \in 0 .. k
      BY <2>1
    <3>2. longer[i] = v /\ longer[i - 1] = u
      BY <1>2, <1>3, <2>1, <3>1
    <3> QED BY <3>2
  <2>2. CASE i # k + 1
    <3>1. i \in 1 .. k /\ i \in 0 .. k /\ i - 1 \in 0 .. k
      BY <2>2
    <3>2. longer[i] = path[i] /\ longer[i - 1] = path[i - 1]
      BY <1>3, <3>1
    <3> QED BY <1>2, <3>1, <3>2
  <2> QED BY <2>1, <2>2
<1>5. IsPath(longer, w, v, k + 1)
  BY <1>3, <1>4 DEF IsPath
<1> QED BY <1>5 DEF Reaches

LEMMA ReachesLess ==
    ASSUME NEW w, NEW v, NEW k \in Nat, Reaches(w, v, k + 1)
    PROVE  \E u \in Seq(Letters) : Reaches(w, u, k) /\ (v = u \/ IsEdit(u, v))
<1>1. PICK path : IsPath(path, w, v, k + 1)
  BY DEF Reaches
<1>2. /\ path \in [0 .. k + 1 -> Seq(Letters)] /\ path[0] = w /\ path[k + 1] = v
      /\ \A i \in 1 .. k + 1 : path[i] = path[i - 1] \/ IsEdit(path[i - 1], path[i])
  BY <1>1 DEF IsPath
<1> DEFINE shorter == [i \in 0 .. k |-> path[i]]
<1>3. shorter \in [0 .. k -> Seq(Letters)] /\ \A i \in 0 .. k : shorter[i] = path[i]
  BY <1>2
<1> HIDE DEF shorter
<1>4. 0 \in 0 .. k /\ k \in 0 .. k /\ \A i \in 1 .. k : i \in 1 .. k + 1 /\ i \in 0 .. k /\ i - 1 \in 0 .. k
  OBVIOUS
<1>5. \A i \in 1 .. k : shorter[i] = shorter[i - 1] \/ IsEdit(shorter[i - 1], shorter[i])
  BY <1>2, <1>3, <1>4
<1>6. IsPath(shorter, w, path[k], k)
  BY <1>2, <1>3, <1>4, <1>5 DEF IsPath
<1>7. k + 1 \in 1 .. k + 1 /\ (k + 1) - 1 = k
  OBVIOUS
<1>8. path[k] \in Seq(Letters)
  BY <1>2
<1>9. v = path[k] \/ IsEdit(path[k], v)
  BY <1>2, <1>7
<1> QED BY <1>6, <1>8, <1>9 DEF Reaches

LEMMA ReachesLater ==
    ASSUME NEW w, NEW u \in Seq(Letters), NEW k \in Nat, NEW l \in Nat, k <= l, Reaches(w, u, k)
    PROVE  Reaches(w, u, l)
<1> DEFINE S == {i \in 0 .. l - k : Reaches(w, u, k + i)}
<1>1. 0 \in S
  BY k + 0 = k
<1>2. ASSUME NEW i \in 0 .. (l - k) - 1, i \in S PROVE i + 1 \in S
  <2>1. k + i \in Nat /\ (k + i) + 1 = k + (i + 1) /\ i + 1 \in 0 .. l - k
    OBVIOUS
  <2>2. Reaches(w, u, (k + i) + 1)
    BY <1>2, <2>1, ReachesMore
  <2> QED BY <2>1, <2>2
<1> HIDE DEF S
<1>3. l - k \in Nat
  OBVIOUS
<1>4. 0 .. l - k \subseteq S
  BY <1>1, <1>2, <1>3, UpTo
<1>5. l - k \in S /\ k + (l - k) = l
  BY <1>3, <1>4
<1> QED BY <1>5 DEF S

LEMMA EditAppended ==
    ASSUME NEW w \in Seq(Letters), NEW u \in Seq(Letters), NEW c \in Letters, IsEdit(w, u)
    PROVE  IsEdit(Append(w, c), Append(u, c))
<1> DEFINE x == Append(w, c)
           y == Append(u, c)
<1>1. /\ x \in Seq(Letters) /\ Len(x) = Len(w) + 1 /\ x[Len(w) + 1] = c
      /\ \A q \in 1 .. Len(w) : x[q] = w[q]
  OBVIOUS
<1>2. /\ y \in Seq(Letters) /\ Len(y) = Len(u) + 1 /\ y[Len(u) + 1] = c
      /\ \A q \in 1 .. Len(u) : y[q] = u[q]
  OBVIOUS
<1>3. PICK p \in Nat : Substituted(w, u, p) \/ Longer(w, u, p) \/ Longer(u, w, p)
  BY DEF IsEdit
<1>4. Len(w) \in Nat /\ Len(u) \in Nat
  OBVIOUS
<1> HIDE DEF x, y
<1>5. CASE Substituted(w, u, p)
  <2>1. Substituted(x, y, p)
    BY <1>1, <1>2, <1>4, <1>5 DEF Substituted
  <2> QED BY <2>1 DEF IsEdit, x, y
<1>6. ASSUME NEW a, NEW b, NEW f, NEW g, Len(a) \in Nat, Len(b) \in Nat, Longer(a, b, p),
             Len(f) = Len(a) + 1, f[Len(a) + 1] = c, \A q \in 1 .. Len(a) : f[q] = a[q],
             Len(g) = Len(b) + 1, g[Len(b) + 1] = c, \A q \in 1 .. Len(b) : g[q] = b[q]
      PROVE  Longer(f, g, p)
  <2>1. /\ Len(b) = Len(a) + 1 /\ p \in 1 .. Len(a) + 1
        /\ \A q \in 1 .. Len(a) : q < p => b[q] = a[q]
        /\ \A q \in 1 .. Len(a) : q >= p => b[q + 1] = a[q]
    BY <1>6 DEF Longer
  <2>2. Len(g) = Len(f) + 1 /\ p \in 1 .. Len(f) + 1
    BY <1>6, <2>1
  <2>3. ASSUME NEW q \in 1 .. Len(f), q < p PROVE g[q] = f[q]
    <3>1. q \in 1 .. Len(a) /\ q \in 1 .. Len(b)
      BY <1>6, <2>1, <2>3
    <3> QED BY <1>6, <2>1, <2>3, <3>1
  <2>4. ASSUME NEW q \in 1 .. Len(f), q >= p PROVE g[q + 1] = f[q]
    <3>1. CASE q = Len(f)
      <4>1. q = Len(a) + 1 /\ q + 1 = Len(b) + 1
        BY <1>6, <2>1, <3>1
      <4> QED BY <1>6, <4>1
    <3>2. CASE q # Len(f)
      <4>1. q \in 1 .. Len(a) /\ q + 1 \in 1 .. Len(b)
        BY <1>6, <2>1, <3>2
      <4>2. g[q + 1] = b[q + 1] /\ f[q] = a[q]
        BY <1>6, <4>1
      <4> QED BY <2>1, <2>4, <4>1, <4>2
    <3> QED BY <3>1, <3>2
  <2> QED BY <2>2, <2>3, <2>4 DEF Longer
<1>7. CASE Longer(w, u, p)
  <2>1. Longer(x, y, p)
    BY <1>1, <1>2, <1>4, <1>6, <1>7
  <2> QED BY <2>1 DEF IsEdit, x, y
<1>8. CASE Longer(u, w, p)
  <2>1. Longer(y, x, p)
    BY <1>1, <1>2, <1>4, <1>6, <1>8
  <2> QED BY <2>1 DEF IsEdit, x, y
<1> QED BY <1>3, <1>5, <1>7, <1>8

LEMMA EditsAtTheEnd ==
    ASSUME NEW w \in Seq(Letters), NEW a \in Letters, NEW b \in Letters
    PROVE  /\ IsEdit(w, Append(w, a)) /\ IsEdit(Append(w, a), w)
           /\ IsEdit(Append(w, a), Append(w, b))
<1> DEFINE x == Append(w, a)
           y == Append(w, b)
           p == Len(w) + 1
<1>1. /\ x \in Seq(Letters) /\ Len(x) = Len(w) + 1 /\ \A q \in 1 .. Len(w) : x[q] = w[q]
      /\ y \in Seq(Letters) /\ Len(y) = Len(w) + 1 /\ \A q \in 1 .. Len(w) : y[q] = w[q]
  OBVIOUS
<1>2. Len(w) \in Nat /\ p \in Nat
  OBVIOUS
<1> HIDE DEF x, y
<1>3. Longer(w, x, p)
  BY <1>1, <1>2 DEF Longer
<1>4. Substituted(x, y, p)
  BY <1>1, <1>2 DEF Substituted
<1> HIDE DEF p
<1>5. IsEdit(w, x) /\ IsEdit(x, w) /\ IsEdit(x, y)
  BY <1>2, <1>3, <1>4 DEF IsEdit
<1> QED BY <1>5 DEF x, y

LEMMA ReachesAppended ==
    ASSUME NEW w, NEW u, NEW k \in Nat, NEW c \in Letters, Reaches(w, u, k)
    PROVE  Reaches(Append(w, c), Append(u, c), k)
<1>1. PICK path : IsPath(path, w, u, k)
  BY DEF Reaches
<1>2. /\ path \in [0 .. k -> Seq(Letters)] /\ path[0] = w /\ path[k] = u
      /\ \A i \in 1 .. k : path[i] = path[i - 1] \/ IsEdit(path[i - 1], path[i])
  BY <1>1 DEF IsPath
<1> DEFINE other == [i \in 0 .. k |-> Append(path[i], c)]
<1>3. ASSUME NEW i \in 0 .. k PROVE Append(path[i], c) \in Seq(Letters) /\ path[i] \in Seq(Letters)
  BY <1>2
<1>4. other \in [0 .. k -> Seq(Letters)] /\ \A i \in 0 .. k : other[i] = Append(path[i], c)
  BY <1>3
<1> HIDE DEF other
<1>5. ASSUME NEW i \in 1 .. k PROVE other[i] = other[i - 1] \/ IsEdit(other[i - 1], other[i])
  <2>1. i \in 0 .. k /\ i - 1 \in 0 .. k
    OBVIOUS
  <2>2. other[i] = Append(path[i], c) /\ other[i - 1] = Append(path[i - 1], c)
    BY <1>4, <2>1
  <2>3. path[i] \in Seq(Letters) /\ path[i - 1] \in Seq(Letters)
    BY <1>3, <2>1
  <2>4. CASE path[i] = path[i - 1]
    BY <2>2, <2>4
  <2>5. CASE IsEdit(path[i - 1], path[i])
    BY <2>2, <2>3, <2>5, EditAppended
  <2> QED BY <1>2, <2>4, <2>5
<1>6. other[0] = Append(w, c) /\ other[k] = Append(u, c)
  BY <1>2, <1>4, 0 \in 0 .. k, k \in 0 .. k
<1>7. IsPath(other, Append(w, c), Append(u, c), k)
  BY <1>4, <1>5, <1>6 DEF IsPath
<1> QED BY <1>7 DEF Reaches

\* What Within enumerates.
LEMMA WithinIs ==
    ASSUME NEW w \in Seq(Letters), NEW most \in Nat, NEW k \in 0 .. most
    PROVE  \A u : u \in Within(w, most)[k] <=> u \in Seq(Letters) /\ Reaches(w, u, k)
<1> DEFINE B == SUBSET Seq(Letters)
           Grown(b) == b \cup UNION {Edited(x) : x \in b}
           H == [p \in B \X (1 .. most) |-> Grown(p[1])]
           Is(f) == f = [i \in 0 .. most |-> IF i = 0 THEN {w} ELSE Grown(f[i - 1])]
           reach == CHOOSE f : Is(f)
<1>1. ASSUME NEW b \in B PROVE Grown(b) \in B
  <2>1. \A x \in b : \A u \in Edited(x) : u \in Seq(Letters)
    BY EditedIs
  <2> QED BY <2>1
<1>2. H \in [B \X (1 .. most) -> B]
  <2> HIDE DEF B, Grown
  <2> QED BY <1>1
<1>3. {w} \in B
  OBVIOUS
<1>4. PICK f : f \in [0 .. most -> B] /\ f[0] = {w} /\ \A i \in 1 .. most : f[i] = H[<<f[i - 1], i>>]
  <2> HIDE DEF H, B
  <2>1. PICK f : IsChain(f, most, B, {w}, H)
    BY <1>2, <1>3, RecursionExists
  <2> QED BY <2>1 DEF IsChain
<1>5. Is(f)
  <2> HIDE DEF B, Grown
  <2>1. ASSUME NEW i \in 0 .. most PROVE f[i] = IF i = 0 THEN {w} ELSE Grown(f[i - 1])
    <3>1. CASE i = 0
      BY <1>4, <3>1
    <3>2. CASE i # 0
      <4>1. i \in 1 .. most /\ i - 1 \in 0 .. most
        BY <3>2
      <4>2. f[i - 1] \in B /\ f[i] = H[<<f[i - 1], i>>]
        BY <1>4, <4>1
      <4>3. <<f[i - 1], i>> \in B \X (1 .. most)
        BY <4>1, <4>2
      <4> QED BY <3>2, <4>2, <4>3
    <3> QED BY <3>1, <3>2
  <2>2. f = [i \in 0 .. most |-> f[i]]
    BY <1>4
  <2> QED BY <2>1, <2>2
<1>6. Within(w, most) = reach
  BY DEF Within
<1> HIDE DEF H
<1>7. Is(reach)
  <2> HIDE DEF Is
  <2> QED BY <1>5
<1> HIDE DEF reach
<1>8. \A i \in 0 .. most : reach[i] = IF i = 0 THEN {w} ELSE Grown(reach[i - 1])
  <2> HIDE DEF Grown
  <2> QED BY <1>7
<1> DEFINE Has(i) == \A u : u \in reach[i] <=> u \in Seq(Letters) /\ Reaches(w, u, i)
           S == {i \in 0 .. most : Has(i)}
<1>9. Has(0)
  <2>1. reach[0] = {w}
    BY <1>8, 0 \in 0 .. most
  <2> QED BY <2>1, ReachesNothing
<1>10. ASSUME NEW i \in 0 .. most - 1, Has(i) PROVE Has(i + 1)
  <2>1. i + 1 \in 0 .. most /\ (i + 1) - 1 = i /\ i + 1 # 0 /\ i \in Nat
    OBVIOUS
  <2>2. reach[i + 1] = Grown(reach[i])
    BY <1>8, <2>1
  <2>3. ASSUME NEW u, u \in Grown(reach[i]) PROVE u \in Seq(Letters) /\ Reaches(w, u, i + 1)
    <3>1. CASE u \in reach[i]
      <4>1. u \in Seq(Letters) /\ Reaches(w, u, i)
        BY <1>10, <3>1
      <4> QED BY <2>1, <4>1, ReachesMore
    <3>2. CASE \E x \in reach[i] : u \in Edited(x)
      <4>1. PICK x \in reach[i] : u \in Edited(x)
        BY <3>2
      <4>2. x \in Seq(Letters) /\ Reaches(w, x, i)
        BY <1>10, <4>1
      <4>3. u \in Seq(Letters) /\ IsEdit(x, u)
        BY <4>1, <4>2, EditedIs
      <4> QED BY <2>1, <4>2, <4>3, ReachesMore
    <3> QED BY <2>3, <3>1, <3>2
  <2>4. ASSUME NEW u \in Seq(Letters), Reaches(w, u, i + 1) PROVE u \in Grown(reach[i])
    <3>1. PICK x \in Seq(Letters) : Reaches(w, x, i) /\ (u = x \/ IsEdit(x, u))
      BY <2>1, <2>4, ReachesLess
    <3>2. x \in reach[i]
      BY <1>10, <3>1
    <3>3. CASE u = x
      BY <3>2, <3>3
    <3>4. CASE IsEdit(x, u)
      <4>1. u \in Edited(x)
        BY <3>4, EditedIs
      <4> QED BY <3>2, <4>1
    <3> QED BY <3>1, <3>3, <3>4
  <2> HIDE DEF Grown
  <2> QED BY <2>2, <2>3, <2>4
<1>11. Has(k)
  <2> HIDE DEF Has
  <2>1. 0 \in S
    BY <1>9
  <2>2. \A i \in 0 .. most - 1 : i \in S => i + 1 \in S
    BY <1>10
  <2> HIDE DEF S
  <2>3. 0 .. most \subseteq S
    BY <2>1, <2>2, UpTo
  <2>4. k \in S
    BY <2>3
  <2> QED BY <2>4 DEF S
<1> QED BY <1>6, <1>11

LEMMA NothingBetween ==
    ASSUME NEW s, Len(s) \in Nat
    PROVE  Distance(s, s) = 0
<1> DEFINE n == Len(s)
           d == Table(s, s)
           S == {i \in 0 .. n : d[i][i] = 0}
<1>1. IsGrid(d, s, s)
  BY TableIsGrid
<1> HIDE DEF d
<1>2. 0 \in S
  <2>1. 0 \in 0 .. n
    OBVIOUS
  <2>2. d[0][0] = 0
    BY <1>1, <2>1, CellsOf
  <2> QED BY <2>1, <2>2
<1>3. ASSUME NEW i \in 0 .. n - 1, i \in S PROVE i + 1 \in S
  <2>1. i + 1 \in 0 .. n /\ i + 1 # 0 /\ (i + 1) - 1 = i
    OBVIOUS
  <2>2. IsLeast(d[i + 1][i + 1], d[(i + 1) - 1][i + 1], d[i + 1][(i + 1) - 1], d[(i + 1) - 1][(i + 1) - 1],
                s[i + 1] = s[i + 1])
    BY <1>1, <2>1, CellsOf
  <2>3. d[i][i] = 0
    BY <1>3
  <2>4. d[i + 1][i + 1] = 0
    BY <2>1, <2>2, <2>3 DEF IsLeast
  <2> QED BY <2>1, <2>4
<1> HIDE DEF S
<1>4. 0 .. n \subseteq S
  BY <1>2, <1>3, UpTo
<1>5. n \in S
  BY <1>4
<1> QED BY <1>5 DEF S, d, Distance

\* No edits lead further than their number.
LEMMA ReachedIsNear ==
    ASSUME NEW s \in Seq(Letters), NEW t, NEW k \in Nat, Reaches(s, t, k)
    PROVE  Distance(s, t) <= k
<1>1. PICK path : IsPath(path, s, t, k)
  BY DEF Reaches
<1>2. /\ path \in [0 .. k -> Seq(Letters)] /\ path[0] = s /\ path[k] = t
      /\ \A i \in 1 .. k : path[i] = path[i - 1] \/ IsEdit(path[i - 1], path[i])
  BY <1>1 DEF IsPath
<1> DEFINE S == {i \in 0 .. k : Distance(s, path[i]) <= i}
<1>3. 0 \in S
  <2>1. Len(s) \in Nat
    OBVIOUS
  <2>2. Distance(s, path[0]) = 0
    BY <1>2, <2>1, NothingBetween
  <2> QED BY <2>2
<1>4. ASSUME NEW i \in 0 .. k - 1, i \in S PROVE i + 1 \in S
  <2>1. i + 1 \in 1 .. k /\ (i + 1) - 1 = i /\ i \in 0 .. k /\ i + 1 \in 0 .. k
    OBVIOUS
  <2>2. path[i] \in Seq(Letters) /\ path[i + 1] \in Seq(Letters)
    BY <1>2, <2>1
  <2>3. Distance(s, path[i]) <= i /\ Distance(s, path[i]) \in Nat /\ Distance(s, path[i + 1]) \in Nat
    <3>1. Len(s) \in Nat /\ Len(path[i]) \in Nat /\ Len(path[i + 1]) \in Nat
      BY <2>2
    <3> QED BY <1>4, <3>1, DistanceFacts
  <2>4. path[i + 1] = path[i] \/ IsEdit(path[i], path[i + 1])
    BY <1>2, <2>1
  <2>5. Distance(s, path[i + 1]) <= Distance(s, path[i]) + 1
    <3>1. CASE path[i + 1] = path[i]
      BY <2>3, <3>1
    <3>2. CASE IsEdit(path[i], path[i + 1])
      BY <2>2, <3>2, EditIsNear
    <3> QED BY <2>4, <3>1, <3>2
  <2>6. Distance(s, path[i + 1]) <= i + 1
    BY <2>3, <2>5
  <2> QED BY <2>1, <2>6
<1> HIDE DEF S
<1>5. 0 .. k \subseteq S
  BY <1>3, <1>4, UpTo
<1>6. k \in S
  BY <1>5
<1> QED BY <1>2, <1>6 DEF S

LEMMA Beginnings ==
    ASSUME NEW s \in Seq(Letters)
    PROVE  /\ SubSeq(s, 1, 0) = << >> /\ SubSeq(s, 1, Len(s)) = s
           /\ \A i \in 0 .. Len(s) : SubSeq(s, 1, i) \in Seq(Letters)
           /\ \A i \in 0 .. Len(s) : i # 0 =>
                 s[i] \in Letters /\ SubSeq(s, 1, i) = Append(SubSeq(s, 1, i - 1), s[i])
<1>1. \A i \in 0 .. Len(s) : /\ SubSeq(s, 1, i) \in Seq(Letters) /\ Len(SubSeq(s, 1, i)) = i
                            /\ \A q \in 1 .. i : SubSeq(s, 1, i)[q] = s[q]
  OBVIOUS
<1>2. SubSeq(s, 1, 0) = << >>
  BY <1>1, 0 \in 0 .. Len(s)
<1>3. SubSeq(s, 1, Len(s)) = s
  BY <1>1, Len(s) \in 0 .. Len(s), SameWord
<1>4. ASSUME NEW i \in 0 .. Len(s), i # 0
      PROVE  s[i] \in Letters /\ SubSeq(s, 1, i) = Append(SubSeq(s, 1, i - 1), s[i])
  <2> DEFINE head == SubSeq(s, 1, i - 1)
             whole == SubSeq(s, 1, i)
  <2>1. i \in 1 .. Len(s) /\ i - 1 \in 0 .. Len(s) /\ s[i] \in Letters
    BY <1>4
  <2>2. /\ head \in Seq(Letters) /\ Len(head) = i - 1 /\ \A q \in 1 .. i - 1 : head[q] = s[q]
        /\ whole \in Seq(Letters) /\ Len(whole) = i /\ \A q \in 1 .. i : whole[q] = s[q]
    BY <1>1, <2>1
  <2> HIDE DEF head, whole
  <2>3. /\ Append(head, s[i]) \in Seq(Letters) /\ Len(Append(head, s[i])) = i
        /\ \A q \in 1 .. i : Append(head, s[i])[q] = s[q]
    BY <2>1, <2>2
  <2>4. whole = Append(head, s[i])
    BY <2>2, <2>3, SameWord
  <2> QED BY <2>1, <2>4 DEF head, whole
<1> QED BY <1>1, <1>2, <1>3, <1>4

\* As many edits as the distance says are enough.
LEMMA DistanceIsEnough ==
    ASSUME NEW s \in Seq(Letters), NEW t \in Seq(Letters)
    PROVE  Reaches(s, t, Distance(s, t))
<1> DEFINE n == Len(s)
           m == Len(t)
           d == Table(s, t)
           from(i) == SubSeq(s, 1, i)
           to(j) == SubSeq(t, 1, j)
           P(j, i) == Reaches(from(i), to(j), d[j][i])
           S == {r \in (0 .. m) \X (0 .. n) : P(r[1], r[2])}
<1>0. n \in Nat /\ m \in Nat /\ IsGrid(d, s, t)
  BY TableIsGrid
<1> HIDE DEF d
<1>a. ASSUME NEW j \in 0 .. m, NEW i \in 0 .. n PROVE from(i) \in Seq(Letters) /\ to(j) \in Seq(Letters) /\ d[j][i] \in Nat
  BY <1>0, Beginnings, CellsOf
<1>b. ASSUME NEW j \in 0 .. m, NEW i \in 0 .. n, i # 0
      PROVE  /\ from(i) = Append(from(i - 1), s[i]) /\ s[i] \in Letters /\ i - 1 \in 0 .. n
             /\ \A k \in Nat : Reaches(from(i - 1), to(j), k) => Reaches(from(i), to(j), k + 1)
  <2>1. from(i) = Append(from(i - 1), s[i]) /\ s[i] \in Letters /\ i - 1 \in 0 .. n
    BY <1>b, Beginnings
  <2>2. from(i - 1) \in Seq(Letters) /\ to(j) \in Seq(Letters)
    BY <1>a, <2>1
  <2> HIDE DEF from, to
  <2>3. ASSUME NEW k \in Nat, Reaches(from(i - 1), to(j), k) PROVE Reaches(from(i), to(j), k + 1)
    <3>1. Reaches(from(i), Append(to(j), s[i]), k)
      BY <2>1, <2>3, ReachesAppended
    <3>2. IsEdit(Append(to(j), s[i]), to(j))
      BY <2>1, <2>2, EditsAtTheEnd
    <3> QED BY <2>2, <3>1, <3>2, ReachesMore
  <2> QED BY <2>1, <2>3
<1>c. ASSUME NEW j \in 0 .. m, NEW i \in 0 .. n, j # 0
      PROVE  /\ to(j) = Append(to(j - 1), t[j]) /\ t[j] \in Letters /\ j - 1 \in 0 .. m
             /\ \A k \in Nat : Reaches(from(i), to(j - 1), k) => Reaches(from(i), to(j), k + 1)
  <2>1. to(j) = Append(to(j - 1), t[j]) /\ t[j] \in Letters /\ j - 1 \in 0 .. m
    BY <1>c, Beginnings
  <2>2. to(j - 1) \in Seq(Letters) /\ to(j) \in Seq(Letters)
    BY <1>a, <2>1
  <2> HIDE DEF from, to
  <2>3. ASSUME NEW k \in Nat, Reaches(from(i), to(j - 1), k) PROVE Reaches(from(i), to(j), k + 1)
    <3>1. IsEdit(to(j - 1), to(j))
      BY <2>1, <2>2, EditsAtTheEnd
    <3> QED BY <2>2, <2>3, <3>1, ReachesMore
  <2> QED BY <2>1, <2>3
<1>1. ASSUME NEW j \in 0 .. m, NEW i \in 0 .. n,
             j # 0 => \A k \in 0 .. n : P(j - 1, k), i # 0 => P(j, i - 1)
      PROVE  P(j, i)
  <2>1. CASE j = 0 /\ i = 0
    <3>1. from(i) = << >> /\ to(j) = << >>
      BY <2>1, Beginnings
    <3>2. d[j][i] = 0 /\ << >> \in Seq(Letters)
      BY <1>0, <2>1, CellsOf
    <3> HIDE DEF from, to
    <3> QED BY <3>1, <3>2, ReachesNothing
  <2>2. CASE j = 0 /\ i # 0
    <3>1. i - 1 \in 0 .. n /\ i - 1 \in Nat /\ (i - 1) + 1 = i
      BY <2>2
    <3>2. d[j][i] = i /\ d[j][i - 1] = i - 1
      BY <1>0, <2>2, <3>1, CellsOf
    <3> HIDE DEF from, to
    <3> QED BY <1>1, <1>b, <2>2, <3>1, <3>2
  <2>3. CASE j # 0 /\ i = 0
    <3>1. j - 1 \in 0 .. m /\ j - 1 \in Nat /\ (j - 1) + 1 = j
      BY <2>3
    <3>2. d[j][i] = j /\ d[j - 1][i] = j - 1
      BY <1>0, <2>3, <3>1, CellsOf
    <3> HIDE DEF from, to
    <3> QED BY <1>1, <1>c, <2>3, <3>1, <3>2
  <2>4. CASE j # 0 /\ i # 0
    <3>1. /\ from(i) = Append(from(i - 1), s[i]) /\ s[i] \in Letters /\ i - 1 \in 0 .. n
          /\ to(j) = Append(to(j - 1), t[j]) /\ t[j] \in Letters /\ j - 1 \in 0 .. m
      BY <1>b, <1>c, <2>4
    <3>2. P(j - 1, i) /\ P(j, i - 1) /\ P(j - 1, i - 1)
      <4> HIDE DEF P
      <4> QED BY <1>1, <2>4, <3>1
    <3>3. IsLeast(d[j][i], d[j - 1][i], d[j][i - 1], d[j - 1][i - 1], s[i] = t[j])
      BY <1>0, <2>4, CellsOf
    <3>4. d[j - 1][i] \in Nat /\ d[j][i - 1] \in Nat /\ d[j - 1][i - 1] \in Nat
      BY <1>a, <3>1
    <3>5. CASE d[j][i] = d[j - 1][i] + 1
      <4> HIDE DEF from, to
      <4> QED BY <1>c, <2>4, <3>2, <3>4, <3>5
    <3>6. CASE d[j][i] = d[j][i - 1] + 1
      <4> HIDE DEF from, to
      <4> QED BY <1>b, <2>4, <3>2, <3>4, <3>6
    <3>7. Reaches(from(i), Append(to(j - 1), s[i]), d[j - 1][i - 1])
      <4> HIDE DEF from, to
      <4> QED BY <3>1, <3>2, <3>4, ReachesAppended
    <3>8. CASE s[i] = t[j] /\ d[j][i] = d[j - 1][i - 1]
      <4> HIDE DEF from, to
      <4> QED BY <3>1, <3>7, <3>8
    <3>9. CASE d[j][i] = d[j - 1][i - 1] + 1
      <4>1. to(j - 1) \in Seq(Letters) /\ to(j) \in Seq(Letters)
        BY <1>a, <3>1
      <4> HIDE DEF from, to
      <4>2. IsEdit(Append(to(j - 1), s[i]), to(j))
        BY <3>1, <4>1, EditsAtTheEnd
      <4> QED BY <3>4, <3>7, <3>9, <4>1, <4>2, ReachesMore
    <3> HIDE DEF P
    <3> QED BY <3>3, <3>5, <3>6, <3>8, <3>9 DEF IsLeast
  <2> HIDE DEF P
  <2> QED BY <2>1, <2>2, <2>3, <2>4
<1>2. \A j \in 0 .. m, i \in 0 .. n : <<j, i>> \in S
  <2> HIDE DEF P
  <2>1. \A j \in 0 .. m, i \in 0 .. n :
           /\ j # 0 => \A k \in 0 .. n : <<j - 1, k>> \in S
           /\ i # 0 => <<j, i - 1>> \in S
           => <<j, i>> \in S
    BY <1>1
  <2> HIDE DEF S
  <2> QED BY <1>0, <2>1, CellByCell
<1>3. \A j \in 0 .. m, i \in 0 .. n : P(j, i)
  <2> HIDE DEF P
  <2> QED BY <1>2
<1>4. P(m, n)
  BY <1>3, m \in 0 .. m, n \in 0 .. n
<1>5. from(n) = s /\ to(m) = t
  BY Beginnings
<1>6. d[m][n] = Distance(s, t)
  BY DEF d, Distance
<1> HIDE DEF from, to
<1> QED BY <1>4, <1>5, <1>6

\* Which words are near is the same in the server and the command line, and is
\* which words so many insertions, deletions and substitutions lead to, however
\* long the words, whatever the limit, and though rows are given up early.
THEOREM DistancesAreExactForAll ==
    ASSUME NEW s \in Seq(Letters), NEW t \in Seq(Letters), NEW limit \in Nat, NEW k \in 0 .. limit,
           NEW most \in Nat, k <= most
    PROVE  /\ (Levenshtein(s, t, limit) <= k) <=> (t \in Within(s, most)[k])
           /\ (CliLevenshtein(s, t, limit) <= k) <=> (t \in Within(s, most)[k])
<1>1. /\ (Levenshtein(s, t, limit) <= k) <=> (Distance(s, t) <= k)
      /\ (CliLevenshtein(s, t, limit) <= k) <=> (Distance(s, t) <= k)
  BY LevenshteinIsDistance
<1>2. k \in 0 .. most /\ k \in Nat
  OBVIOUS
<1>3. (t \in Within(s, most)[k]) <=> Reaches(s, t, k)
  BY <1>2, WithinIs
<1>4. Reaches(s, t, k) => Distance(s, t) <= k
  BY <1>2, ReachedIsNear
<1>5. ASSUME Distance(s, t) <= k PROVE Reaches(s, t, k)
  <2>1. Len(s) \in Nat /\ Len(t) \in Nat
    OBVIOUS
  <2>2. Distance(s, t) \in Nat
    BY <2>1, DistanceFacts
  <2> QED BY <1>2, <1>5, <2>2, DistanceIsEnough, ReachesLater
<1> QED BY <1>1, <1>3, <1>4, <1>5

LEMMA DistancesDoAgree == DistancesAreExact
<1>1. \A s \in Words : s \in Seq(Letters)
  BY DEF Words
<1>2. ASSUME NEW s \in Words, NEW t \in Words, NEW limit \in 1 .. 2, NEW k \in 0 .. limit
      PROVE  /\ (Levenshtein(s, t, limit) <= k) <=> (t \in Within(s, 2)[k])
             /\ (CliLevenshtein(s, t, limit) <= k) <=> (t \in Within(s, 2)[k])
  <2>1. limit \in Nat /\ 2 \in Nat /\ k <= 2
    OBVIOUS
  <2> QED BY <1>1, <2>1, DistancesAreExactForAll
<1> QED BY <1>2 DEF DistancesAreExact

-----------------------------------------------------------------------------
\* Terms.
\* The terms of a text after each of its words.
IsStandard(t, text, n, W) ==
    /\ t \in [0 .. n -> Seq({Stem(w) : w \in W})] /\ t[0] = << >> /\ Standard(text) = t[n]
    /\ \A k \in 1 .. n : t[k] = IF text.words[k] \in Stopwords THEN t[k - 1]
                               ELSE Append(t[k - 1], Stem(text.words[k]))

LEMMA StandardFolds ==
    ASSUME NEW W, NEW text, NEW n \in Nat, text.words \in [1 .. n -> W]
    PROVE  \E t : IsStandard(t, text, n, W)
<1> DEFINE B == Seq({Stem(w) : w \in W})
           Step(b, i) == IF text.words[i] \in Stopwords THEN b ELSE Append(b, Stem(text.words[i]))
           H == [x \in B \X (1 .. n) |-> Step(x[1], x[2])]
           Is(f) == f = [s \in SUBSET (1 .. n) |-> IF s = {} THEN << >> ELSE Step(f[s \ {Max(s)}], Max(s))]
           f == CHOOSE h : Is(h)
<1>1. << >> \in B
  OBVIOUS
<1>2. ASSUME NEW b \in B, NEW i \in 1 .. n PROVE Step(b, i) \in B
  <2>1. text.words[i] \in W
    OBVIOUS
  <2>2. Stem(text.words[i]) \in {Stem(w) : w \in W}
    BY <2>1
  <2> DEFINE M == {Stem(w) : w \in W}
             m == Stem(text.words[i])
  <2> HIDE DEF M, m
  <2>3. Append(b, m) \in Seq(M)
    BY <2>2 DEF M, m
  <2> QED BY <2>3 DEF M, m
<1>3. H \in [B \X (1 .. n) -> B] /\ \A b \in B, i \in 1 .. n : H[<<b, i>>] = Step(b, i)
  <2> HIDE DEF B, Step
  <2>1. \A x \in B \X (1 .. n) : Step(x[1], x[2]) \in B
    BY <1>2
  <2> QED BY <2>1
<1>4. \E g : Is(g)
  <2> HIDE DEF H, B, Step
  <2>1. PICK g : IsFold(g, n, B, << >>, H)
    BY <1>1, <1>3, FoldExists
  <2>2. ASSUME NEW s \in SUBSET (1 .. n), s # {}
        PROVE  H[<<g[s \ {Max(s)}], Max(s)>>] = Step(g[s \ {Max(s)}], Max(s))
    <3>1. Max(s) \in 1 .. n
      BY <2>2, MaxOfSome
    <3>2. g[s \ {Max(s)}] \in B
      BY <2>1 DEF IsFold
    <3> QED BY <1>3, <3>1, <3>2
  <2>3. g = [s \in SUBSET (1 .. n) |-> g[s]]
    BY <2>1 DEF IsFold
  <2>4. [s \in SUBSET (1 .. n) |-> g[s]]
           = [s \in SUBSET (1 .. n) |-> IF s = {} THEN << >> ELSE Step(g[s \ {Max(s)}], Max(s))]
    BY <2>1, <2>2 DEF IsFold
  <2> QED BY <2>3, <2>4
<1>5. Is(f)
  <2> HIDE DEF Is
  <2> QED BY <1>4
<1>6. Standard(text) = f[1 .. n]
  <2>1. DOMAIN text.words = 1 .. n
    OBVIOUS
  <2> QED BY <2>1 DEF Standard, FoldLeft, MapThenFoldSet
<1> DEFINE t == [k \in 0 .. n |-> f[1 .. k]]
<1>7. t[0] = << >>
  <2>1. 1 .. 0 = {} /\ {} \in SUBSET (1 .. n)
    OBVIOUS
  <2>2. f[{}] = << >>
    <3> HIDE DEF f
    <3> QED BY <1>5
  <2> HIDE DEF f
  <2> QED BY <2>1, <2>2
<1>8. ASSUME NEW k \in 1 .. n PROVE t[k] = Step(t[k - 1], k)
  <2>1. Max(1 .. k) = k /\ (1 .. k) \ {k} = 1 .. (k - 1)
    BY MaxOfAll
  <2>2. 1 .. k \in SUBSET (1 .. n) /\ 1 .. k # {}
    OBVIOUS
  <2> HIDE DEF f, Step
  <2>3. f[1 .. k] = Step(f[(1 .. k) \ {Max(1 .. k)}], Max(1 .. k))
    BY <1>5, <2>2
  <2>4. t[k] = f[1 .. k] /\ t[k - 1] = f[1 .. (k - 1)]
    OBVIOUS
  <2> QED BY <2>1, <2>3, <2>4
<1>9. t[n] = f[1 .. n] /\ t = [k \in 0 .. n |-> t[k]]
  OBVIOUS
<1> HIDE DEF t
<1>10. t \in [0 .. n -> B]
  <2> DEFINE S == {k \in 0 .. n : t[k] \in B}
  <2> HIDE DEF B, Step
  <2>1. 0 \in S
    BY <1>1, <1>7
  <2>2. ASSUME NEW k \in 0 .. n - 1, k \in S PROVE k + 1 \in S
    <3>1. k + 1 \in 1 .. n /\ (k + 1) - 1 = k /\ k + 1 \in 0 .. n
      OBVIOUS
    <3>2. t[k + 1] = Step(t[k], k + 1)
      BY <1>8, <3>1
    <3> QED BY <1>2, <2>2, <3>1, <3>2
  <2> HIDE DEF S
  <2>3. 0 .. n \subseteq S
    BY <2>1, <2>2, UpTo
  <2>4. \A k \in 0 .. n : t[k] \in B
    BY <2>3 DEF S
  <2> QED BY <1>9, <2>4
<1>11. IsStandard(t, text, n, W)
  BY <1>6, <1>7, <1>8, <1>9, <1>10 DEF IsStandard
<1> QED BY <1>11

\* What is kept of a list after each of its members.
IsOnce(t, terms, n, W) ==
    /\ t \in [0 .. n -> Seq(W)] /\ t[0] = << >> /\ Once(terms) = t[n]
    /\ \A k \in 1 .. n : t[k] = IF terms[k] \in Range(t[k - 1]) THEN t[k - 1]
                               ELSE Append(t[k - 1], terms[k])

LEMMA OnceFolds ==
    ASSUME NEW W, NEW n \in Nat, NEW terms \in [1 .. n -> W]
    PROVE  \E t : IsOnce(t, terms, n, W)
<1> DEFINE B == Seq(W)
           Step(b, i) == IF terms[i] \in Range(b) THEN b ELSE Append(b, terms[i])
           H == [x \in B \X (1 .. n) |-> Step(x[1], x[2])]
           Is(f) == f = [s \in SUBSET (1 .. n) |-> IF s = {} THEN << >> ELSE Step(f[s \ {Max(s)}], Max(s))]
           f == CHOOSE h : Is(h)
<1>1. << >> \in B
  OBVIOUS
<1>2. ASSUME NEW b \in B, NEW i \in 1 .. n PROVE Step(b, i) \in B
  OBVIOUS
<1>3. H \in [B \X (1 .. n) -> B] /\ \A b \in B, i \in 1 .. n : H[<<b, i>>] = Step(b, i)
  <2> HIDE DEF B, Step
  <2>1. \A x \in B \X (1 .. n) : Step(x[1], x[2]) \in B
    BY <1>2
  <2> QED BY <2>1
<1>4. \E g : Is(g)
  <2> HIDE DEF H, B, Step
  <2>1. PICK g : IsFold(g, n, B, << >>, H)
    BY <1>1, <1>3, FoldExists
  <2>2. ASSUME NEW s \in SUBSET (1 .. n), s # {}
        PROVE  H[<<g[s \ {Max(s)}], Max(s)>>] = Step(g[s \ {Max(s)}], Max(s))
    <3>1. Max(s) \in 1 .. n
      BY <2>2, MaxOfSome
    <3>2. g[s \ {Max(s)}] \in B
      BY <2>1 DEF IsFold
    <3> QED BY <1>3, <3>1, <3>2
  <2>3. g = [s \in SUBSET (1 .. n) |-> g[s]]
    BY <2>1 DEF IsFold
  <2>4. [s \in SUBSET (1 .. n) |-> g[s]]
           = [s \in SUBSET (1 .. n) |-> IF s = {} THEN << >> ELSE Step(g[s \ {Max(s)}], Max(s))]
    BY <2>1, <2>2 DEF IsFold
  <2> QED BY <2>3, <2>4
<1>5. Is(f)
  <2> HIDE DEF Is
  <2> QED BY <1>4
<1>6. Once(terms) = f[1 .. n]
  <2>1. DOMAIN terms = 1 .. n
    OBVIOUS
  <2> QED BY <2>1 DEF Once, FoldLeft, MapThenFoldSet
<1> DEFINE t == [k \in 0 .. n |-> f[1 .. k]]
<1>7. t[0] = << >>
  <2>1. 1 .. 0 = {} /\ {} \in SUBSET (1 .. n)
    OBVIOUS
  <2>2. f[{}] = << >>
    <3> HIDE DEF f
    <3> QED BY <1>5
  <2> HIDE DEF f
  <2> QED BY <2>1, <2>2
<1>8. ASSUME NEW k \in 1 .. n PROVE t[k] = Step(t[k - 1], k)
  <2>1. Max(1 .. k) = k /\ (1 .. k) \ {k} = 1 .. (k - 1)
    BY MaxOfAll
  <2>2. 1 .. k \in SUBSET (1 .. n) /\ 1 .. k # {}
    OBVIOUS
  <2> HIDE DEF f, Step
  <2>3. f[1 .. k] = Step(f[(1 .. k) \ {Max(1 .. k)}], Max(1 .. k))
    BY <1>5, <2>2
  <2>4. t[k] = f[1 .. k] /\ t[k - 1] = f[1 .. (k - 1)]
    OBVIOUS
  <2> QED BY <2>1, <2>3, <2>4
<1>9. t[n] = f[1 .. n] /\ t = [k \in 0 .. n |-> t[k]]
  OBVIOUS
<1> HIDE DEF t
<1>10. t \in [0 .. n -> B]
  <2> DEFINE S == {k \in 0 .. n : t[k] \in B}
  <2> HIDE DEF B, Step
  <2>1. 0 \in S
    BY <1>1, <1>7
  <2>2. ASSUME NEW k \in 0 .. n - 1, k \in S PROVE k + 1 \in S
    <3>1. k + 1 \in 1 .. n /\ (k + 1) - 1 = k /\ k + 1 \in 0 .. n
      OBVIOUS
    <3>2. t[k + 1] = Step(t[k], k + 1)
      BY <1>8, <3>1
    <3> QED BY <1>2, <2>2, <3>1, <3>2
  <2> HIDE DEF S
  <2>3. 0 .. n \subseteq S
    BY <2>1, <2>2, UpTo
  <2>4. \A k \in 0 .. n : t[k] \in B
    BY <2>3 DEF S
  <2> QED BY <1>9, <2>4
<1>11. IsOnce(t, terms, n, W)
  BY <1>6, <1>7, <1>8, <1>9, <1>10 DEF IsOnce
<1> QED BY <1>11

\* Nothing is lost of a list whose repetitions are left out.
LEMMA OnceKeepsAll ==
    ASSUME NEW W, NEW terms \in Seq(W)
    PROVE  Once(terms) \in Seq(W) /\ Range(Once(terms)) = Range(terms)
<1> DEFINE n == Len(terms)
<1>1. n \in Nat /\ terms \in [1 .. n -> W] /\ DOMAIN terms = 1 .. n
  OBVIOUS
<1> HIDE DEF n
<1>0. PICK t : IsOnce(t, terms, n, W)
  BY <1>1, OnceFolds
<1>2. /\ t \in [0 .. n -> Seq(W)] /\ t[0] = << >> /\ Once(terms) = t[n]
      /\ \A k \in 1 .. n : t[k] = IF terms[k] \in Range(t[k - 1]) THEN t[k - 1]
                                 ELSE Append(t[k - 1], terms[k])
  BY <1>0 DEF IsOnce
<1> DEFINE S == {k \in 0 .. n : Range(t[k]) = {terms[i] : i \in 1 .. k}}
<1>3. 0 \in S
  <2>1. 1 .. 0 = {} /\ DOMAIN << >> = {} /\ 0 \in 0 .. n
    BY <1>1
  <2>2. {terms[i] : i \in 1 .. 0} = {} /\ Range(<< >>) = {}
    BY <2>1 DEF Range
  <2> QED BY <1>2, <2>1, <2>2
<1>4. ASSUME NEW k \in 0 .. n - 1, k \in S PROVE k + 1 \in S
  <2>1. k + 1 \in 1 .. n /\ (k + 1) - 1 = k /\ k + 1 \in 0 .. n /\ k \in 0 .. n
    BY <1>1
  <2>2. t[k + 1] = IF terms[k + 1] \in Range(t[k]) THEN t[k] ELSE Append(t[k], terms[k + 1])
    BY <1>2, <2>1
  <2>3. t[k] \in Seq(W) /\ terms[k + 1] \in W
    BY <1>1, <1>2, <2>1
  <2>4. Range(Append(t[k], terms[k + 1])) = Range(t[k]) \cup {terms[k + 1]}
    <3>1. ASSUME NEW q \in Seq(W), NEW w \in W PROVE Range(Append(q, w)) = Range(q) \cup {w}
      <4>1. ASSUME NEW x \in Range(Append(q, w)) PROVE x \in Range(q) \cup {w}
        BY <4>1 DEF Range
      <4>2. ASSUME NEW x \in Range(q) PROVE x \in Range(Append(q, w))
        <5>1. PICK i \in DOMAIN q : x = q[i]
          BY <4>2 DEF Range
        <5>2. i \in DOMAIN Append(q, w) /\ Append(q, w)[i] = x
          BY <5>1
        <5> QED BY <5>2 DEF Range
      <4>3. w \in Range(Append(q, w))
        <5>1. Len(q) + 1 \in DOMAIN Append(q, w) /\ Append(q, w)[Len(q) + 1] = w
          OBVIOUS
        <5> QED BY <5>1 DEF Range
      <4> QED BY <4>1, <4>2, <4>3
    <3> QED BY <2>3, <3>1
  <2>5. Range(t[k + 1]) = Range(t[k]) \cup {terms[k + 1]}
    BY <2>2, <2>4
  <2>6. Range(t[k]) = {terms[i] : i \in 1 .. k}
    BY <1>4
  <2>7. {terms[i] : i \in 1 .. k + 1} = {terms[i] : i \in 1 .. k} \cup {terms[k + 1]}
    <3>1. 1 .. k + 1 = (1 .. k) \cup {k + 1}
      BY <2>1
    <3> QED BY <3>1
  <2> QED BY <2>1, <2>5, <2>6, <2>7
<1> HIDE DEF S
<1>5. 0 .. n \subseteq S
  BY <1>1, <1>3, <1>4, UpTo
<1>6. n \in 0 .. n
  BY <1>1
<1>7. Range(t[n]) = {terms[i] : i \in 1 .. n}
  BY <1>5, <1>6 DEF S
<1>8. t[n] \in Seq(W)
  BY <1>2, <1>6
<1> QED BY <1>1, <1>2, <1>7, <1>8 DEF Range

\* Texts of any length, of any words.
IsText(text) == text.words \in Seq(Vocabulary) /\ text.slashes \in BOOLEAN
VocabularyAndStems == Vocabulary \cup {Stem(w) : w \in Vocabulary}

LEMMA AnalyzedIsASequence ==
    ASSUME NEW text, IsText(text), NEW field \in DOMAIN TextFields
    PROVE  Analyze(field, text) \in Seq(VocabularyAndStems)
<1> DEFINE n == Len(text.words)
<1>1. text.words \in Seq(Vocabulary)
  BY DEF IsText
<1>2. n \in Nat /\ text.words \in [1 .. n -> Vocabulary]
  BY <1>1
<1> HIDE DEF n
<1> DEFINE Stems == {Stem(w) : w \in Vocabulary}
<1>3. Standard(text) \in Seq(Stems)
  <2>1. PICK t : IsStandard(t, text, n, Vocabulary)
    BY <1>2, StandardFolds
  <2>2. t \in [0 .. n -> Seq(Stems)] /\ Standard(text) = t[n]
    BY <2>1 DEF IsStandard
  <2> QED BY <1>2, <2>2
<1>4. Stems \subseteq VocabularyAndStems /\ Vocabulary \subseteq VocabularyAndStems
  BY DEF VocabularyAndStems
<1> HIDE DEF Stems
<1>5. Standard(text) \in Seq(VocabularyAndStems) /\ text.words \in Seq(VocabularyAndStems)
  BY <1>1, <1>3, <1>4
<1> QED BY <1>5 DEF Analyze, Path

\* The terms of a query begin with its own words, each once.
LEMMA WordsAreTerms ==
    ASSUME NEW query, IsText(query), NEW field \in DOMAIN TextFields, NEW w \in Range(Analyze(field, query))
    PROVE  \E i \in DOMAIN QueryTerms(field, query) : QueryTerms(field, query)[i] = w
<1> DEFINE base == Once(Analyze(field, query))
           synonyms == UNION {Synonyms[v] : v \in Range(base) \cap DOMAIN Synonyms}
           more == synonyms \ Range(base)
<1>1. base \in Seq(VocabularyAndStems) /\ Range(base) = Range(Analyze(field, query))
  BY AnalyzedIsASequence, OnceKeepsAll
<1>2. Len(base) \in Nat /\ DOMAIN base = 1 .. Len(base)
  BY <1>1
<1>3. IsFiniteSet(Range(base) \cap DOMAIN Synonyms)
  <2>1. IsFiniteSet(1 .. Len(base))
    BY <1>2, FS_Interval
  <2>2. IsFiniteSet({base[i] : i \in 1 .. Len(base)})
    <3>1. ASSUME NEW b, NEW D, IsFiniteSet(D) PROVE IsFiniteSet({b[i] : i \in D})
      <4> DEFINE R == {b[i] : i \in D}
                 f == [i \in D |-> b[i]]
      <4>1. f \in Surjection(D, R)
        BY DEF Surjection
      <4> HIDE DEF f, R
      <4>2. IsFiniteSet(R)
        BY <3>1, <4>1, FS_Surjection
      <4> QED BY <4>2 DEF R
    <3> QED BY <2>1, <3>1
  <2>3. Range(base) = {base[i] : i \in 1 .. Len(base)}
    BY <1>2 DEF Range
  <2> HIDE DEF base
  <2> QED BY <2>2, <2>3, FS_Intersection
<1>4. IsFiniteSet(more)
  <2> DEFINE V == Range(base) \cap DOMAIN Synonyms
             Sets == {Synonyms[v] : v \in V}
             f == [v \in V |-> Synonyms[v]]
  <2>1. f \in Surjection(V, Sets)
    BY DEF Surjection
  <2>2. \A T \in Sets : IsFiniteSet(T)
    BY SynonymsAssumption
  <2>3. IsFiniteSet(V)
    BY <1>3
  <2> HIDE DEF f, V, Sets
  <2>4. IsFiniteSet(Sets)
    BY <2>1, <2>3, FS_Surjection
  <2>5. IsFiniteSet(UNION Sets)
    BY <2>2, <2>4, FS_UNION
  <2>6. IsFiniteSet((UNION Sets) \ Range(base))
    BY <2>5, FS_Difference
  <2> QED BY <2>6 DEF Sets, V
<1> HIDE DEF synonyms, more
<1>5. PICK m \in Nat : SetToSeq(more) \in [1 .. m -> more]
  <2>1. Lists(SetToSeq(more), more)
    BY <1>4, SeqsList
  <2> QED BY <2>1 DEF Lists
<1>6. QueryTerms(field, query) = base \o SetToSeq(more)
  BY DEF QueryTerms, synonyms, more
<1> HIDE DEF base
<1>7. PICK i \in 1 .. Len(base) : base[i] = w
  BY <1>1, <1>2 DEF Range
<1>8. DOMAIN SetToSeq(more) = 1 .. m /\ SetToSeq(more) \in Seq(more)
  BY <1>5
<1> DEFINE s == SetToSeq(more)
           all == base \o s
<1>9. s \in Seq(more)
  BY <1>8
<1> HIDE DEF s
<1>10. i \in DOMAIN all /\ all[i] = base[i]
  <2>1. ASSUME NEW A, NEW B, NEW p \in Seq(A), NEW q \in Seq(B), NEW j \in 1 .. Len(p)
        PROVE  j \in DOMAIN (p \o q) /\ (p \o q)[j] = p[j]
    <3>1. p \in Seq(A \cup B) /\ q \in Seq(A \cup B)
      OBVIOUS
    <3> QED BY <3>1
  <2> QED BY <1>1, <1>9, <2>1
<1> QED BY <1>6, <1>7, <1>10 DEF s

\* A document is found that has, in a field, a word of the query as this field
\* understands it.
LEMMA FieldIsSearched ==
    ASSUME NEW corpus, NEW query, IsText(query), NEW d \in DOMAIN corpus, NEW field \in DOMAIN TextFields,
           Range(Analyze(field, query)) \cap Range(Analyze(field, corpus[d][field])) # {}
    PROVE  d \in Found(corpus, query)
<1>1. PICK w : w \in Range(Analyze(field, query)) /\ w \in Range(Analyze(field, corpus[d][field]))
  OBVIOUS
<1>2. PICK i \in DOMAIN QueryTerms(field, query) : QueryTerms(field, query)[i] = w
  BY <1>1, WordsAreTerms
<1>3. d \in {e \in DOMAIN corpus : w \in Range(Analyze(field, corpus[e][field]))}
  BY <1>1
<1> QED BY <1>2, <1>3 DEF Found

\* A document that has a word of the query in its body is found, in a segment of
\* any documents, whatever the rest of the query is.
THEOREM WordsAreFoundForAll ==
    ASSUME NEW corpus, NEW query, IsText(query), NEW d \in DOMAIN corpus,
           Range(Standard(query)) \cap Range(Standard(corpus[d].body)) # {}
    PROVE  d \in Found(corpus, query)
<1>1. "body" \in DOMAIN TextFields /\ TextFields["body"] = "english"
  BY DEF TextFields
<1>2. Range(Analyze("body", query)) \cap Range(Analyze("body", corpus[d].body)) # {}
  BY <1>1 DEF Analyze
<1> QED BY <1>1, <1>2, FieldIsSearched

LEMMA TextsAreTexts == ASSUME NEW k \in Nat, NEW text \in TextsOf(k) PROVE IsText(text)
<1>1. PICK m \in 1 .. k : text.words \in [1 .. m -> Vocabulary]
  BY DEF TextsOf
<1>2. m \in Nat
  OBVIOUS
<1>3. text.words \in Seq(Vocabulary)
  BY <1>1, <1>2
<1> QED BY <1>3 DEF TextsOf, IsText

LEMMA WordsAreAlwaysFound == WordsAreFound
  BY WordsAreFoundForAll, TextsAreTexts DEF WordsAreFound

-----------------------------------------------------------------------------
\* Weights.
LEMMA FactorsCancel ==
    ASSUME NEW c \in Nat \ {0}, NEW x \in Int, NEW y \in Int
    PROVE  c * x < c * y <=> x < y
  OBVIOUS

WeightOf(p, q, f, a, k) == <<p * f * a, q * a * f + k>>

\* What is left of the comparison of two weights when their common factors are
\* taken from them: k1 and k2 are what the lengths of the documents add.
LEMMA WeightsCompare ==
    ASSUME NEW a \in Nat \ {0}, NEW f1 \in Nat, NEW f2 \in Nat, NEW k1 \in Nat, NEW k2 \in Nat,
           NEW p \in Nat \ {0}, NEW q \in Nat
    PROVE  Below(WeightOf(p, q, f1, a, k1), WeightOf(p, q, f2, a, k2)) <=> f1 * k2 < f2 * k1
<1> DEFINE c == p * a
           both == f1 * (q * a * f2)
           u == f1 * k2
           v == f2 * k1
<1>1. c \in Nat \ {0} /\ u \in Nat /\ v \in Nat /\ both \in Nat
  OBVIOUS
<1>2. (p * f1 * a) * (q * a * f2 + k2) = c * (both + u)
  OBVIOUS
<1>3. (p * f2 * a) * (q * a * f1 + k1) = c * (both + v)
  OBVIOUS
<1>4. Below(WeightOf(p, q, f1, a, k1), WeightOf(p, q, f2, a, k2))
         <=> (p * f1 * a) * (q * a * f2 + k2) < (p * f2 * a) * (q * a * f1 + k1)
  BY DEF Below, WeightOf
<1> HIDE DEF c, both, u, v
<1>5. c * (both + u) < c * (both + v) <=> both + u < both + v
  BY <1>1, FactorsCancel
<1>6. both + u < both + v <=> u < v
  BY <1>1
<1> QED BY <1>2, <1>3, <1>4, <1>5, <1>6 DEF u, v

\* What the length of a document adds to the weight of its words.
LengthAdds(length, average) == 6 * average + 18 * Lesser(length, 4 * average)
CliLengthAdds(length, average) == 3 * average + 9 * Lesser(length, 4 * average)

LEMMA LengthAddsSome ==
    ASSUME NEW average \in Nat \ {0}, NEW length \in Nat
    PROVE  /\ LengthAdds(length, average) \in Nat /\ CliLengthAdds(length, average) \in Nat
           /\ LengthAdds(length, average) = 2 * CliLengthAdds(length, average)
           /\ LengthAdds(length, average) <= LengthAdds(length + 1, average)
  BY DEF LengthAdds, CliLengthAdds, Lesser

\* The order of the documents with a term is the same by the weights of the
\* server and of the command line, however often they have it, however long they
\* are; no occurrence more lowers a weight and no length more raises it; and the
\* rarer term weighs more (bm25_engine.py, src/cli/internal/engine).
THEOREM WeightsAgreeForAll ==
    ASSUME NEW average \in Nat \ {0}, NEW tf \in Nat, NEW length \in Nat, NEW tf2 \in Nat, NEW length2 \in Nat
    PROVE  WeightsAgreeOn(average, tf, length, tf2, length2)
<1> DEFINE k1 == LengthAdds(length, average)
           k2 == LengthAdds(length2, average)
           j1 == CliLengthAdds(length, average)
           j2 == CliLengthAdds(length2, average)
           longer == LengthAdds(length + 1, average)
<1>1. /\ k1 \in Nat /\ k2 \in Nat /\ j1 \in Nat /\ j2 \in Nat /\ longer \in Nat
      /\ k1 = 2 * j1 /\ k2 = 2 * j2 /\ k1 <= longer
  <2>1. length + 1 \in Nat
    OBVIOUS
  <2> QED BY <2>1, LengthAddsSome
<1>2. /\ Weight(tf, length, average) = WeightOf(44, 20, tf, average, k1)
      /\ Weight(tf + 1, length, average) = WeightOf(44, 20, tf + 1, average, k1)
      /\ Weight(tf, length + 1, average) = WeightOf(44, 20, tf, average, longer)
      /\ Weight(tf2, length2, average) = WeightOf(44, 20, tf2, average, k2)
  <2>1. ASSUME NEW f \in Nat, NEW l \in Nat
        PROVE  Weight(f, l, average) = WeightOf(44, 20, f, average, LengthAdds(l, average))
    <3> DEFINE m == Lesser(l, 4 * average)
    <3>1. m \in Nat
      BY DEF Lesser
    <3> HIDE DEF m
    <3>2. 20 * average * f + 6 * average + 18 * m = 20 * average * f + (6 * average + 18 * m)
      BY <3>1
    <3> QED BY <3>2 DEF Weight, WeightOf, LengthAdds, m
  <2> HIDE DEF k1, k2, longer
  <2> QED BY <2>1 DEF k1, k2, longer
<1>3. /\ CliWeight(tf, length, average) = WeightOf(20, 8, tf, average, j1)
      /\ CliWeight(tf2, length2, average) = WeightOf(20, 8, tf2, average, j2)
  <2>1. ASSUME NEW f \in Nat, NEW l \in Nat
        PROVE  CliWeight(f, l, average) = WeightOf(20, 8, f, average, CliLengthAdds(l, average))
    <3> DEFINE m == Lesser(l, 4 * average)
    <3>1. m \in Nat
      BY DEF Lesser
    <3> HIDE DEF m
    <3>2. 8 * average * f + 3 * average + 9 * m = 8 * average * f + (3 * average + 9 * m)
      BY <3>1
    <3> QED BY <3>2 DEF CliWeight, WeightOf, CliLengthAdds, m
  <2> HIDE DEF j1, j2
  <2> QED BY <2>1 DEF j1, j2
<1> HIDE DEF k1, k2, j1, j2, longer
<1> DEFINE p == 44
           q == 20
           r == 20
           s == 8
<1>4. p \in Nat \ {0} /\ q \in Nat /\ r \in Nat \ {0} /\ s \in Nat /\ tf + 1 \in Nat
  OBVIOUS
<1> HIDE DEF p, q, r, s
<1>5. ASSUME NEW f1 \in Nat, NEW f2 \in Nat, NEW m1 \in Nat, NEW m2 \in Nat
      PROVE  /\ Below(WeightOf(44, 20, f1, average, m1), WeightOf(44, 20, f2, average, m2)) <=> f1 * m2 < f2 * m1
             /\ Below(WeightOf(20, 8, f1, average, m1), WeightOf(20, 8, f2, average, m2)) <=> f1 * m2 < f2 * m1
  <2>1. Below(WeightOf(p, q, f1, average, m1), WeightOf(p, q, f2, average, m2)) <=> f1 * m2 < f2 * m1
    BY <1>4, WeightsCompare
  <2>2. Below(WeightOf(r, s, f1, average, m1), WeightOf(r, s, f2, average, m2)) <=> f1 * m2 < f2 * m1
    BY <1>4, WeightsCompare
  <2> QED BY <2>1, <2>2 DEF p, q, r, s
<1>6. ~Below(Weight(tf + 1, length, average), Weight(tf, length, average))
  <2>1. Below(Weight(tf + 1, length, average), Weight(tf, length, average)) <=> (tf + 1) * k1 < tf * k1
    BY <1>1, <1>2, <1>4, <1>5
  <2>2. (tf + 1) * k1 = tf * k1 + k1 /\ tf * k1 \in Nat
    BY <1>1
  <2> QED BY <1>1, <2>1, <2>2
<1>7. ~Below(Weight(tf, length, average), Weight(tf, length + 1, average))
  <2>1. Below(Weight(tf, length, average), Weight(tf, length + 1, average)) <=> tf * longer < tf * k1
    <3>1. Below(WeightOf(44, 20, tf, average, k1), WeightOf(44, 20, tf, average, longer)) <=> tf * longer < tf * k1
      BY <1>1, <1>5
    <3> QED BY <1>2, <3>1
  <2>2. tf * k1 <= tf * longer /\ tf * k1 \in Nat /\ tf * longer \in Nat
    BY <1>1
  <2> QED BY <2>1, <2>2
<1>8. Below(Weight(tf, length, average), Weight(tf2, length2, average))
         <=> Below(CliWeight(tf, length, average), CliWeight(tf2, length2, average))
  <2>1. Below(Weight(tf, length, average), Weight(tf2, length2, average)) <=> tf * k2 < tf2 * k1
    BY <1>1, <1>2, <1>4, <1>5
  <2>2. Below(CliWeight(tf, length, average), CliWeight(tf2, length2, average)) <=> tf * j2 < tf2 * j1
    BY <1>1, <1>3, <1>4, <1>5
  <2>3. tf * k2 = 2 * (tf * j2) /\ tf2 * k1 = 2 * (tf2 * j1)
    BY <1>1
  <2>4. tf * j2 \in Nat /\ tf2 * j1 \in Nat
    BY <1>1
  <2> QED BY <2>1, <2>2, <2>3, <2>4
<1>9. ~Below(Rarity(tf, length), Rarity(tf + 1, length))
  <2> DEFINE f == Lesser(tf, length)
             g == Lesser(tf + 1, length)
  <2>1. f \in Nat /\ g \in Nat /\ f <= g /\ g <= length
    BY DEF Lesser
  <2> HIDE DEF f, g
  <2>2. (2 * (length - g) + 1) * (2 * f + 1) <= (2 * (length - f) + 1) * (2 * g + 1)
    <3>1. (2 * (length - f) + 1) * (2 * g + 1) - (2 * (length - g) + 1) * (2 * f + 1)
             = (4 * length + 4) * (g - f)
      BY <2>1
    <3>2. (4 * length + 4) * (g - f) \in Nat
      BY <2>1
    <3> QED BY <2>1, <3>1, <3>2
  <2>3. (2 * (length - g) + 1) * (2 * f + 1) \in Int /\ (2 * (length - f) + 1) * (2 * g + 1) \in Int
    BY <2>1
  <2> QED BY <2>2, <2>3 DEF Below, Rarity, f, g
<1> QED BY <1>6, <1>7, <1>8, <1>9 DEF WeightsAgreeOn

LEMMA WeightsDoAgree == WeightsAgree
  BY WeightsAgreeForAll DEF WeightsAgree

-----------------------------------------------------------------------------
\* Snippets.
\* Some of the numbers from 0 to n have a least and a greatest.
LEMMA LeastAndGreatest ==
    ASSUME NEW n \in Nat, NEW s \in SUBSET (0 .. n), s # {}
    PROVE  /\ Min(s) \in s /\ \A i \in s : Min(s) <= i
           /\ Max(s) \in s /\ \A i \in s : i <= Max(s)
<1> DEFINE Has(k) == \A t \in SUBSET (0 .. k) : t # {} => /\ \E m \in t : \A i \in t : m >= i
                                                          /\ \E m \in t : \A i \in t : m =< i
           S == {k \in 0 .. n : Has(k)}
<1>1. Has(0)
  <2>0. 0 .. 0 = {0}
    OBVIOUS
  <2>1. \A t \in SUBSET (0 .. 0) : t # {} => t = {0}
    BY <2>0
  <2> QED BY <2>1
<1>2. ASSUME NEW k \in 0 .. n - 1, Has(k) PROVE Has(k + 1)
  <2> SUFFICES ASSUME NEW t \in SUBSET (0 .. k + 1), t # {}
               PROVE  (\E m \in t : \A i \in t : m >= i) /\ (\E m \in t : \A i \in t : m =< i)
    OBVIOUS
  <2> DEFINE u == t \ {k + 1}
  <2>1. u \in SUBSET (0 .. k) /\ t \subseteq u \cup {k + 1} /\ \A i \in u : i < k + 1
    OBVIOUS
  <2>2. CASE u = {}
    <3>1. t = {k + 1}
      BY <2>1, <2>2
    <3> QED BY <3>1
  <2>3. CASE u # {}
    <3>1. PICK a \in u : \A i \in u : a >= i
      BY <1>2, <2>1, <2>3
    <3>2. PICK b \in u : \A i \in u : b =< i
      BY <1>2, <2>1, <2>3
    <3>3. \A i \in t : b =< i
      BY <2>1, <3>2
    <3>4. \E m \in t : \A i \in t : m >= i
      <4>1. CASE k + 1 \in t
        BY <2>1, <4>1
      <4>2. CASE k + 1 \notin t
        BY <3>1, <4>2
      <4> QED BY <4>1, <4>2
    <3> QED BY <3>3, <3>4
  <2> QED BY <2>2, <2>3
<1>3. Has(n)
  <2> HIDE DEF Has
  <2>1. 0 \in S
    BY <1>1
  <2>2. \A k \in 0 .. n - 1 : k \in S => k + 1 \in S
    BY <1>2
  <2> HIDE DEF S
  <2>3. 0 .. n \subseteq S
    BY <2>1, <2>2, UpTo
  <2>4. n \in S
    BY <2>3
  <2> QED BY <2>4 DEF S
<1>4. (\E m \in s : \A i \in s : m >= i) /\ (\E m \in s : \A i \in s : m =< i)
  BY <1>3
<1>5. Max(s) \in s /\ \A i \in s : Max(s) >= i
  BY <1>4 DEF Max
<1>6. Min(s) \in s /\ \A i \in s : Min(s) =< i
  BY <1>4 DEF Min
<1> QED BY <1>5, <1>6

LEMMA GapsAreInside ==
    ASSUME NEW text, NEW lo, NEW hi, NEW g \in Gaps(text, lo, hi)
    PROVE  g[1] \in lo .. hi /\ g[2] \in lo .. hi
<1>1. g \in (lo .. hi) \X (lo .. hi)
  BY Zenon DEF Gaps
<1> QED BY <1>1

\* A sentence is looked for on the near side of a place.
LEMMA StartIsBefore ==
    ASSUME NEW text, NEW position \in Nat
    PROVE  SentenceStart(text, position) \in 0 .. position
<1> DEFINE lo == Greater(0, position - Context)
           ends == Sentences(text, lo, position)
           gaps == {g \in Gaps(text, lo, position) : g[1] - lo >= (position - lo) \div 4}
           after == {g[2] : g \in gaps}
<1>1. lo \in 0 .. position
  BY SnippetsAssumption DEF Greater
<1> HIDE DEF lo
<1>2. \A g \in Gaps(text, lo, position) : g[2] \in 0 .. position
  <2>1. ASSUME NEW g \in Gaps(text, lo, position) PROVE g[2] \in lo .. position
    BY GapsAreInside
  <2> QED BY <1>1, <2>1
<1>3. ends \in SUBSET (0 .. position)
  BY <1>2 DEF Sentences
<1>4. after \in SUBSET (0 .. position) /\ (gaps # {} => after # {})
  BY <1>2
<1>5. SentenceStart(text, position)
         = IF position = 0 THEN 0 ELSE IF ends # {} THEN Max(ends) ELSE IF gaps # {} THEN Min(after) ELSE lo
  BY DEF SentenceStart, lo
<1> HIDE DEF ends, gaps, after
<1>6. ends # {} => Max(ends) \in 0 .. position
  BY <1>3, LeastAndGreatest
<1>7. gaps # {} => Min(after) \in 0 .. position
  BY <1>4, LeastAndGreatest
<1> QED BY <1>1, <1>5, <1>6, <1>7

LEMMA EndIsAfter ==
    ASSUME NEW text, Len(text) \in Nat, NEW position \in 0 .. Len(text)
    PROVE  SentenceEnd(text, position) \in position .. Len(text)
<1> DEFINE hi == Lesser(Len(text), position + Context)
           ends == Sentences(text, position, hi)
           gaps == {g \in Gaps(text, position, hi) : g[1] - position <= (3 * (hi - position)) \div 4}
           before == {g[1] : g \in gaps}
<1>1. hi \in position .. Len(text)
  BY SnippetsAssumption DEF Lesser
<1> HIDE DEF hi
<1>2. \A g \in Gaps(text, position, hi) : g[1] \in position .. Len(text) /\ g[2] \in position .. Len(text)
  <2>1. ASSUME NEW g \in Gaps(text, position, hi) PROVE g[1] \in position .. hi /\ g[2] \in position .. hi
    BY GapsAreInside
  <2> QED BY <1>1, <2>1
<1>3. ends \in SUBSET (position .. Len(text)) /\ before \in SUBSET (position .. Len(text))
  BY <1>2 DEF Sentences
<1>4. gaps # {} => before # {}
  OBVIOUS
<1>5. SentenceEnd(text, position)
         = IF position >= Len(text) THEN Len(text)
           ELSE IF ends # {} THEN Min(ends) ELSE IF gaps # {} THEN Max(before) ELSE hi
  BY DEF SentenceEnd, hi
<1> HIDE DEF ends, gaps, before
<1>6. ends # {} => Min(ends) \in position .. Len(text)
  <2>1. ends \in SUBSET (0 .. Len(text))
    BY <1>3
  <2> QED BY <1>3, <2>1, LeastAndGreatest
<1>7. gaps # {} => Max(before) \in position .. Len(text)
  <2>1. before \in SUBSET (0 .. Len(text))
    BY <1>3
  <2> QED BY <1>3, <1>4, <2>1, LeastAndGreatest
<1> QED BY <1>1, <1>5, <1>6, <1>7

LEMMA HalfIs == ASSUME NEW n \in Nat PROVE n \div 2 \in Nat /\ n \div 2 <= n /\ n <= 2 * (n \div 2) + 1
  OBVIOUS

\* The server's snippet.
LEMMA PieceHasTheMatch ==
    ASSUME NEW text, Len(text) \in Nat, NEW place \in Nat, NEW length \in 1 .. Context, place + length <= Len(text)
    PROVE  LET piece == Snippet(text, place, length)
           IN  piece[1] <= place /\ place + length <= piece[2] /\ piece[2] - piece[1] <= 2 * Context
<1> DEFINE from == Greater(0, place - Context)
           to == Lesser(Len(text), place + length + Context)
           start == SentenceStart(text, from)
           end == SentenceEnd(text, to)
           center == place + length \div 2
<1>1. from \in 0 .. place /\ to \in place + length .. Len(text)
  BY SnippetsAssumption DEF Greater, Lesser
<1> HIDE DEF from, to
<1>2. start \in 0 .. from
  <2>1. from \in Nat
    BY <1>1
  <2> QED BY <2>1, StartIsBefore
<1>3. end \in to .. Len(text)
  <2>1. to \in 0 .. Len(text)
    BY <1>1
  <2> QED BY <2>1, EndIsAfter
<1>4. center \in Nat /\ center - Context <= place /\ place + length <= center + Context
  <2>1. length \in Nat /\ length <= Context /\ length >= 1 /\ Context \in Nat
    BY SnippetsAssumption
  <2>2. length \div 2 \in Nat /\ length \div 2 <= length /\ length <= 2 * (length \div 2) + 1
    BY <2>1, HalfIs
  <2> DEFINE h == length \div 2
  <2>3. h \in Nat /\ h <= length /\ length <= 2 * h + 1
    BY <2>2
  <2> HIDE DEF h
  <2>4. place + h \in Nat /\ (place + h) - Context <= place /\ place + length <= place + h + Context
    BY <2>1, <2>3
  <2> QED BY <2>4 DEF h
<1>5. Snippet(text, place, length)
         = IF end - start <= 2 * Context THEN <<start, end>>
           ELSE <<Greater(0, center - Context), Lesser(Len(text), center + Context)>>
  BY DEF Snippet, from, to
<1> HIDE DEF start, end, center
<1>6. CASE end - start <= 2 * Context
  <2>1. start <= place /\ place + length <= end
    BY <1>1, <1>2, <1>3
  <2> QED BY <1>5, <1>6, <2>1
<1>7. CASE ~(end - start <= 2 * Context)
  <2>1. Greater(0, center - Context) <= place
    BY <1>4, SnippetsAssumption DEF Greater
  <2>2. place + length <= Lesser(Len(text), center + Context)
    BY <1>4, SnippetsAssumption DEF Lesser
  <2>3. Lesser(Len(text), center + Context) - Greater(0, center - Context) <= 2 * Context
    BY <1>4, SnippetsAssumption DEF Lesser, Greater
  <2> QED BY <1>5, <1>7, <2>1, <2>2, <2>3
<1> QED BY <1>6, <1>7

\* The command line's, whose ends are moved to white space.
LEMMA ClientHasTheMatch ==
    ASSUME NEW text, Len(text) \in Nat, NEW place \in Nat, NEW length \in 1 .. Context, place + length <= Len(text)
    PROVE  LET client == CliSnippet(text, place)
           IN  /\ client[1] <= place \/ At(text, place) = Space
               /\ (length <= Context - Boundary /\ \A i \in place .. place + length - 1 : At(text, i) # Space)
                     => client[1] <= place /\ place + length <= client[2]
<1> DEFINE size == 2 * Context
           fits == Greater(0, place - Context) + size <= Len(text)
           start == IF fits THEN Greater(0, place - Context) ELSE Greater(0, Len(text) - size)
           end == IF fits THEN start + size ELSE Len(text)
           spaces == {i \in start .. end - 1 : At(text, i) = Space}
           least == Min(spaces)
           first == IF start > 0 /\ spaces # {} /\ least - start < Boundary THEN least + 1 ELSE start
           left == {i \in spaces : i >= first}
           most == Max(left)
           last == IF end < Len(text) /\ left # {} /\ most > end - Boundary THEN most ELSE end
<1>1. /\ start \in 0 .. Len(text) /\ end \in 0 .. Len(text) /\ start <= place /\ place + length <= end
      /\ start > 0 => place >= start + Context
      /\ end < Len(text) => place + Context <= end
  BY SnippetsAssumption DEF Greater
<1>2. CliSnippet(text, place) = <<first, last>>
  BY DEF CliSnippet
<1> HIDE DEF size, fits, start, end
<1>3. \A i \in spaces : i \in 0 .. Len(text) /\ i >= start /\ i < end /\ At(text, i) = Space
  BY <1>1
<1> HIDE DEF spaces
<1>4. spaces # {} => least \in spaces
  <2>1. spaces \in SUBSET (0 .. Len(text))
    BY <1>3
  <2> QED BY <2>1, LeastAndGreatest
<1> HIDE DEF least
<1>5. first \in Nat /\ (first <= place \/ At(text, place) = Space)
  <2>1. CASE start > 0 /\ spaces # {} /\ least - start < Boundary
    <3>1. least \in Nat /\ At(text, least) = Space /\ first = least + 1
      BY <1>3, <1>4, <2>1
    <3>2. least <= place
      BY <1>1, <2>1, <3>1, SnippetsAssumption
    <3> HIDE DEF first
    <3>3. CASE least = place
      BY <3>1, <3>3
    <3>4. CASE least # place
      BY <3>1, <3>2, <3>4
    <3> QED BY <3>3, <3>4
  <2>2. CASE ~(start > 0 /\ spaces # {} /\ least - start < Boundary)
    BY <1>1, <2>2
  <2> QED BY <2>1, <2>2
<1> HIDE DEF first
<1>6. \A i \in left : i \in spaces
  OBVIOUS
<1> HIDE DEF left
<1>7. left # {} => most \in left
  <2>1. left \in SUBSET (0 .. Len(text))
    BY <1>3, <1>6
  <2> QED BY <2>1, LeastAndGreatest
<1> HIDE DEF most
<1>8. ASSUME length <= Context - Boundary, \A i \in place .. place + length - 1 : At(text, i) # Space
      PROVE  first <= place /\ place + length <= last
  <2>1. At(text, place) # Space
    <3>1. place \in place .. place + length - 1
      OBVIOUS
    <3> QED BY <1>8, <3>1
  <2>2. CASE end < Len(text) /\ left # {} /\ most > end - Boundary
    <3>1. most \in Nat /\ last = most
      BY <1>3, <1>6, <1>7, <2>2
    <3>2. place + length <= most
      BY <1>1, <1>8, <2>2, <3>1, SnippetsAssumption
    <3> QED BY <1>5, <2>1, <3>1, <3>2
  <2>3. CASE ~(end < Len(text) /\ left # {} /\ most > end - Boundary)
    BY <1>1, <1>5, <2>1, <2>3
  <2> QED BY <2>2, <2>3
<1> HIDE DEF last
<1> QED BY <1>2, <1>5, <1>8

\* A snippet contains the match it was made for, and is no longer than asked,
\* of any text, wherever its white space and its sentences are; the command
\* line's contains it when the match fits (search/snippet.py, snippet.go).
THEOREM MatchesAreShownForAll ==
    ASSUME NEW text, Len(text) \in Nat, NEW place \in Nat, NEW length \in 1 .. Context, place + length <= Len(text)
    PROVE  MatchIsShown(text, place, length)
  BY PieceHasTheMatch, ClientHasTheMatch DEF MatchIsShown

LEMMA MatchesAreAlwaysShown == MatchesAreShown
<1>1. ASSUME NEW text \in SnippetTexts PROVE Len(text) \in Nat
  <2>1. PICK n \in 1 .. TextSize : text \in [1 .. n -> {"x", Space, "."}]
    BY DEF SnippetTexts
  <2>2. n \in Nat
    BY <2>1
  <2>3. Len(text) = n
    BY <2>1, <2>2
  <2> QED BY <2>2, <2>3
<1> QED BY <1>1, MatchesAreShownForAll DEF MatchesAreShown

-----------------------------------------------------------------------------
\* Spans of phrases.
LEMMA LeastOfNaturals ==
    ASSUME NEW S \in SUBSET Nat, S # {} PROVE Min(S) \in S /\ \A x \in S : Min(S) <= x
<1> DEFINE R == OpToRel(<, Nat)
<1>1. PICK x \in S : \A y \in S : <<y, x>> \notin R
  <2>1. IsWellFoundedOn(R, Nat)
    BY NatLessThanWellFounded
  <2> HIDE DEF R
  <2> QED BY <2>1, WFMin
<1>2. \A y \in S : x <= y
  <2>1. ASSUME NEW y \in S PROVE x <= y
    <3>1. y \in Nat /\ x \in Nat /\ <<y, x>> \notin R
      BY <1>1
    <3> QED BY <3>1 DEF OpToRel
  <2> QED BY <2>1
<1> QED BY <1>2 DEF Min

\* A list in ascending order of what is in a set.
IsAscending(list, S) ==
    /\ Len(list) \in Nat /\ DOMAIN list = 1 .. Len(list)
    /\ \A i \in 1 .. Len(list) : list[i] \in S
    /\ \A x \in S : \E i \in 1 .. Len(list) : list[i] = x
    /\ \A i, j \in 1 .. Len(list) : i < j => list[i] < list[j]

LEMMA AscendingIs ==
    ASSUME NEW S \in SUBSET Nat, IsFiniteSet(S) PROVE IsAscending(Ascending(S), S)
<1> DEFINE order == {p \in S \X S : p[1] < p[2]}
           l == Sorted(S, order)
           n == Cardinality(S)
<1>1. \A x, y \in S : <<x, y>> \in order <=> x < y
  OBVIOUS
<1> HIDE DEF order
<1>2. IsOrder(order, S)
  <2>1. ASSUME NEW x \in S, NEW y \in S PROVE x # y => <<x, y>> \in order \/ <<y, x>> \in order
    BY <1>1
  <2>2. ASSUME NEW x \in S, NEW y \in S, NEW z \in S
        PROVE  x # z /\ <<x, y>> \in order /\ <<y, z>> \in order => <<x, z>> \in order
    <3>1. x \in Nat /\ y \in Nat /\ z \in Nat
      OBVIOUS
    <3> QED BY <1>1, <3>1
  <2> QED BY <2>1, <2>2 DEF IsOrder
<1>3. n \in Nat /\ IsListOf(l, S, order, n)
  BY <1>2, SortedIs
<1>4. l = Ascending(S)
  BY DEF Ascending, order
<1> HIDE DEF l, n
<1>5. l \in [1 .. n -> S]
  BY <1>3 DEF IsListOf
<1>6. l \in Seq(S) /\ Len(l) = n
  BY <1>3, <1>5
<1>7. \A i, j \in 1 .. n : i < j => l[i] < l[j]
  BY <1>1, <1>3, <1>5 DEF IsListOf
<1>8. IsAscending(l, S)
  BY <1>3, <1>5, <1>6, <1>7 DEF IsAscending, IsListOf
<1> QED BY <1>4, <1>8

LEMMA GreatestOfNaturals ==
    ASSUME NEW S \in SUBSET Nat, IsFiniteSet(S), S # {} PROVE Max(S) \in S /\ \A x \in S : x <= Max(S)
<1> DEFINE l == Ascending(S)
           n == Len(l)
<1>1. IsAscending(l, S)
  BY AscendingIs
<1> HIDE DEF l
<1>2. n \in 1 .. n /\ n \in Nat
  <2>1. n \in Nat /\ \A x \in S : \E i \in 1 .. n : l[i] = x
    BY <1>1 DEF IsAscending
  <2> HIDE DEF n
  <2>2. \E i \in 1 .. n : TRUE
    BY <2>1
  <2> QED BY <2>1, <2>2
<1>3. ASSUME NEW x \in S PROVE l[n] >= x
  <2>1. PICK i \in 1 .. n : l[i] = x
    BY <1>1 DEF IsAscending
  <2>2. i = n \/ i < n
    BY <1>2
  <2>3. i < n => l[i] < l[n]
    BY <1>1, <1>2 DEF IsAscending
  <2>4. l[n] \in Nat /\ x \in Nat
    BY <1>1, <1>2 DEF IsAscending
  <2> QED BY <2>1, <2>2, <2>3, <2>4
<1>4. l[n] \in S
  BY <1>1, <1>2 DEF IsAscending
<1>5. Max(S) \in S /\ \A x \in S : Max(S) >= x
  BY <1>3, <1>4 DEF Max
<1>6. \A x \in S : x \in Nat /\ Max(S) \in Nat
  BY <1>5
<1> QED BY <1>5, <1>6

-----------------------------------------------------------------------------
\* The moving window: where it stands in each list, what it covers there, the
\* list it moves on in, and the places it may still come to.
Fronts(lists) == {f \in [DOMAIN lists -> Nat] : \A t \in DOMAIN lists : f[t] \in DOMAIN lists[t]}
Heads(lists, f) == {lists[t][f[t]] : t \in DOMAIN lists}
Lowest(lists, f) == CHOOSE t \in DOMAIN lists : \A u \in DOMAIN lists : lists[t][f[t]] <= lists[u][f[u]]
SpanAt(lists, f) == Max(Heads(lists, f)) - lists[Lowest(lists, f)][f[Lowest(lists, f)]] + 1
MovedOn(lists, f) == [f EXCEPT ![Lowest(lists, f)] = @ + 1]
IsLast(lists, f) == f[Lowest(lists, f)] = Len(lists[Lowest(lists, f)])
Onwards(lists, f) == {h \in Fronts(lists) : \A t \in DOMAIN lists : f[t] <= h[t]}
Narrowest(lists, f) == Min({SpanAt(lists, h) : h \in Onwards(lists, f)})
Narrows(g, lists) ==
    g = [f \in Fronts(lists) |-> IF IsLast(lists, f) THEN SpanAt(lists, f)
                                 ELSE Lesser(SpanAt(lists, f), g[MovedOn(lists, f)])]

AreLists(lists) ==
    /\ IsFiniteSet(DOMAIN lists) /\ DOMAIN lists # {}
    /\ \A t \in DOMAIN lists :
          /\ Len(lists[t]) \in Nat \ {0} /\ DOMAIN lists[t] = 1 .. Len(lists[t])
          /\ \A i \in 1 .. Len(lists[t]) : lists[t][i] \in Nat
          /\ \A i, j \in 1 .. Len(lists[t]) : i < j => lists[t][i] < lists[t][j]

LEMMA MinSpanIs ==
    ASSUME NEW lists
    PROVE  MinSpan(lists) = IF Cardinality(DOMAIN lists) = 1 THEN 1
                            ELSE (CHOOSE g : Narrows(g, lists))[[t \in DOMAIN lists |-> 1]]
  BY DEF MinSpan, Narrows, Fronts, IsLast, SpanAt, MovedOn, Lowest, Heads

LEMMA HeadsAre ==
    ASSUME NEW lists, AreLists(lists), NEW f \in Fronts(lists)
    PROVE  LET low == Lowest(lists, f)
               most == Max(Heads(lists, f))
           IN  /\ low \in DOMAIN lists /\ most \in Nat
               /\ \A t \in DOMAIN lists : /\ lists[t][f[t]] \in Nat
                                          /\ lists[low][f[low]] <= lists[t][f[t]] /\ lists[t][f[t]] <= most
               /\ \E t \in DOMAIN lists : lists[t][f[t]] = most
               /\ SpanAt(lists, f) = most - lists[low][f[low]] + 1
               /\ SpanAt(lists, f) \in Nat \ {0}
<1> DEFINE T == DOMAIN lists
           S == Heads(lists, f)
           low == Lowest(lists, f)
           most == Max(S)
<1>1. \A t \in T : lists[t][f[t]] \in Nat
  BY DEF Fronts, AreLists
<1>2. S \in SUBSET Nat /\ S # {}
  BY <1>1 DEF Heads, AreLists
<1>3. IsFiniteSet(S)
  <2> DEFINE h == [t \in T |-> lists[t][f[t]]]
  <2>1. h \in [T -> S] /\ \A x \in S : \E t \in T : h[t] = x
    BY DEF Heads
  <2>2. h \in Surjection(T, S)
    BY <2>1 DEF Surjection
  <2> HIDE DEF h
  <2> QED BY <2>2, FS_Surjection DEF AreLists
<1>4. most \in S /\ \A x \in S : x <= most
  BY <1>2, <1>3, GreatestOfNaturals
<1>5. Min(S) \in S /\ \A x \in S : Min(S) <= x
  BY <1>2, LeastOfNaturals
<1>6. PICK t \in T : lists[t][f[t]] = Min(S)
  BY <1>5 DEF Heads
<1>7. \A u \in T : lists[u][f[u]] \in S
  BY DEF Heads
<1>8. \A u \in T : lists[t][f[t]] <= lists[u][f[u]]
  BY <1>5, <1>6, <1>7
<1>9. low \in T /\ \A u \in T : lists[low][f[low]] <= lists[u][f[u]]
  BY <1>8 DEF Lowest
<1>10. \E u \in T : lists[u][f[u]] = most
  BY <1>4 DEF Heads
<1>11. most \in Nat
  BY <1>2, <1>4
<1>12. SpanAt(lists, f) = most - lists[low][f[low]] + 1
  BY DEF SpanAt
<1>13. lists[low][f[low]] <= most /\ lists[low][f[low]] \in Nat
  BY <1>1, <1>4, <1>7, <1>9
<1> HIDE DEF low, most, S, T
<1>14. SpanAt(lists, f) \in Nat \ {0}
  BY <1>11, <1>12, <1>13
<1>15. \A u \in T : lists[u][f[u]] <= most
  BY <1>4, <1>7
<1> QED BY <1>1, <1>9, <1>10, <1>11, <1>12, <1>14, <1>15 DEF low, most, S, T

LEMMA OnwardsIs ==
    ASSUME NEW lists, AreLists(lists), NEW f \in Fronts(lists), NEW h \in Onwards(lists, f)
    PROVE  /\ h \in Fronts(lists)
           /\ \A t \in DOMAIN lists : /\ f[t] \in 1 .. Len(lists[t]) /\ h[t] \in 1 .. Len(lists[t])
                                      /\ f[t] <= h[t] /\ lists[t][f[t]] <= lists[t][h[t]]
<1>1. h \in Fronts(lists) /\ \A t \in DOMAIN lists : f[t] <= h[t]
  BY DEF Onwards
<1>2. ASSUME NEW t \in DOMAIN lists
      PROVE  /\ f[t] \in 1 .. Len(lists[t]) /\ h[t] \in 1 .. Len(lists[t])
             /\ f[t] <= h[t] /\ lists[t][f[t]] <= lists[t][h[t]]
  <2>1. f[t] \in 1 .. Len(lists[t]) /\ h[t] \in 1 .. Len(lists[t]) /\ f[t] <= h[t]
    BY <1>1 DEF Fronts, AreLists
  <2>2. lists[t][f[t]] \in Nat /\ lists[t][h[t]] \in Nat
    BY <2>1 DEF AreLists
  <2>3. f[t] = h[t] \/ f[t] < h[t]
    BY <2>1 DEF AreLists
  <2>4. f[t] < h[t] => lists[t][f[t]] < lists[t][h[t]]
    BY <2>1 DEF AreLists
  <2> QED BY <2>1, <2>2, <2>3, <2>4
<1> QED BY <1>1, <1>2

LEMMA NarrowestIs ==
    ASSUME NEW lists, AreLists(lists), NEW f \in Fronts(lists)
    PROVE  /\ Narrowest(lists, f) \in Nat \ {0}
           /\ \A h \in Onwards(lists, f) : Narrowest(lists, f) <= SpanAt(lists, h)
           /\ \E h \in Onwards(lists, f) : Narrowest(lists, f) = SpanAt(lists, h)
<1> DEFINE S == {SpanAt(lists, h) : h \in Onwards(lists, f)}
<1>1. \A h \in Onwards(lists, f) : h \in Fronts(lists)
  BY DEF Onwards
<1>2. \A h \in Onwards(lists, f) : SpanAt(lists, h) \in Nat \ {0}
  BY <1>1, HeadsAre
<1>3. f \in Onwards(lists, f)
  <2>1. \A t \in DOMAIN lists : f[t] \in Nat
    BY DEF Fronts
  <2> QED BY <2>1 DEF Onwards
<1>4. S \in SUBSET Nat /\ S # {}
  BY <1>2, <1>3
<1>5. Min(S) \in S /\ \A x \in S : Min(S) <= x
  <2> HIDE DEF S
  <2> QED BY <1>4, LeastOfNaturals
<1>6. Narrowest(lists, f) = Min(S)
  BY DEF Narrowest
<1> QED BY <1>2, <1>5, <1>6

LEMMA LowestCovers ==
    ASSUME NEW lists, AreLists(lists), NEW f \in Fronts(lists), NEW h \in Onwards(lists, f),
           h[Lowest(lists, f)] = f[Lowest(lists, f)]
    PROVE  SpanAt(lists, f) <= SpanAt(lists, h)
<1> DEFINE a == Lowest(lists, f)
           b == Lowest(lists, h)
           p == Max(Heads(lists, f))
           q == Max(Heads(lists, h))
<1>1. /\ a \in DOMAIN lists /\ p \in Nat /\ lists[a][f[a]] \in Nat
      /\ SpanAt(lists, f) = p - lists[a][f[a]] + 1
  BY HeadsAre
<1>2. PICK t \in DOMAIN lists : lists[t][f[t]] = p
  BY HeadsAre
<1>3. h \in Fronts(lists) /\ lists[t][f[t]] <= lists[t][h[t]]
  BY OnwardsIs
<1>4. /\ b \in DOMAIN lists /\ q \in Nat /\ lists[b][h[b]] \in Nat
      /\ lists[b][h[b]] <= lists[a][h[a]] /\ lists[t][h[t]] <= q /\ lists[t][h[t]] \in Nat
      /\ SpanAt(lists, h) = q - lists[b][h[b]] + 1
  BY <1>1, <1>3, HeadsAre
<1>5. lists[b][h[b]] <= lists[a][f[a]] /\ p <= q
  <2> HIDE DEF p, q, b
  <2> QED BY <1>1, <1>2, <1>3, <1>4
<1> HIDE DEF a, b, p, q
<1> QED BY <1>1, <1>4, <1>5

LEMMA MovedOnIs ==
    ASSUME NEW lists, AreLists(lists), NEW f \in Fronts(lists), ~IsLast(lists, f)
    PROVE  /\ MovedOn(lists, f) \in Fronts(lists)
           /\ \A t \in DOMAIN lists :
                 MovedOn(lists, f)[t] = IF t = Lowest(lists, f) THEN f[t] + 1 ELSE f[t]
<1> DEFINE a == Lowest(lists, f)
           m == MovedOn(lists, f)
<1>1. a \in DOMAIN lists
  BY HeadsAre
<1>2. f \in [DOMAIN lists -> Nat]
  BY DEF Fronts
<1>3. \A t \in DOMAIN lists : m[t] = IF t = a THEN f[t] + 1 ELSE f[t]
  BY <1>2 DEF MovedOn
<1>4. m \in [DOMAIN lists -> Nat]
  BY <1>1, <1>2 DEF MovedOn
<1>5. f[a] # Len(lists[a]) /\ f[a] \in 1 .. Len(lists[a]) /\ Len(lists[a]) \in Nat
  BY <1>1 DEF IsLast, Fronts, AreLists
<1>6. f[a] + 1 \in 1 .. Len(lists[a])
  BY <1>5
<1>7. \A t \in DOMAIN lists : m[t] \in DOMAIN lists[t]
  <2> HIDE DEF m, a
  <2> QED BY <1>1, <1>3, <1>6 DEF Fronts, AreLists
<1>8. m \in Fronts(lists)
  BY <1>4, <1>7 DEF Fronts
<1> QED BY <1>3, <1>8

LEMMA NarrowestMoves ==
    ASSUME NEW lists, AreLists(lists), NEW f \in Fronts(lists)
    PROVE  Narrowest(lists, f) = IF IsLast(lists, f) THEN SpanAt(lists, f)
                                 ELSE Lesser(SpanAt(lists, f), Narrowest(lists, MovedOn(lists, f)))
<1> DEFINE a == Lowest(lists, f)
           m == MovedOn(lists, f)
           n == Narrowest(lists, f)
<1>1. a \in DOMAIN lists /\ SpanAt(lists, f) \in Nat
  BY HeadsAre
<1>2. n \in Nat /\ \A h \in Onwards(lists, f) : n <= SpanAt(lists, h)
  BY NarrowestIs
<1>3. PICK h \in Onwards(lists, f) : n = SpanAt(lists, h)
  BY NarrowestIs
<1>4. f \in Onwards(lists, f)
  <2>1. \A t \in DOMAIN lists : f[t] \in Nat
    BY DEF Fronts
  <2> QED BY <2>1 DEF Onwards
<1>5. h[a] = f[a] => n = SpanAt(lists, f)
  <2>1. SUFFICES ASSUME h[a] = f[a] PROVE n = SpanAt(lists, f)
    OBVIOUS
  <2>2. SpanAt(lists, f) <= n
    BY <1>3, <2>1, LowestCovers
  <2>3. n <= SpanAt(lists, f)
    BY <1>2, <1>4
  <2> HIDE DEF n
  <2> QED BY <1>1, <1>2, <2>2, <2>3
<1>6. f[a] \in 1 .. Len(lists[a]) /\ h[a] \in 1 .. Len(lists[a]) /\ f[a] <= h[a] /\ Len(lists[a]) \in Nat
  BY <1>1, OnwardsIs DEF AreLists
<1>7. CASE IsLast(lists, f)
  <2>1. h[a] = f[a]
    BY <1>6, <1>7 DEF IsLast
  <2> QED BY <1>5, <1>7, <2>1
<1>8. CASE ~IsLast(lists, f)
  <2>1. m \in Fronts(lists) /\ \A t \in DOMAIN lists : m[t] = IF t = a THEN f[t] + 1 ELSE f[t]
    BY <1>8, MovedOnIs
  <2> DEFINE k == Narrowest(lists, m)
  <2> HIDE DEF m, n
  <2>2. k \in Nat /\ \A g \in Onwards(lists, m) : k <= SpanAt(lists, g)
    BY <2>1, NarrowestIs
  <2>3. \A t \in DOMAIN lists : f[t] \in Nat /\ f[t] <= m[t]
    <3>1. \A t \in DOMAIN lists : f[t] \in Nat
      BY DEF Fronts
    <3> HIDE DEF a
    <3> QED BY <2>1, <3>1
  <2>4. n <= k
    <3>1. PICK g \in Onwards(lists, m) : k = SpanAt(lists, g)
      BY <2>1, NarrowestIs
    <3>2. g \in Onwards(lists, f)
      <4>1. g \in Fronts(lists) /\ \A t \in DOMAIN lists : m[t] <= g[t] /\ g[t] \in Nat /\ m[t] \in Nat
        BY <2>1, <3>1 DEF Onwards, Fronts
      <4>2. \A t \in DOMAIN lists : f[t] <= g[t]
        BY <2>3, <4>1
      <4> QED BY <4>1, <4>2 DEF Onwards
    <3> QED BY <1>2, <3>1, <3>2 DEF n
  <2>5. n <= SpanAt(lists, f)
    BY <1>2, <1>4 DEF n
  <2>6. h[a] # f[a] => k <= n
    <3>1. SUFFICES ASSUME h[a] # f[a] PROVE k <= n
      OBVIOUS
    <3>2. f[a] + 1 <= h[a]
      BY <1>6, <3>1
    <3>3. h \in Fronts(lists) /\ \A t \in DOMAIN lists : f[t] <= h[t]
      BY OnwardsIs
    <3>4. \A t \in DOMAIN lists : m[t] <= h[t]
      <4> HIDE DEF a
      <4> QED BY <2>1, <3>2, <3>3
    <3>5. h \in Onwards(lists, m)
      BY <3>3, <3>4 DEF Onwards
    <3> QED BY <1>3, <2>2, <3>5 DEF n
  <2>7. n = Lesser(SpanAt(lists, f), k)
    <3>0. n = SpanAt(lists, f) \/ k <= n
      BY <1>5, <2>6 DEF n
    <3>1. n \in Nat
      BY <1>2 DEF n
    <3> HIDE DEF k
    <3> QED BY <1>1, <2>2, <2>4, <2>5, <3>0, <3>1 DEF Lesser
  <2> QED BY <1>8, <2>7 DEF m, n
<1> QED BY <1>7, <1>8

\* The places a window has not come to.
Ahead(lists, f) == {x \in (DOMAIN lists) \X (UNION {DOMAIN lists[t] : t \in DOMAIN lists}) :
                      x[2] \in DOMAIN lists[x[1]] /\ f[x[1]] < x[2]}

LEMMA AheadShrinks ==
    ASSUME NEW lists, AreLists(lists), NEW f \in Fronts(lists), ~IsLast(lists, f)
    PROVE  Ahead(lists, MovedOn(lists, f)) \subseteq Ahead(lists, f)
           /\ Ahead(lists, MovedOn(lists, f)) # Ahead(lists, f)
<1> DEFINE a == Lowest(lists, f)
           m == MovedOn(lists, f)
           places == UNION {DOMAIN lists[t] : t \in DOMAIN lists}
<1>1. m \in Fronts(lists) /\ \A t \in DOMAIN lists : m[t] = IF t = a THEN f[t] + 1 ELSE f[t]
  BY MovedOnIs
<1>2. a \in DOMAIN lists
  BY HeadsAre
<1> HIDE DEF m, a
<1>3. \A t \in DOMAIN lists : f[t] \in Nat /\ m[t] \in Nat /\ f[t] <= m[t]
  <2>1. \A t \in DOMAIN lists : f[t] \in Nat
    BY DEF Fronts
  <2> QED BY <1>1, <2>1
<1>4. \A t \in DOMAIN lists : \A i \in DOMAIN lists[t] : i \in Nat
  BY DEF AreLists
<1>5. ASSUME NEW x \in Ahead(lists, m) PROVE x \in Ahead(lists, f)
  <2>1. /\ x \in (DOMAIN lists) \X places
        /\ x[1] \in DOMAIN lists /\ x[2] \in DOMAIN lists[x[1]] /\ m[x[1]] < x[2]
    BY DEF Ahead
  <2>2. f[x[1]] < x[2]
    BY <1>3, <1>4, <2>1
  <2> QED BY <2>1, <2>2 DEF Ahead
<1>6. f[a] + 1 \in DOMAIN lists[a] /\ m[a] = f[a] + 1
  BY <1>1, <1>2 DEF Fronts
<1>7. <<a, f[a] + 1>> \in Ahead(lists, f)
  <2>1. f[a] < f[a] + 1
    BY <1>2, <1>3
  <2>2. <<a, f[a] + 1>> \in (DOMAIN lists) \X places
    BY <1>2, <1>6
  <2> HIDE DEF places
  <2> QED BY <1>6, <2>1, <2>2 DEF Ahead, places
<1>8. <<a, f[a] + 1>> \notin Ahead(lists, m)
  <2>1. ~(m[a] < f[a] + 1)
    BY <1>2, <1>3, <1>6
  <2> QED BY <2>1 DEF Ahead
<1> QED BY <1>5, <1>7, <1>8 DEF m

LEMMA OneNarrowing ==
    ASSUME NEW lists, AreLists(lists), NEW g, Narrows(g, lists), NEW h, Narrows(h, lists)
    PROVE  \A f \in Fronts(lists) : g[f] = h[f]
<1> DEFINE D == {f \in Fronts(lists) : g[f] # h[f]}
           all == (DOMAIN lists) \X (UNION {DOMAIN lists[t] : t \in DOMAIN lists})
           A == {Ahead(lists, f) : f \in D}
<1>1. SUFFICES ASSUME D # {} PROVE FALSE
  OBVIOUS
<1>2. IsFiniteSet(all)
  <2> DEFINE K == {DOMAIN lists[t] : t \in DOMAIN lists}
             d == [t \in DOMAIN lists |-> DOMAIN lists[t]]
  <2>1. d \in Surjection(DOMAIN lists, K)
    <3>1. d \in [DOMAIN lists -> K] /\ \A x \in K : \E t \in DOMAIN lists : d[t] = x
      OBVIOUS
    <3> QED BY <3>1 DEF Surjection
  <2>2. IsFiniteSet(K)
    <3> HIDE DEF d, K
    <3> QED BY <2>1, FS_Surjection DEF AreLists
  <2>3. ASSUME NEW x \in K PROVE IsFiniteSet(x)
    <3>1. PICK t \in DOMAIN lists : x = DOMAIN lists[t]
      OBVIOUS
    <3>2. x = 1 .. Len(lists[t]) /\ 1 \in Int /\ Len(lists[t]) \in Int
      BY <3>1 DEF AreLists
    <3> QED BY <3>2, FS_Interval
  <2>4. IsFiniteSet(UNION K)
    <3> HIDE DEF K
    <3> QED BY <2>2, <2>3, FS_UNION
  <2> QED BY <2>4, FS_Product DEF AreLists
<1>3. \A f \in D : Ahead(lists, f) \in SUBSET all
  BY DEF Ahead
<1> HIDE DEF all
<1>4. A \subseteq FiniteSubsetsOf(all) /\ A # {}
  <2>1. \A f \in D : Ahead(lists, f) \in FiniteSubsetsOf(all)
    BY <1>2, <1>3, FS_Subset DEF FiniteSubsetsOf
  <2> HIDE DEF D
  <2> QED BY <1>1, <2>1
<1>5. PICK x \in A : \A y \in A : <<y, x>> \notin StrictSubsetOrdering(all)
  <2> HIDE DEF A
  <2> QED BY <1>4, FS_StrictSubsetOrderingWellFounded, WFMin
<1>6. PICK f \in D : x = Ahead(lists, f)
  OBVIOUS
<1>7. f \in Fronts(lists) /\ g[f] # h[f]
  BY <1>6
<1> DEFINE m == MovedOn(lists, f)
<1>8. ~IsLast(lists, f) /\ g[m] # h[m]
  <2>1. g[f] = IF IsLast(lists, f) THEN SpanAt(lists, f) ELSE Lesser(SpanAt(lists, f), g[m])
    BY <1>7 DEF Narrows
  <2>2. h[f] = IF IsLast(lists, f) THEN SpanAt(lists, f) ELSE Lesser(SpanAt(lists, f), h[m])
    BY <1>7 DEF Narrows
  <2> HIDE DEF m
  <2> QED BY <1>7, <2>1, <2>2
<1>9. m \in D
  BY <1>7, <1>8, MovedOnIs
<1>10. Ahead(lists, m) \subseteq x /\ Ahead(lists, m) # x
  BY <1>6, <1>7, <1>8, AheadShrinks
<1>11. Ahead(lists, m) \in A /\ Ahead(lists, m) \in SUBSET all /\ x \in SUBSET all
  <2> HIDE DEF D
  <2> QED BY <1>3, <1>6, <1>9
<1>12. <<Ahead(lists, m), x>> \in StrictSubsetOrdering(all)
  BY <1>10, <1>11 DEF StrictSubsetOrdering
<1> QED BY <1>5, <1>11, <1>12

LEMMA WindowNarrows ==
    ASSUME NEW lists, AreLists(lists)
    PROVE  MinSpan(lists) = Narrowest(lists, [t \in DOMAIN lists |-> 1])
<1> DEFINE first == [t \in DOMAIN lists |-> 1]
           n == [f \in Fronts(lists) |-> Narrowest(lists, f)]
           g == CHOOSE x : Narrows(x, lists)
<1>1. Narrows(n, lists)
  <2>1. ASSUME NEW f \in Fronts(lists)
        PROVE  n[f] = IF IsLast(lists, f) THEN SpanAt(lists, f) ELSE Lesser(SpanAt(lists, f), n[MovedOn(lists, f)])
    <3>1. CASE IsLast(lists, f)
      BY <3>1, NarrowestMoves
    <3>2. CASE ~IsLast(lists, f)
      <4>1. MovedOn(lists, f) \in Fronts(lists)
        BY <3>2, MovedOnIs
      <4> QED BY <3>2, <4>1, NarrowestMoves
    <3> QED BY <3>1, <3>2
  <2>2. n = [f \in Fronts(lists) |-> n[f]]
    OBVIOUS
  <2> HIDE DEF n
  <2>3. n = [f \in Fronts(lists) |-> IF IsLast(lists, f) THEN SpanAt(lists, f)
                                     ELSE Lesser(SpanAt(lists, f), n[MovedOn(lists, f)])]
    BY <2>1, <2>2
  <2> QED BY <2>3 DEF Narrows
<1>2. Narrows(g, lists)
  BY <1>1
<1>3. first \in Fronts(lists)
  BY DEF Fronts, AreLists
<1>4. CASE Cardinality(DOMAIN lists) = 1
  <2>1. PICK t : DOMAIN lists = {t}
    BY <1>4, FS_Singleton DEF AreLists
  <2>2. ASSUME NEW f \in Fronts(lists) PROVE SpanAt(lists, f) = 1
    <3> DEFINE low == Lowest(lists, f)
               most == Max(Heads(lists, f))
    <3>1. /\ low \in DOMAIN lists /\ most \in Nat /\ lists[low][f[low]] \in Nat
          /\ SpanAt(lists, f) = most - lists[low][f[low]] + 1
      BY HeadsAre
    <3>2. PICK u \in DOMAIN lists : lists[u][f[u]] = most
      BY HeadsAre
    <3>3. u = low
      BY <2>1, <3>1
    <3> HIDE DEF low, most
    <3> QED BY <3>1, <3>2, <3>3
  <2> HIDE DEF first
  <2>3. PICK h \in Onwards(lists, first) : Narrowest(lists, first) = SpanAt(lists, h)
    BY <1>3, NarrowestIs
  <2>4. Narrowest(lists, first) = 1
    BY <2>2, <2>3 DEF Onwards
  <2> QED BY <1>4, <2>4, MinSpanIs DEF first
<1>5. CASE Cardinality(DOMAIN lists) # 1
  <2>1. MinSpan(lists) = g[first]
    BY <1>5, MinSpanIs
  <2>2. g[first] = n[first]
    <3> HIDE DEF g, n, first
    <3> QED BY <1>1, <1>2, <1>3, OneNarrowing
  <2> QED BY <1>3, <2>1, <2>2
<1> QED BY <1>4, <1>5

\* Of the places a window stands at, the least and the greatest.
LEMMA SpanOfWindow ==
    ASSUME NEW lists, AreLists(lists), NEW f \in Fronts(lists),
           NEW c, DOMAIN c = DOMAIN lists, \A t \in DOMAIN lists : c[t] = lists[t][f[t]]
    PROVE  Max(Range(c)) - Min(Range(c)) + 1 = SpanAt(lists, f)
<1> DEFINE low == Lowest(lists, f)
           S == Heads(lists, f)
           most == Max(S)
<1>1. Range(c) = S
  BY DEF Heads, Range
<1>2. /\ low \in DOMAIN lists /\ most \in Nat
      /\ \A t \in DOMAIN lists : lists[t][f[t]] \in Nat /\ lists[low][f[low]] <= lists[t][f[t]]
      /\ SpanAt(lists, f) = most - lists[low][f[low]] + 1
  BY HeadsAre
<1>3. S \in SUBSET Nat /\ lists[low][f[low]] \in S /\ \A x \in S : lists[low][f[low]] <= x
  BY <1>2 DEF Heads
<1>4. Min(S) \in S /\ \A x \in S : Min(S) <= x
  <2> HIDE DEF S, low
  <2> QED BY <1>3, LeastOfNaturals
<1>5. Min(S) = lists[low][f[low]]
  <2> HIDE DEF S, low
  <2>1. Min(S) \in Nat /\ lists[low][f[low]] \in Nat
    BY <1>3, <1>4
  <2>2. Min(S) <= lists[low][f[low]] /\ lists[low][f[low]] <= Min(S)
    BY <1>3, <1>4
  <2> QED BY <2>1, <2>2
<1> QED BY <1>1, <1>2, <1>5

\* Lists of the places of some terms.
ArePlaces(places) ==
    /\ IsFiniteSet(DOMAIN places) /\ DOMAIN places # {}
    /\ \A t \in DOMAIN places : places[t] \in SUBSET Nat /\ IsFiniteSet(places[t]) /\ places[t] # {}

ListsOf(places) == [t \in DOMAIN places |-> Ascending(places[t])]

LEMMA PlacesAreListed ==
    ASSUME NEW places, ArePlaces(places)
    PROVE  /\ AreLists(ListsOf(places)) /\ DOMAIN ListsOf(places) = DOMAIN places
           /\ \A t \in DOMAIN places : IsAscending(ListsOf(places)[t], places[t])
<1> DEFINE lists == ListsOf(places)
<1>1. DOMAIN lists = DOMAIN places /\ \A t \in DOMAIN places : lists[t] = Ascending(places[t])
  BY DEF ListsOf
<1>2. ASSUME NEW t \in DOMAIN places PROVE IsAscending(lists[t], places[t])
  BY <1>1, AscendingIs DEF ArePlaces
<1> HIDE DEF lists
<1>3. ASSUME NEW t \in DOMAIN places
      PROVE  /\ Len(lists[t]) \in Nat \ {0} /\ DOMAIN lists[t] = 1 .. Len(lists[t])
             /\ \A i \in 1 .. Len(lists[t]) : lists[t][i] \in Nat
             /\ \A i, j \in 1 .. Len(lists[t]) : i < j => lists[t][i] < lists[t][j]
  <2>1. places[t] \in SUBSET Nat /\ places[t] # {}
    BY DEF ArePlaces
  <2>2. IsAscending(lists[t], places[t])
    BY <1>2
  <2>3. Len(lists[t]) # 0
    <3>1. \E i \in 1 .. Len(lists[t]) : TRUE
      BY <2>1, <2>2 DEF IsAscending
    <3> QED BY <3>1
  <2> QED BY <2>1, <2>2, <2>3 DEF IsAscending
<1>4. AreLists(lists)
  BY <1>1, <1>3 DEF AreLists, ArePlaces
<1> QED BY <1>1, <1>2, <1>4 DEF lists

LEMMA WindowSpans ==
    ASSUME NEW places, ArePlaces(places)
    PROVE  LET lists == ListsOf(places)
               first == [t \in DOMAIN lists |-> 1]
           IN  /\ first \in Fronts(lists)
               /\ {Max(Range(c)) - Min(Range(c)) + 1 : c \in Windows(places)}
                     = {SpanAt(lists, h) : h \in Onwards(lists, first)}
<1> DEFINE lists == ListsOf(places)
           T == DOMAIN places
           first == [t \in DOMAIN lists |-> 1]
           S == {SpanAt(lists, h) : h \in Onwards(lists, first)}
           W == {Max(Range(c)) - Min(Range(c)) + 1 : c \in Windows(places)}
<1>1. AreLists(lists) /\ DOMAIN lists = T /\ \A t \in T : IsAscending(lists[t], places[t])
  BY PlacesAreListed
<1> HIDE DEF lists
<1>3. first \in Fronts(lists)
  BY <1>1 DEF Fronts, AreLists
<1>4. ASSUME NEW h \in Onwards(lists, first) PROVE SpanAt(lists, h) \in W
  <2> DEFINE c == [t \in T |-> lists[t][h[t]]]
  <2>1. h \in Fronts(lists)
    BY DEF Onwards
  <2>2. \A t \in T : c[t] \in places[t]
    BY <1>1, <2>1 DEF Fronts, IsAscending
  <2>3. c \in [T -> UNION Range(places)]
    <3>1. \A t \in T : places[t] \in Range(places)
      BY DEF Range
    <3> QED BY <2>2, <3>1
  <2>4. c \in Windows(places)
    BY <2>2, <2>3 DEF Windows
  <2>5. Max(Range(c)) - Min(Range(c)) + 1 = SpanAt(lists, h)
    BY <1>1, <2>1, SpanOfWindow
  <2> HIDE DEF c
  <2> QED BY <2>4, <2>5
<1>5. ASSUME NEW c \in Windows(places) PROVE Max(Range(c)) - Min(Range(c)) + 1 \in S
  <2>1. DOMAIN c = T /\ \A t \in T : c[t] \in places[t]
    BY DEF Windows
  <2> DEFINE h == [t \in T |-> CHOOSE i \in 1 .. Len(lists[t]) : lists[t][i] = c[t]]
  <2>2. \A t \in T : h[t] \in 1 .. Len(lists[t]) /\ lists[t][h[t]] = c[t]
    BY <1>1, <2>1 DEF IsAscending
  <2>3. \A t \in T : h[t] \in Nat /\ 1 <= h[t]
    <3>1. \A t \in T : Len(lists[t]) \in Nat
      BY <1>1 DEF IsAscending
    <3> HIDE DEF h
    <3> QED BY <2>2, <3>1
  <2>4. h \in Fronts(lists)
    <3>1. h \in [T -> Nat]
      BY <2>3
    <3> HIDE DEF h
    <3> QED BY <1>1, <2>2, <3>1 DEF Fronts, AreLists
  <2> HIDE DEF h
  <2>5. h \in Onwards(lists, first)
    BY <1>1, <2>3, <2>4 DEF Onwards
  <2>6. Max(Range(c)) - Min(Range(c)) + 1 = SpanAt(lists, h)
    BY <1>1, <2>1, <2>2, <2>4, SpanOfWindow
  <2> QED BY <2>5, <2>6
<1>6. S = W
  <2>1. \A x \in S : x \in W
    BY <1>4
  <2>2. \A x \in W : x \in S
    <3> HIDE DEF S
    <3> QED BY <1>5
  <2> HIDE DEF S, W
  <2> QED BY <2>1, <2>2
<1> QED BY <1>3, <1>6 DEF lists

LEMMA PlacesSpan ==
    ASSUME NEW places, ArePlaces(places)
    PROVE  LET lists == ListsOf(places)
               first == [t \in DOMAIN lists |-> 1]
           IN  /\ AreLists(lists)
               /\ MinSpan([t \in DOMAIN places |-> Ascending(places[t])]) = Narrowest(lists, first)
<1> DEFINE lists == ListsOf(places)
<1>1. AreLists(lists)
  BY PlacesAreListed
<1>2. lists = [t \in DOMAIN places |-> Ascending(places[t])]
  BY DEF ListsOf
<1>3. MinSpan(lists) = Narrowest(lists, [t \in DOMAIN lists |-> 1])
  <2> HIDE DEF lists
  <2> QED BY <1>1, WindowNarrows
<1> QED BY <1>1, <1>2, <1>3

\* However many terms there are and wherever they stand, the window that moves on
\* its lowest end finds the least span (search/phrase.py).
THEOREM SpanIsLeastForAll == ASSUME NEW places, ArePlaces(places) PROVE SpanIsLeast(places)
<1> DEFINE lists == ListsOf(places)
           first == [t \in DOMAIN lists |-> 1]
<1>1. MinSpan([t \in DOMAIN places |-> Ascending(places[t])]) = Narrowest(lists, first)
  BY PlacesSpan
<1>2. {Max(Range(c)) - Min(Range(c)) + 1 : c \in Windows(places)} = {SpanAt(lists, h) : h \in Onwards(lists, first)}
  BY WindowSpans
<1> HIDE DEF lists, first
<1> QED BY <1>1, <1>2 DEF SpanIsLeast, Narrowest

LEMMA SpanOfPlaces ==
    ASSUME NEW places, ArePlaces(places)
    PROVE  LET span == MinSpan([t \in DOMAIN places |-> Ascending(places[t])])
           IN  /\ span \in Nat \ {0}
               /\ \A c \in Windows(places) : span <= Max(Range(c)) - Min(Range(c)) + 1
<1> DEFINE lists == ListsOf(places)
           first == [t \in DOMAIN lists |-> 1]
           span == MinSpan([t \in DOMAIN places |-> Ascending(places[t])])
           W == {Max(Range(c)) - Min(Range(c)) + 1 : c \in Windows(places)}
<1>1. span = Narrowest(lists, first) /\ AreLists(lists)
  BY PlacesSpan
<1>2. W = {SpanAt(lists, h) : h \in Onwards(lists, first)} /\ first \in Fronts(lists)
  BY WindowSpans
<1> HIDE DEF lists, first, span
<1>3. span \in Nat \ {0} /\ \A h \in Onwards(lists, first) : span <= SpanAt(lists, h)
  BY <1>1, <1>2, NarrowestIs
<1>4. \A x \in W : span <= x
  <2> HIDE DEF W
  <2> QED BY <1>2, <1>3
<1>5. \A c \in Windows(places) : span <= Max(Range(c)) - Min(Range(c)) + 1
  BY <1>4
<1> QED BY <1>3, <1>5 DEF span

LEMMA SpansAreAlwaysLeast == SpansAreLeast
<1>1. ASSUME NEW n \in 1 .. 3, NEW places \in [1 .. n -> (SUBSET (0 .. 3)) \ {{}}] PROVE SpanIsLeast(places)
  <2>1. IsFiniteSet(1 .. n) /\ 1 .. n # {} /\ IsFiniteSet(0 .. 3) /\ DOMAIN places = 1 .. n
    <3>1. 1 \in Int /\ n \in Int /\ 0 \in Int /\ 3 \in Int /\ 1 \in 1 .. n
      OBVIOUS
    <3>2. IsFiniteSet(1 .. n)
      BY <3>1, FS_Interval
    <3>3. IsFiniteSet(0 .. 3)
      BY <3>1, FS_Interval
    <3> QED BY <3>1, <3>2, <3>3
  <2>2. \A t \in 1 .. n : places[t] \in SUBSET (0 .. 3) /\ places[t] # {}
    OBVIOUS
  <2>3. \A t \in 1 .. n : places[t] \in SUBSET Nat /\ IsFiniteSet(places[t])
    <3>1. 0 .. 3 \subseteq Nat
      OBVIOUS
    <3> QED BY <2>1, <2>2, <3>1, FS_Subset
  <2>4. ArePlaces(places)
    BY <2>1, <2>2, <2>3 DEF ArePlaces
  <2> QED BY <2>4, SpanIsLeastForAll
<1> QED BY <1>1 DEF SpansAreLeast

LEMMA QueryHasPlaces ==
    ASSUME NEW D, NEW body \in Seq(D), NEW query \in Seq(D), Len(query) >= 2, Range(query) \subseteq Range(body)
    PROVE  ArePlaces([w \in Range(query) |-> {i \in DOMAIN body : body[i] = w}])
<1> DEFINE places == [w \in Range(query) |-> {i \in DOMAIN body : body[i] = w}]
           n == Len(body)
           m == Len(query)
<1>1. n \in Nat /\ m \in Nat /\ DOMAIN body = 1 .. n /\ DOMAIN query = 1 .. m /\ m >= 2
  OBVIOUS
<1> HIDE DEF n, m
<1>2. IsFiniteSet(1 .. n) /\ IsFiniteSet(1 .. m)
  <2>1. 1 \in Int /\ n \in Int /\ m \in Int
    BY <1>1
  <2> QED BY <2>1, FS_Interval
<1>3. IsFiniteSet(Range(query)) /\ Range(query) # {}
  <2>1. query \in Surjection(1 .. m, Range(query))
    <3>1. query \in [1 .. m -> Range(query)]
      BY <1>1 DEF Range
    <3>2. \A x \in Range(query) : \E i \in 1 .. m : query[i] = x
      BY <1>1 DEF Range
    <3> QED BY <3>1, <3>2 DEF Surjection
  <2>2. query[1] \in Range(query)
    BY <1>1 DEF Range
  <2> QED BY <1>2, <2>1, <2>2, FS_Surjection
<1>4. ASSUME NEW w \in Range(query)
      PROVE  places[w] \in SUBSET Nat /\ IsFiniteSet(places[w]) /\ places[w] # {}
  <2>1. places[w] \in SUBSET (1 .. n)
    BY <1>1
  <2>2. IsFiniteSet(places[w])
    <3> HIDE DEF places
    <3> QED BY <1>2, <2>1, FS_Subset
  <2>3. PICK i \in 1 .. n : body[i] = w
    BY <1>1 DEF Range
  <2>4. i \in places[w]
    BY <1>1, <2>3
  <2> HIDE DEF places
  <2> QED BY <1>1, <2>1, <2>2, <2>4
<1> QED BY <1>3, <1>4 DEF ArePlaces

\* A query that a text contains as it stands has a window of its length.
LEMMA QueryHasAWindow ==
    ASSUME NEW D, NEW body \in Seq(D), NEW query \in Seq(D), Len(query) >= 2, Range(query) \subseteq Range(body),
           NEW i \in 1 .. Len(body) - Len(query) + 1, SubSeq(body, i, i + Len(query) - 1) = query
    PROVE  MinSpan([w \in Range(query) |-> Ascending({j \in DOMAIN body : body[j] = w})]) <= Len(query)
<1> DEFINE places == [w \in Range(query) |-> {j \in DOMAIN body : body[j] = w}]
           n == Len(body)
           m == Len(query)
           span == MinSpan([w \in Range(query) |-> Ascending({j \in DOMAIN body : body[j] = w})])
           span2 == MinSpan([t \in DOMAIN places |-> Ascending(places[t])])
           c == [w \in Range(query) |-> i + (CHOOSE j \in 1 .. m : query[j] = w) - 1]
<1>1. /\ n \in Nat /\ m \in Nat /\ DOMAIN body = 1 .. n /\ DOMAIN query = 1 .. m /\ m >= 2
      /\ i \in Nat /\ i >= 1 /\ i + m - 1 <= n
  OBVIOUS
<1>2. \A j \in 1 .. m : query[j] = body[i + j - 1]
  OBVIOUS
<1>3. span = span2
  <2>1. [w \in Range(query) |-> Ascending({j \in DOMAIN body : body[j] = w})] = [t \in DOMAIN places |-> Ascending(places[t])]
    OBVIOUS
  <2> QED BY <2>1
<1>4. ArePlaces(places)
  BY QueryHasPlaces
<1> HIDE DEF n, m, span
<1>5. ASSUME NEW w \in Range(query) PROVE c[w] \in places[w] /\ c[w] \in i .. i + m - 1
  <2> DEFINE j == CHOOSE k \in 1 .. m : query[k] = w
  <2>1. \E k \in 1 .. m : query[k] = w
    BY <1>1 DEF Range
  <2>2. j \in 1 .. m /\ query[j] = w
    BY <2>1
  <2>3. c[w] = i + j - 1
    OBVIOUS
  <2> HIDE DEF j, c
  <2>4. i + j - 1 \in 1 .. n /\ i + j - 1 \in i .. i + m - 1
    BY <1>1, <2>2
  <2>5. body[i + j - 1] = w
    BY <1>2, <2>2
  <2> QED BY <1>1, <2>3, <2>4, <2>5
<1>6. DOMAIN c = Range(query) /\ DOMAIN places = Range(query)
  OBVIOUS
<1>7. c \in Windows(places)
  <2>1. \A w \in Range(query) : places[w] \in Range(places)
    BY <1>6 DEF Range
  <2>2. c \in [DOMAIN places -> UNION Range(places)]
    <3>1. \A w \in Range(query) : c[w] \in UNION Range(places)
      BY <1>5, <2>1
    <3> HIDE DEF places
    <3> QED BY <1>6, <3>1
  <2> HIDE DEF c, places
  <2> QED BY <1>5, <1>6, <2>2 DEF Windows
<1>8. span <= Max(Range(c)) - Min(Range(c)) + 1 /\ span \in Nat
  <2> HIDE DEF c, places
  <2>1. span2 \in Nat \ {0} /\ \A d \in Windows(places) : span2 <= Max(Range(d)) - Min(Range(d)) + 1
    BY <1>4, SpanOfPlaces
  <2> HIDE DEF span2
  <2> QED BY <1>3, <1>7, <2>1
<1> HIDE DEF places, c, span2
<1>9. \A x \in Range(c) : x \in i .. i + m - 1
  BY <1>5, <1>6 DEF Range
<1>10. Range(c) \in SUBSET Nat /\ Range(c) # {} /\ IsFiniteSet(Range(c))
  <2>1. i .. i + m - 1 \subseteq Nat /\ Range(c) \in SUBSET (i .. i + m - 1)
    BY <1>1, <1>9
  <2>2. i \in Int /\ i + m - 1 \in Int
    BY <1>1
  <2>3. IsFiniteSet(i .. i + m - 1)
    BY <2>2, FS_Interval
  <2>4. c[query[1]] \in Range(c)
    <3>1. query[1] \in DOMAIN c
      <4>1. 1 \in DOMAIN query
        BY <1>1
      <4> QED BY <1>6, <4>1 DEF Range
    <3> QED BY <3>1 DEF Range
  <2> QED BY <2>1, <2>3, <2>4, FS_Subset
<1>11. Max(Range(c)) \in i .. i + m - 1 /\ Min(Range(c)) \in i .. i + m - 1
  BY <1>9, <1>10, GreatestOfNaturals, LeastOfNaturals
<1>12. span <= m
  <2> DEFINE a == Max(Range(c))
             b == Min(Range(c))
  <2>1. a \in i .. i + m - 1 /\ b \in i .. i + m - 1 /\ span <= a - b + 1
    BY <1>8, <1>11
  <2> HIDE DEF a, b
  <2> QED BY <1>1, <1>8, <2>1
<1> QED BY <1>12 DEF span, m

\* Whatever a document says, the bonus takes no score away from it, and it is
\* whole if the document contains the query as it stands (search/phrase.py).
THEOREM PhraseIsRewardedForAll ==
    ASSUME NEW D, NEW body \in Seq(D), NEW query \in Seq(D), Len(query) >= 2, IsInjective(query)
    PROVE  PhraseIsRewarded(body, query)
<1> DEFINE m == Len(query)
           places == [w \in Range(query) |-> {i \in DOMAIN body : body[i] = w}]
           span == MinSpan([w \in Range(query) |-> Ascending({i \in DOMAIN body : body[i] = w})])
           span2 == MinSpan([t \in DOMAIN places |-> Ascending(places[t])])
           b == Bonus(body, query)
<1>1. m \in Nat /\ m >= 2
  OBVIOUS
<1>2. b = IF m < 2 \/ ~IsInjective(query) \/ ~(Range(query) \subseteq Range(body)) THEN 4 * m
          ELSE IF span <= m THEN 6 * m ELSE IF span >= 3 * m THEN 4 * m ELSE 7 * m - span
  BY DEF Bonus
<1>3. span = span2
  <2>1. [w \in Range(query) |-> Ascending({j \in DOMAIN body : body[j] = w})] = [t \in DOMAIN places |-> Ascending(places[t])]
    OBVIOUS
  <2> QED BY <2>1
<1>4. CASE ~(Range(query) \subseteq Range(body))
  <2>1. b = 4 * m
    BY <1>2, <1>4
  <2>2. ASSUME NEW i \in 1 .. Len(body) - m + 1, SubSeq(body, i, i + m - 1) = query PROVE FALSE
    <3>1. \A j \in 1 .. m : query[j] = body[i + j - 1] /\ i + j - 1 \in DOMAIN body
      BY <2>2
    <3>2. Range(query) \subseteq Range(body)
      <4>1. ASSUME NEW w \in Range(query) PROVE w \in Range(body)
        <5>1. PICK j \in DOMAIN query : w = query[j]
          BY DEF Range
        <5>2. j \in 1 .. m
          OBVIOUS
        <5> QED BY <3>1, <5>1, <5>2 DEF Range
      <4> QED BY <4>1
    <3> QED BY <1>4, <3>2
  <2> HIDE DEF m, b
  <2>3. b \in 4 * m .. 6 * m
    BY <1>1, <2>1
  <2> QED BY <2>2, <2>3 DEF PhraseIsRewarded, m, b
<1>5. CASE Range(query) \subseteq Range(body)
  <2>1. ArePlaces(places)
    BY <1>5, QueryHasPlaces
  <2>2. span \in Nat
    <3> HIDE DEF places, span
    <3>1. span2 \in Nat \ {0}
      BY <2>1, SpanOfPlaces
    <3> QED BY <1>3, <3>1
  <2>3. ASSUME NEW i \in 1 .. Len(body) - m + 1, SubSeq(body, i, i + m - 1) = query PROVE span <= m
    BY <1>5, <2>3, QueryHasAWindow
  <2>4. b = IF span <= m THEN 6 * m ELSE IF span >= 3 * m THEN 4 * m ELSE 7 * m - span
    BY <1>1, <1>2, <1>5
  <2> HIDE DEF span, m, b
  <2>5. b \in 4 * m .. 6 * m
    BY <1>1, <2>2, <2>4
  <2>6. ASSUME NEW i \in 1 .. Len(body) - m + 1, SubSeq(body, i, i + m - 1) = query PROVE b = 6 * m
    BY <2>3, <2>4, <2>6
  <2> QED BY <2>5, <2>6 DEF PhraseIsRewarded, m, b
<1> QED BY <1>4, <1>5

LEMMA PhrasesAreAlwaysRewarded == PhrasesAreRewarded
<1>1. ASSUME NEW n \in 1 .. 5, NEW body \in [1 .. n -> 1 .. 3], NEW m \in 2 .. 3,
             NEW query \in {q \in [1 .. m -> 1 .. 3] : IsInjective(q)}
      PROVE  PhraseIsRewarded(body, query)
  <2>1. n \in Nat /\ m \in Nat /\ m >= 2 /\ query \in [1 .. m -> 1 .. 3] /\ IsInjective(query)
    OBVIOUS
  <2>2. body \in Seq(1 .. 3) /\ query \in Seq(1 .. 3) /\ Len(query) = m
    BY <2>1
  <2> QED BY <2>1, <2>2, PhraseIsRewardedForAll
<1> QED BY <1>1 DEF PhrasesAreRewarded

-----------------------------------------------------------------------------
\* Highlights.
\* What of a text is among some characters, after each of its characters.
IsKept(t, text, chars, n, V) ==
    /\ t \in [0 .. n -> Seq(V)] /\ t[0] = << >> /\ Among(text, chars) = t[n]
    /\ \A k \in 1 .. n : t[k] = IF text[k] \in chars THEN Append(t[k - 1], text[k]) ELSE t[k - 1]

LEMMA AmongFolds ==
    ASSUME NEW V, NEW chars, NEW n \in Nat, NEW text \in [1 .. n -> V]
    PROVE  \E t : IsKept(t, text, chars, n, V)
<1> DEFINE B == Seq(V)
           Step(b, i) == IF text[i] \in chars THEN Append(b, text[i]) ELSE b
           H == [x \in B \X (1 .. n) |-> Step(x[1], x[2])]
           Is(f) == f = [s \in SUBSET (1 .. n) |-> IF s = {} THEN << >> ELSE Step(f[s \ {Max(s)}], Max(s))]
           f == CHOOSE h : Is(h)
<1>1. << >> \in B
  OBVIOUS
<1>2. ASSUME NEW b \in B, NEW i \in 1 .. n PROVE Step(b, i) \in B
  OBVIOUS
<1>3. H \in [B \X (1 .. n) -> B] /\ \A b \in B, i \in 1 .. n : H[<<b, i>>] = Step(b, i)
  <2> HIDE DEF B, Step
  <2>1. \A x \in B \X (1 .. n) : Step(x[1], x[2]) \in B
    BY <1>2
  <2> QED BY <2>1
<1>4. \E g : Is(g)
  <2> HIDE DEF H, B, Step
  <2>1. PICK g : IsFold(g, n, B, << >>, H)
    BY <1>1, <1>3, FoldExists
  <2>2. ASSUME NEW s \in SUBSET (1 .. n), s # {}
        PROVE  H[<<g[s \ {Max(s)}], Max(s)>>] = Step(g[s \ {Max(s)}], Max(s))
    <3>1. Max(s) \in 1 .. n
      BY <2>2, MaxOfSome
    <3>2. g[s \ {Max(s)}] \in B
      BY <2>1 DEF IsFold
    <3> QED BY <1>3, <3>1, <3>2
  <2>3. g = [s \in SUBSET (1 .. n) |-> g[s]]
    BY <2>1 DEF IsFold
  <2>4. [s \in SUBSET (1 .. n) |-> g[s]]
           = [s \in SUBSET (1 .. n) |-> IF s = {} THEN << >> ELSE Step(g[s \ {Max(s)}], Max(s))]
    BY <2>1, <2>2 DEF IsFold
  <2> QED BY <2>3, <2>4
<1>5. Is(f)
  <2> HIDE DEF Is
  <2> QED BY <1>4
<1>6. Among(text, chars) = f[1 .. n]
  <2>1. DOMAIN text = 1 .. n
    OBVIOUS
  <2> QED BY <2>1 DEF Among, FoldLeft, MapThenFoldSet
<1> DEFINE t == [k \in 0 .. n |-> f[1 .. k]]
<1>7. t[0] = << >>
  <2>1. 1 .. 0 = {} /\ {} \in SUBSET (1 .. n)
    OBVIOUS
  <2>2. f[{}] = << >>
    <3> HIDE DEF f
    <3> QED BY <1>5
  <2> HIDE DEF f
  <2> QED BY <2>1, <2>2
<1>8. ASSUME NEW k \in 1 .. n PROVE t[k] = Step(t[k - 1], k)
  <2>1. Max(1 .. k) = k /\ (1 .. k) \ {k} = 1 .. (k - 1)
    BY MaxOfAll
  <2>2. 1 .. k \in SUBSET (1 .. n) /\ 1 .. k # {}
    BY BeginningIsPart
  <2> HIDE DEF f, Step
  <2>3. f[1 .. k] = Step(f[(1 .. k) \ {Max(1 .. k)}], Max(1 .. k))
    BY <1>5, <2>2
  <2>4. t[k] = f[1 .. k] /\ t[k - 1] = f[1 .. (k - 1)]
    OBVIOUS
  <2> QED BY <2>1, <2>3, <2>4
<1>9. t[n] = f[1 .. n] /\ t = [k \in 0 .. n |-> t[k]]
  OBVIOUS
<1> HIDE DEF t, f
<1>10. t \in [0 .. n -> B]
  <2> DEFINE S == {k \in 0 .. n : t[k] \in B}
  <2> HIDE DEF B, Step
  <2>1. 0 \in S
    BY <1>1, <1>7
  <2>2. ASSUME NEW k \in 0 .. n - 1, k \in S PROVE k + 1 \in S
    <3>1. k + 1 \in 1 .. n /\ (k + 1) - 1 = k /\ k + 1 \in 0 .. n
      OBVIOUS
    <3>2. t[k + 1] = Step(t[k], k + 1)
      BY <1>8, <3>1
    <3> QED BY <1>2, <2>2, <3>1, <3>2
  <2> HIDE DEF S
  <2>3. 0 .. n \subseteq S
    BY <2>1, <2>2, UpTo
  <2>4. \A k \in 0 .. n : t[k] \in B
    BY <2>3 DEF S
  <2> QED BY <1>9, <2>4
<1>11. IsKept(t, text, chars, n, V)
  BY <1>6, <1>7, <1>8, <1>9, <1>10 DEF IsKept
<1> QED BY <1>11

LEMMA AmongNothing == ASSUME NEW chars PROVE Among(<< >>, chars) = << >>
<1>1. << >> \in [1 .. 0 -> {}]
  <2>1. << >> \in Seq({}) /\ Len(<< >>) = 0
    OBVIOUS
  <2> QED BY <2>1, LenProperties
<1>2. PICK t : IsKept(t, << >>, chars, 0, {})
  BY <1>1, AmongFolds
<1> QED BY <1>2 DEF IsKept

LEMMA AmongAppended ==
    ASSUME NEW V, NEW chars, NEW text \in Seq(V), NEW c \in V
    PROVE  /\ Among(text, chars) \in Seq(V)
           /\ Among(Append(text, c), chars)
                 = IF c \in chars THEN Append(Among(text, chars), c) ELSE Among(text, chars)
<1> DEFINE n == Len(text)
           long == Append(text, c)
<1>1. n \in Nat /\ text \in [1 .. n -> V] /\ n + 1 \in Nat
  OBVIOUS
<1>2. long \in [1 .. n + 1 -> V] /\ long[n + 1] = c /\ \A i \in 1 .. n : long[i] = text[i]
  <2>1. /\ long \in Seq(V) /\ Len(long) = n + 1 /\ long[n + 1] = c
        /\ \A i \in 1 .. n : long[i] = text[i]
    BY AppendProperties
  <2>2. long \in [1 .. n + 1 -> V]
    BY <2>1, LenProperties
  <2> QED BY <2>1, <2>2
<1> HIDE DEF n, long
<1>3. PICK t : IsKept(t, text, chars, n, V)
  BY <1>1, AmongFolds
<1>4. PICK u : IsKept(u, long, chars, n + 1, V)
  BY <1>1, <1>2, AmongFolds
<1> DEFINE S == {k \in 0 .. n : u[k] = t[k]}
<1>5. 0 \in S
  BY <1>1, <1>3, <1>4 DEF IsKept
<1>6. ASSUME NEW k \in 0 .. n - 1, k \in S PROVE k + 1 \in S
  <2>1. k + 1 \in 1 .. n /\ k + 1 \in 1 .. n + 1 /\ (k + 1) - 1 = k /\ k + 1 \in 0 .. n
    BY <1>1
  <2>2. t[k + 1] = IF text[k + 1] \in chars THEN Append(t[k], text[k + 1]) ELSE t[k]
    BY <1>3, <2>1 DEF IsKept
  <2>3. u[k + 1] = IF long[k + 1] \in chars THEN Append(u[k], long[k + 1]) ELSE u[k]
    BY <1>4, <2>1 DEF IsKept
  <2> QED BY <1>2, <1>6, <2>1, <2>2, <2>3
<1>7. u[n] = t[n]
  <2> HIDE DEF S
  <2>1. 0 .. n \subseteq S
    BY <1>1, <1>5, <1>6, UpTo
  <2>2. n \in S
    BY <1>1, <2>1
  <2> QED BY <2>2 DEF S
<1>8. u[n + 1] = IF c \in chars THEN Append(u[n], c) ELSE u[n]
  <2>1. n + 1 \in 1 .. n + 1 /\ (n + 1) - 1 = n
    BY <1>1
  <2>2. u[n + 1] = IF long[n + 1] \in chars THEN Append(u[(n + 1) - 1], long[n + 1]) ELSE u[(n + 1) - 1]
    BY <1>4, <2>1 DEF IsKept
  <2> QED BY <1>2, <2>1, <2>2
<1>9. t[n] = Among(text, chars) /\ u[n + 1] = Among(long, chars) /\ t[n] \in Seq(V)
  BY <1>1, <1>3, <1>4 DEF IsKept
<1> QED BY <1>7, <1>8, <1>9 DEF long

LEMMA BeginningGrows ==
    ASSUME NEW V, NEW s \in Seq(V), NEW k \in 0 .. Len(s) - 1
    PROVE  /\ SubSeq(s, 1, k) \in Seq(V) /\ k + 1 \in 1 .. Len(s) /\ s[k + 1] \in V
           /\ SubSeq(s, 1, k + 1) = Append(SubSeq(s, 1, k), s[k + 1])
<1> DEFINE a == SubSeq(s, 1, k)
           b == SubSeq(s, 1, k + 1)
<1>1. k + 1 \in 1 .. Len(s) /\ (k + 1) - 1 = k /\ 1 \in 1 .. Len(s) /\ k + 1 \in 1 .. Len(s) /\ k \in Nat
  OBVIOUS
<1>2. b = SubSeq(s, 1, (k + 1) - 1) \o <<s[k + 1]>>
  BY <1>1, SubSeqRecursiveSecond
<1>3. a \in Seq(V) /\ s[k + 1] \in V
  OBVIOUS
<1>4. Append(a, s[k + 1]) = a \o <<s[k + 1]>>
  <2> HIDE DEF a
  <2> QED BY <1>3, AppendIsConcat
<1>5. SubSeq(s, 1, (k + 1) - 1) = a
  BY <1>1
<1> HIDE DEF a, b
<1> QED BY <1>1, <1>2, <1>3, <1>4, <1>5 DEF a, b

LEMMA AppendToBoth ==
    ASSUME NEW V, NEW s \in Seq(V), NEW t \in Seq(V), NEW c \in V, NEW u, u = Append(t, c)
    PROVE  s \o u = Append(s \o t, c)
  OBVIOUS

LEMMA AmongBoth ==
    ASSUME NEW V, NEW chars, NEW s \in Seq(V), NEW t \in Seq(V)
    PROVE  /\ Among(s, chars) \in Seq(V) /\ Among(t, chars) \in Seq(V)
           /\ Among(s \o t, chars) = Among(s, chars) \o Among(t, chars)
<1>0. \A u \in Seq(V) : Among(u, chars) \in Seq(V)
  <2>1. ASSUME NEW u \in Seq(V) PROVE Among(u, chars) \in Seq(V)
    <3>1. CASE u = << >>
      <4>1. Among(u, chars) = << >>
        BY <3>1, AmongNothing
      <4> QED BY <4>1
    <3>2. CASE u # << >>
      <4>1. \E c : c \in V
        <5>1. u[1] \in V
          BY <3>2
        <5> QED BY <5>1
      <4> QED BY <4>1, AmongAppended
    <3> QED BY <3>1, <3>2
  <2> QED BY <2>1
<1> DEFINE n == Len(t)
           S == {k \in 0 .. n : Among(s \o SubSeq(t, 1, k), chars)
                                   = Among(s, chars) \o Among(SubSeq(t, 1, k), chars)}
<1>1. n \in Nat
  OBVIOUS
<1>2. 0 \in S
  <2>1. SubSeq(t, 1, 0) = << >> /\ s \o << >> = s
    OBVIOUS
  <2>2. Among(SubSeq(t, 1, 0), chars) = << >>
    BY <2>1, AmongNothing
  <2>3. Among(s, chars) \o << >> = Among(s, chars)
    <3>1. Among(s, chars) \in Seq(V)
      BY <1>0
    <3> QED BY <3>1, ConcatEmptySeq
  <2>4. Among(s \o SubSeq(t, 1, 0), chars) = Among(s, chars) \o Among(SubSeq(t, 1, 0), chars)
    <3>1. s \o SubSeq(t, 1, 0) = s
      BY <2>1
    <3> QED BY <2>2, <2>3, <3>1
  <2>5. 0 \in 0 .. n
    BY <1>1
  <2> HIDE DEF n
  <2> QED BY <2>4, <2>5
<1>3. ASSUME NEW k \in 0 .. n - 1, k \in S PROVE k + 1 \in S
  <2> DEFINE a == SubSeq(t, 1, k)
             b == SubSeq(t, 1, k + 1)
             c == t[k + 1]
  <2>1. a \in Seq(V) /\ c \in V /\ b = Append(a, c) /\ k + 1 \in 0 .. n
    <3>1. k + 1 \in 1 .. n => k + 1 \in 0 .. n
      BY <1>1
    <3> QED BY <3>1, BeginningGrows
  <2>2. Among(s \o a, chars) = Among(s, chars) \o Among(a, chars)
    BY <1>3
  <2> HIDE DEF a, b, c
  <2>3. s \o b = Append(s \o a, c) /\ s \o a \in Seq(V)
    <3>1. s \o a \in Seq(V)
      BY <2>1, ConcatProperties
    <3> QED BY <2>1, <3>1, AppendToBoth
  <2>4. Among(s \o b, chars) = IF c \in chars THEN Append(Among(s \o a, chars), c) ELSE Among(s \o a, chars)
    <3> DEFINE d == s \o a
    <3>1. d \in Seq(V) /\ s \o b = Append(d, c)
      BY <2>3
    <3> HIDE DEF d
    <3>2. Among(Append(d, c), chars) = IF c \in chars THEN Append(Among(d, chars), c) ELSE Among(d, chars)
      BY <2>1, <3>1, AmongAppended
    <3> QED BY <3>1, <3>2 DEF d
  <2>5. Among(b, chars) = IF c \in chars THEN Append(Among(a, chars), c) ELSE Among(a, chars)
    BY <2>1, AmongAppended
  <2> DEFINE x == Among(s, chars)
             y == Among(a, chars)
  <2>6. x \in Seq(V) /\ y \in Seq(V)
    BY <1>0, <2>1
  <2>7. Append(x \o y, c) = x \o Append(y, c)
    <3> HIDE DEF x, y
    <3> DEFINE z == Append(y, c)
    <3>1. z = Append(y, c)
      OBVIOUS
    <3> HIDE DEF z
    <3>2. x \o z = Append(x \o y, c)
      BY <2>1, <2>6, <3>1, AppendToBoth
    <3> QED BY <3>1, <3>2
  <2>8. Among(s \o b, chars) = x \o Among(b, chars)
    BY <2>2, <2>4, <2>5, <2>7
  <2> QED BY <2>1, <2>8 DEF b
<1>4. n \in S
  <2> HIDE DEF S, n
  <2>1. 0 .. n \subseteq S
    BY <1>1, <1>2, <1>3, UpTo
  <2> QED BY <1>1, <2>1
<1>5. SubSeq(t, 1, n) = t
  BY SubSeqFull
<1>6. Among(s \o t, chars) = Among(s, chars) \o Among(t, chars)
  <2> HIDE DEF n
  <2> QED BY <1>4, <1>5
<1> QED BY <1>0, <1>6

LEMMA AmongTheirs ==
    ASSUME NEW V, NEW chars, NEW s \in Seq(V)
    PROVE  /\ V \subseteq chars => Among(s, chars) = s
           /\ V \cap chars = {} => Among(s, chars) = << >>
<1> DEFINE n == Len(s)
           S == {k \in 0 .. n : /\ V \subseteq chars => Among(SubSeq(s, 1, k), chars) = SubSeq(s, 1, k)
                                /\ V \cap chars = {} => Among(SubSeq(s, 1, k), chars) = << >>}
<1>1. n \in Nat
  OBVIOUS
<1>2. 0 \in S
  <2>1. SubSeq(s, 1, 0) = << >>
    OBVIOUS
  <2>2. Among(SubSeq(s, 1, 0), chars) = << >>
    BY <2>1, AmongNothing
  <2>3. 0 \in 0 .. n
    BY <1>1
  <2> HIDE DEF n
  <2> QED BY <2>1, <2>2, <2>3
<1>3. ASSUME NEW k \in 0 .. n - 1, k \in S PROVE k + 1 \in S
  <2> DEFINE a == SubSeq(s, 1, k)
             b == SubSeq(s, 1, k + 1)
             c == s[k + 1]
  <2>1. a \in Seq(V) /\ c \in V /\ b = Append(a, c) /\ k + 1 \in 0 .. n
    <3>1. k + 1 \in 1 .. n => k + 1 \in 0 .. n
      BY <1>1
    <3> QED BY <3>1, BeginningGrows
  <2>2. /\ V \subseteq chars => Among(a, chars) = a
        /\ V \cap chars = {} => Among(a, chars) = << >>
    BY <1>3
  <2> HIDE DEF a, b, c
  <2>3. Among(b, chars) = IF c \in chars THEN Append(Among(a, chars), c) ELSE Among(a, chars)
    BY <2>1, AmongAppended
  <2>4. /\ V \subseteq chars => Among(b, chars) = b
        /\ V \cap chars = {} => Among(b, chars) = << >>
    BY <2>1, <2>2, <2>3
  <2> QED BY <2>1, <2>4 DEF b
<1>4. n \in S
  <2> HIDE DEF S, n
  <2>1. 0 .. n \subseteq S
    BY <1>1, <1>2, <1>3, UpTo
  <2> QED BY <1>1, <2>1
<1>5. SubSeq(s, 1, n) = s
  BY SubSeqFull
<1> HIDE DEF n
<1> QED BY <1>4, <1>5

-----------------------------------------------------------------------------
\* A text with marks around a piece of it.
Around(text, m) ==
    SubSeq(text, 1, m[1]) \o <<"[[">> \o SubSeq(text, m[1] + 1, m[2]) \o <<"]]">> \o SubSeq(text, m[2] + 1, Len(text))

IsPiece(m, n) == m[1] \in Nat /\ m[2] \in Nat /\ m[1] < m[2] /\ m[2] <= n

LEMMA AroundIs ==
    ASSUME NEW V, Marks \subseteq V, NEW text \in Seq(V), NEW m, IsPiece(m, Len(text))
    PROVE  Around(text, m) \in Seq(V) /\ Len(Around(text, m)) = Len(text) + 2
<1> DEFINE n == Len(text)
           x == m[1]
           y == m[2]
           a == SubSeq(text, 1, x)
           b == SubSeq(text, x + 1, y)
           c == SubSeq(text, y + 1, n)
           o == <<"[[">>
           e == <<"]]">>
<1>1. n \in Nat /\ x \in Nat /\ y \in Nat /\ x < y /\ y <= n /\ \A i \in 1 .. n : text[i] \in V
  BY DEF IsPiece
<1>0. Around(text, m) = a \o o \o b \o e \o c
  BY DEF Around
<1> HIDE DEF x, y
<1>2. a \in Seq(V) /\ Len(a) = x
  <2>1. \A i \in 1 .. x : text[i] \in V
    BY <1>1
  <2> HIDE DEF n
  <2> QED BY <1>1, <2>1, SubSeqProperties
<1>3. b \in Seq(V) /\ Len(b) = y - x
  <2>1. (\A i \in x + 1 .. y : text[i] \in V) /\ x + 1 \in Int
    BY <1>1
  <2> HIDE DEF n
  <2>2. b \in Seq(V) /\ Len(b) = IF x + 1 <= y THEN y - (x + 1) + 1 ELSE 0
    BY <1>1, <2>1, SubSeqProperties
  <2> HIDE DEF b
  <2> QED BY <1>1, <2>2
<1>4. c \in Seq(V) /\ Len(c) = n - y
  <2>1. (\A i \in y + 1 .. n : text[i] \in V) /\ y + 1 \in Int
    BY <1>1
  <2> HIDE DEF n
  <2>2. c \in Seq(V) /\ Len(c) = IF y + 1 <= n THEN n - (y + 1) + 1 ELSE 0
    BY <1>1, <2>1, SubSeqProperties
  <2> HIDE DEF c
  <2> QED BY <1>1, <2>2
<1>5. o \in Seq(V) /\ e \in Seq(V) /\ Len(o) = 1 /\ Len(e) = 1
  BY DEF Marks
<1> HIDE DEF a, b, c, o, e, n
<1> DEFINE p == a \o o
           q == p \o b
           r == q \o e
<1>7. p \in Seq(V) /\ Len(p) = x + 1
  <2>1. p \in Seq(V) /\ Len(p) = Len(a) + Len(o)
    BY <1>2, <1>5, ConcatProperties
  <2> HIDE DEF p
  <2> QED BY <1>1, <1>2, <1>5, <2>1
<1> HIDE DEF p
<1>8. q \in Seq(V) /\ Len(q) = y + 1
  <2>1. q \in Seq(V) /\ Len(q) = Len(p) + Len(b)
    BY <1>3, <1>7, ConcatProperties
  <2> HIDE DEF q
  <2> QED BY <1>1, <1>3, <1>7, <2>1
<1> HIDE DEF q
<1>9. r \in Seq(V) /\ Len(r) = y + 2
  <2>1. r \in Seq(V) /\ Len(r) = Len(q) + Len(e)
    BY <1>5, <1>8, ConcatProperties
  <2> HIDE DEF r
  <2> QED BY <1>1, <1>5, <1>8, <2>1
<1> HIDE DEF r
<1> DEFINE u == r \o c
<1>10. u \in Seq(V) /\ Len(u) = n + 2
  <2>1. u \in Seq(V) /\ Len(u) = Len(r) + Len(c)
    BY <1>4, <1>9, ConcatProperties
  <2> HIDE DEF u
  <2> QED BY <1>1, <1>4, <1>9, <2>1
<1>11. Around(text, m) = u
  BY <1>0 DEF p, q, r
<1> HIDE DEF u
<1> QED BY <1>10, <1>11 DEF n

\* What the marks make of a text, one piece after another.
IsMarked(t, text, l, n, V) ==
    /\ \A k \in 0 .. n : t[k] \in Seq(V) /\ Len(t[k]) >= Len(text)
    /\ t[0] = text
    /\ \A k \in 1 .. n : t[k] = Around(t[k - 1], l[k])

\* Pieces from the end of a text to its beginning.
Falling(pieces) == Sorted(pieces, {p \in pieces \X pieces : p[1][1] > p[2][1]})

LEMMA MarksFold ==
    ASSUME NEW V, Marks \subseteq V, NEW text \in Seq(V), NEW chosen, NEW n \in Nat,
           DOMAIN Falling(chosen) = 1 .. n, \A i \in 1 .. n : IsPiece(Falling(chosen)[i], Len(text))
    PROVE  \E t : IsMarked(t, text, Falling(chosen), n, V) /\ Marked(text, chosen) = t[n]
<1> DEFINE l == Sorted(chosen, {p \in chosen \X chosen : p[1][1] > p[2][1]})
<1>0. l = Falling(chosen) /\ DOMAIN l = 1 .. n /\ \A i \in 1 .. n : IsPiece(l[i], Len(text))
  BY DEF Falling
<1> HIDE DEF l
<1> DEFINE B == {b \in Seq(V) : Len(b) >= Len(text)}
           Step(b, i) == SubSeq(b, 1, l[i][1]) \o <<"[[">> \o SubSeq(b, l[i][1] + 1, l[i][2])
                         \o <<"]]">> \o SubSeq(b, l[i][2] + 1, Len(b))
           H == [x \in B \X (1 .. n) |-> Step(x[1], x[2])]
           Is(f) == f = [s \in SUBSET (1 .. n) |-> IF s = {} THEN text ELSE Step(f[s \ {Max(s)}], Max(s))]
           f == CHOOSE h : Is(h)
<1>1. text \in B
  OBVIOUS
<1>2. ASSUME NEW b \in B, NEW i \in 1 .. n PROVE Step(b, i) \in B
  <2>1. Step(b, i) = Around(b, l[i])
    BY DEF Around
  <2>2. b \in Seq(V) /\ Len(b) \in Nat /\ Len(b) >= Len(text) /\ Len(text) \in Nat
    OBVIOUS
  <2>3. IsPiece(l[i], Len(b))
    <3>1. IsPiece(l[i], Len(text))
      BY <1>0
    <3> QED BY <2>2, <3>1 DEF IsPiece
  <2>4. Around(b, l[i]) \in Seq(V) /\ Len(Around(b, l[i])) = Len(b) + 2
    BY <2>2, <2>3, AroundIs
  <2> HIDE DEF Step
  <2> QED BY <2>1, <2>2, <2>4
<1>3. H \in [B \X (1 .. n) -> B] /\ \A b \in B, i \in 1 .. n : H[<<b, i>>] = Step(b, i)
  <2> HIDE DEF B, Step
  <2>1. \A x \in B \X (1 .. n) : Step(x[1], x[2]) \in B
    BY <1>2
  <2> QED BY <2>1
<1>4. \E g : Is(g)
  <2> HIDE DEF H, B, Step
  <2>1. PICK g : IsFold(g, n, B, text, H)
    BY <1>1, <1>3, FoldExists
  <2>2. ASSUME NEW s \in SUBSET (1 .. n), s # {}
        PROVE  H[<<g[s \ {Max(s)}], Max(s)>>] = Step(g[s \ {Max(s)}], Max(s))
    <3>1. Max(s) \in 1 .. n
      BY <2>2, MaxOfSome
    <3>2. g[s \ {Max(s)}] \in B
      BY <2>1 DEF IsFold
    <3> QED BY <1>3, <3>1, <3>2
  <2>3. g = [s \in SUBSET (1 .. n) |-> g[s]]
    BY <2>1 DEF IsFold
  <2>4. [s \in SUBSET (1 .. n) |-> g[s]]
           = [s \in SUBSET (1 .. n) |-> IF s = {} THEN text ELSE Step(g[s \ {Max(s)}], Max(s))]
    BY <2>1, <2>2 DEF IsFold
  <2> QED BY <2>3, <2>4
<1>5. Is(f)
  <2> HIDE DEF Is
  <2> QED BY <1>4
<1>6. Marked(text, chosen) = f[1 .. n]
  BY <1>0 DEF l, Marked, FoldLeft, MapThenFoldSet
<1> DEFINE t == [k \in 0 .. n |-> f[1 .. k]]
<1>7. t[0] = text
  <2>1. 1 .. 0 = {} /\ {} \in SUBSET (1 .. n)
    OBVIOUS
  <2>2. f[{}] = text
    <3> HIDE DEF f
    <3> QED BY <1>5
  <2> HIDE DEF f
  <2> QED BY <2>1, <2>2
<1>8. ASSUME NEW k \in 1 .. n PROVE t[k] = Step(t[k - 1], k)
  <2>1. Max(1 .. k) = k /\ (1 .. k) \ {k} = 1 .. (k - 1)
    BY MaxOfAll
  <2>2. 1 .. k \in SUBSET (1 .. n) /\ 1 .. k # {}
    BY BeginningIsPart
  <2> HIDE DEF f, Step
  <2>3. f[1 .. k] = Step(f[(1 .. k) \ {Max(1 .. k)}], Max(1 .. k))
    BY <1>5, <2>2
  <2>4. t[k] = f[1 .. k] /\ t[k - 1] = f[1 .. (k - 1)]
    OBVIOUS
  <2> QED BY <2>1, <2>3, <2>4
<1> HIDE DEF f
<1>9. t[n] = f[1 .. n]
  OBVIOUS
<1> HIDE DEF t
<1>10. \A k \in 0 .. n : t[k] \in B
  <2> DEFINE S == {k \in 0 .. n : t[k] \in B}
  <2> HIDE DEF B, Step
  <2>1. 0 \in S
    BY <1>1, <1>7
  <2>2. ASSUME NEW k \in 0 .. n - 1, k \in S PROVE k + 1 \in S
    <3>1. k + 1 \in 1 .. n /\ (k + 1) - 1 = k /\ k + 1 \in 0 .. n
      OBVIOUS
    <3>2. t[k + 1] = Step(t[k], k + 1)
      BY <1>8, <3>1
    <3> QED BY <1>2, <2>2, <3>1, <3>2
  <2> HIDE DEF S
  <2>3. 0 .. n \subseteq S
    BY <2>1, <2>2, UpTo
  <2> QED BY <2>3 DEF S
<1>11. \A k \in 1 .. n : t[k] = Around(t[k - 1], l[k])
  BY <1>8 DEF Around
<1>12. IsMarked(t, text, l, n, V)
  BY <1>7, <1>10, <1>11 DEF IsMarked
<1> QED BY <1>0, <1>6, <1>9, <1>12

LEMMA SamePart ==
    ASSUME NEW V, NEW s, NEW t, NEW p \in Nat \ {0}, NEW q \in Nat, \A i \in p .. q : s[i] \in V /\ s[i] = t[i]
    PROVE  SubSeq(s, p, q) = SubSeq(t, p, q) /\ SubSeq(t, p, q) \in Seq(V)
<1> DEFINE a == SubSeq(s, p, q)
           b == SubSeq(t, p, q)
<1>1. /\ a \in Seq(V) /\ Len(a) = IF p <= q THEN q - p + 1 ELSE 0
      /\ \A i \in 1 .. q - p + 1 : a[i] = s[p + i - 1]
  BY SubSeqProperties
<1>2. /\ b \in Seq(V) /\ Len(b) = IF p <= q THEN q - p + 1 ELSE 0
      /\ \A i \in 1 .. q - p + 1 : b[i] = t[p + i - 1]
  <2>1. \A i \in p .. q : t[i] \in V
    OBVIOUS
  <2> QED BY <2>1, SubSeqProperties
<1> HIDE DEF a, b
<1>3. ASSUME NEW i \in 1 .. Len(a) PROVE a[i] = b[i]
  <2>1. p <= q /\ i \in 1 .. q - p + 1 /\ p + i - 1 \in p .. q
    BY <1>1
  <2>2. a[i] = s[p + i - 1] /\ b[i] = t[p + i - 1]
    BY <1>1, <1>2, <2>1
  <2> QED BY <2>1, <2>2
<1>4. a = b
  BY <1>1, <1>2, <1>3, SeqEqual
<1> QED BY <1>2, <1>4 DEF a, b

LEMMA LaterPart ==
    ASSUME NEW V, NEW y \in Nat, NEW m \in Nat, y <= m, NEW b, \A i \in 1 .. m : b[i] \in V
    PROVE  LET s == SubSeq(b, y + 1, m)
           IN  s \in Seq(V) /\ Len(s) = m - y /\ \A i \in 1 .. m - y : s[i] = b[y + i]
<1> DEFINE s == SubSeq(b, y + 1, m)
<1>1. \A i \in y + 1 .. m : b[i] \in V
  OBVIOUS
<1>2. y + 1 \in Int /\ m \in Int
  OBVIOUS
<1>3. /\ s \in Seq(V) /\ Len(s) = IF y + 1 <= m THEN m - (y + 1) + 1 ELSE 0
      /\ \A i \in 1 .. m - (y + 1) + 1 : s[i] = b[(y + 1) + i - 1]
  BY <1>1, <1>2, SubSeqProperties
<1> HIDE DEF s
<1>4. ASSUME NEW i \in 1 .. m - y PROVE s[i] = b[y + i]
  <2>1. i \in 1 .. m - (y + 1) + 1 /\ (y + 1) + i - 1 = y + i
    OBVIOUS
  <2> QED BY <1>3, <2>1
<1>5. Len(s) = m - y
  BY <1>3
<1> QED BY <1>3, <1>4, <1>5 DEF s

\* A beginning of a text with a tail, and the last part of that.
HasEnd(text, e, tail, y, V, b, s, r) ==
    /\ text \in Seq(V) /\ e \in 0 .. Len(text) /\ tail \in Seq(V) /\ y \in 0 .. e
    /\ b = SubSeq(text, 1, e) \o tail
    /\ s = SubSeq(b, y + 1, Len(b))
    /\ r = SubSeq(text, y + 1, e) \o tail

LEMMA LastPart ==
    ASSUME NEW V, NEW text, NEW e, NEW tail, NEW y, NEW b, NEW s, NEW r, HasEnd(text, e, tail, y, V, b, s, r)
    PROVE  s = r
<1> DEFINE h == SubSeq(text, 1, e)
           n == Len(tail)
           p == SubSeq(text, y + 1, e)
<1>9. b = h \o tail /\ s = SubSeq(b, y + 1, Len(b)) /\ r = p \o tail
  BY DEF HasEnd
<1>0. text \in Seq(V) /\ e \in 0 .. Len(text) /\ tail \in Seq(V) /\ y \in 0 .. e
  BY DEF HasEnd
<1>1. e \in Nat /\ y \in Nat /\ y <= e /\ e <= Len(text) /\ n \in Nat /\ \A i \in 1 .. e : text[i] \in V
  BY <1>0
<1>2. h \in Seq(V) /\ Len(h) = e /\ \A i \in 1 .. e : h[i] = text[i]
  BY <1>0
<1>3. /\ b \in Seq(V) /\ Len(b) = e + n
      /\ \A i \in 1 .. e + n : b[i] = IF i <= e THEN text[i] ELSE tail[i - e]
  <2> HIDE DEF h
  <2>0. b = h \o tail
    BY <1>9
  <2>1. /\ b \in Seq(V) /\ Len(b) = Len(h) + Len(tail)
        /\ \A i \in 1 .. Len(h) + Len(tail) : b[i] = IF i <= Len(h) THEN h[i] ELSE tail[i - Len(h)]
    BY <1>0, <1>2, <2>0, ConcatProperties
  <2> QED BY <1>1, <1>2, <2>1
<1> HIDE DEF h, n
<1>4. p \in Seq(V) /\ Len(p) = e - y /\ \A i \in 1 .. e - y : p[i] = text[y + i]
  BY <1>1, LaterPart
<1> HIDE DEF p
<1>5. /\ r \in Seq(V) /\ Len(r) = (e - y) + n
      /\ \A i \in 1 .. (e - y) + n : r[i] = IF i <= e - y THEN text[y + i] ELSE tail[i - (e - y)]
  <2>0. r = p \o tail
    BY <1>9
  <2>1. /\ r \in Seq(V) /\ Len(r) = Len(p) + Len(tail)
        /\ \A i \in 1 .. Len(p) + Len(tail) : r[i] = IF i <= Len(p) THEN p[i] ELSE tail[i - Len(p)]
    BY <1>0, <1>4, <2>0, ConcatProperties
  <2> QED BY <1>1, <1>4, <2>1 DEF n
<1>6. /\ s \in Seq(V) /\ Len(s) = (e - y) + n
      /\ \A i \in 1 .. (e - y) + n : s[i] = b[y + i]
  <2> DEFINE m == Len(b)
  <2>1. m \in Nat /\ m = e + n /\ y <= m /\ \A i \in 1 .. m : b[i] \in V
    BY <1>1, <1>3
  <2> HIDE DEF m
  <2>2. LET q == SubSeq(b, y + 1, m)
        IN  q \in Seq(V) /\ Len(q) = m - y /\ \A i \in 1 .. m - y : q[i] = b[y + i]
    BY <1>1, <2>1, LaterPart
  <2>3. m - y = (e - y) + n
    BY <1>1, <2>1
  <2> QED BY <1>9, <2>2, <2>3 DEF m
<1>7. ASSUME NEW i \in 1 .. Len(s) PROVE s[i] = r[i]
  <2>1. i \in 1 .. (e - y) + n /\ y + i \in 1 .. e + n
    BY <1>1, <1>6
  <2>2. s[i] = IF y + i <= e THEN text[y + i] ELSE tail[(y + i) - e]
    BY <1>3, <1>6, <2>1
  <2>3. r[i] = IF i <= e - y THEN text[y + i] ELSE tail[i - (e - y)]
    BY <1>5, <2>1
  <2>4. (y + i <= e <=> i <= e - y) /\ (y + i) - e = i - (e - y)
    BY <1>1, <2>1
  <2> QED BY <2>2, <2>3, <2>4
<1> QED BY <1>5, <1>6, <1>7, SeqEqual

\* Marks in pairs.
ArePairs(marks, n) ==
    marks \in Seq(Marks) /\ Len(marks) = n /\ \A i \in 1 .. n : marks[i] = IF i % 2 = 1 THEN "[[" ELSE "]]"

\* A text as it was up to a place, with k pieces marked after it.
IsPartly(b, text, e, D, k) ==
    \E tail \in Seq(D \cup Marks) :
       /\ b = SubSeq(text, 1, e) \o tail
       /\ Among(tail, D) = SubSeq(text, e + 1, Len(text))
       /\ ArePairs(Among(tail, Marks), 2 * k)

LEMMA OneMorePair ==
    ASSUME NEW marks, NEW k \in Nat, ArePairs(marks, 2 * k)
    PROVE  ArePairs((<<"[[">> \o <<"]]">>) \o marks, 2 * (k + 1))
<1> DEFINE o == <<"[[">> \o <<"]]">>
           n == 2 * k
           r == o \o marks
<1>1. o \in Seq(Marks) /\ Len(o) = 2 /\ o[1] = "[[" /\ o[2] = "]]"
  BY DEF Marks
<1>2. n \in Nat /\ 2 * (k + 1) = n + 2
  OBVIOUS
<1> HIDE DEF o, n
<1>3. marks \in Seq(Marks) /\ Len(marks) = n /\ \A i \in 1 .. n : marks[i] = IF i % 2 = 1 THEN "[[" ELSE "]]"
  BY DEF ArePairs, n
<1>4. /\ r \in Seq(Marks) /\ Len(r) = 2 + n
      /\ \A i \in 1 .. 2 + n : r[i] = IF i <= 2 THEN o[i] ELSE marks[i - 2]
  <2>1. /\ r \in Seq(Marks) /\ Len(r) = Len(o) + Len(marks)
        /\ \A i \in 1 .. Len(o) + Len(marks) : r[i] = IF i <= Len(o) THEN o[i] ELSE marks[i - Len(o)]
    BY <1>1, <1>3, ConcatProperties
  <2> HIDE DEF r
  <2> QED BY <1>1, <1>3, <2>1
<1> HIDE DEF r
<1>5. ASSUME NEW i \in 1 .. n + 2 PROVE r[i] = IF i % 2 = 1 THEN "[[" ELSE "]]"
  <2>1. CASE i = 1
    <3>1. r[i] = o[1] /\ i % 2 = 1
      BY <1>2, <1>4, <2>1
    <3> QED BY <1>1, <3>1
  <2>2. CASE i = 2
    <3>1. r[i] = o[2] /\ i % 2 = 0
      BY <1>2, <1>4, <2>2
    <3> QED BY <1>1, <3>1
  <2>3. CASE i > 2
    <3>1. i - 2 \in 1 .. n /\ i % 2 = (i - 2) % 2 /\ i \in 1 .. 2 + n /\ ~(i <= 2)
      BY <1>2, <2>3
    <3>2. r[i] = marks[i - 2]
      BY <1>4, <3>1
    <3>3. marks[i - 2] = IF (i - 2) % 2 = 1 THEN "[[" ELSE "]]"
      BY <1>3, <3>1
    <3> QED BY <3>1, <3>2, <3>3
  <2> QED BY <1>2, <2>1, <2>2, <2>3
<1>6. ArePairs(r, n + 2)
  BY <1>2, <1>4, <1>5 DEF ArePairs
<1> QED BY <1>2, <1>6 DEF r, o

LEMMA Regroup ==
    ASSUME NEW V, NEW a \in Seq(V), NEW x \in Seq(V), NEW y \in Seq(V), NEW xy, xy = x \o y
    PROVE  (a \o x) \o y = a \o xy
  BY ConcatAssociative

\* Five texts over some characters, one after the other.
AreFive(a, o, x, c, z, V) == a \in Seq(V) /\ o \in Seq(V) /\ x \in Seq(V) /\ c \in Seq(V) /\ z \in Seq(V)

InTwoWays(a, o, x, c, z, V, l, r) ==
    AreFive(a, o, x, c, z, V) /\ l = a \o o \o x \o c \o z /\ r = a \o (o \o x \o c \o z)

LEMMA FiveTogether ==
    ASSUME NEW V, NEW a, NEW o, NEW x, NEW c, NEW z, NEW l, NEW r, InTwoWays(a, o, x, c, z, V, l, r)
    PROVE  l = r
<1>1. PICK pa \in Seq(V), po \in Seq(V), px \in Seq(V), pc \in Seq(V), pz \in Seq(V) :
         pa = a /\ po = o /\ px = x /\ pc = c /\ pz = z
  BY DEF AreFive, InTwoWays
<1>2. PICK ox \in Seq(V) : ox = po \o px
  BY ConcatProperties
<1>3. (pa \o po) \o px = pa \o ox
  BY <1>2, Regroup
<1>4. PICK oxc \in Seq(V) : oxc = ox \o pc
  BY ConcatProperties
<1>5. (pa \o ox) \o pc = pa \o oxc
  BY <1>4, Regroup
<1>6. PICK oxcz : oxcz = oxc \o pz
  OBVIOUS
<1>7. (pa \o oxc) \o pz = pa \o oxcz
  BY <1>6, Regroup
<1>8. pa \o po \o px \o pc \o pz = pa \o (po \o px \o pc \o pz)
  BY <1>2, <1>3, <1>4, <1>5, <1>6, <1>7
<1> QED BY <1>1, <1>8 DEF InTwoWays

\* What of five texts, the last two together, is among some characters.
OfFive(o, x, c, y, z, V, chars, l, r) ==
    /\ AreFive(o, x, c, y, z, V)
    /\ l = o \o x \o c \o (y \o z)
    /\ r = Among(o, chars) \o Among(x, chars) \o Among(c, chars) \o (Among(y, chars) \o Among(z, chars))

LEMMA AmongFive ==
    ASSUME NEW V, NEW chars, NEW o, NEW x, NEW c, NEW y, NEW z, NEW l, NEW r, OfFive(o, x, c, y, z, V, chars, l, r)
    PROVE  l \in Seq(V) /\ Among(l, chars) = r
<1> DEFINE ox == o \o x
           oxc == ox \o c
           yz == y \o z
<1>0. o \in Seq(V) /\ x \in Seq(V) /\ c \in Seq(V) /\ y \in Seq(V) /\ z \in Seq(V)
  BY DEF AreFive, OfFive
<1>1. ox \in Seq(V) /\ yz \in Seq(V)
  BY <1>0, ConcatProperties
<1>2. Among(ox, chars) = Among(o, chars) \o Among(x, chars)
  BY <1>0, AmongBoth
<1>3. Among(yz, chars) = Among(y, chars) \o Among(z, chars)
  BY <1>0, AmongBoth
<1> HIDE DEF ox, yz
<1>4. oxc \in Seq(V)
  BY <1>0, <1>1, ConcatProperties
<1>5. Among(oxc, chars) = Among(ox, chars) \o Among(c, chars)
  BY <1>0, <1>1, AmongBoth
<1> HIDE DEF oxc
<1>6. oxc \o yz \in Seq(V)
  BY <1>1, <1>4, ConcatProperties
<1>7. Among(oxc \o yz, chars) = Among(oxc, chars) \o Among(yz, chars)
  BY <1>1, <1>4, AmongBoth
<1>8. l = oxc \o yz
  BY DEF OfFive, oxc, ox, yz
<1>9. r = Among(oxc, chars) \o Among(yz, chars)
  BY <1>2, <1>3, <1>5 DEF OfFive
<1> QED BY <1>6, <1>7, <1>8, <1>9

LEMMA OnePieceMore ==
    ASSUME NEW D, D \cap Marks = {}, NEW text \in Seq(D), NEW e \in 0 .. Len(text), NEW k \in Nat,
           NEW b, IsPartly(b, text, e, D, k), NEW m, IsPiece(m, e)
    PROVE  IsPartly(Around(b, m), text, m[1], D, k + 1)
<1>18. PICK V : V = D \cup Marks
  OBVIOUS
<1> DEFINE n == Len(text)
           x == m[1]
           y == m[2]
           A == SubSeq(text, 1, x)
           X == SubSeq(text, x + 1, y)
           Y == SubSeq(text, y + 1, e)
           Z == SubSeq(text, e + 1, n)
           o == <<"[[">>
           c == <<"]]">>
<1>1. /\ x \in Nat /\ y \in Nat /\ x < y /\ y <= e /\ e \in Nat /\ n \in Nat /\ e <= n
      /\ \A i \in 1 .. n : text[i] \in D
  BY DEF IsPiece
<1>2. PICK tail \in Seq(V) : /\ b = SubSeq(text, 1, e) \o tail
                             /\ Among(tail, D) = Z
                             /\ ArePairs(Among(tail, Marks), 2 * k)
  BY <1>18 DEF IsPartly
<1>0. Around(b, m) = SubSeq(b, 1, x) \o o \o SubSeq(b, x + 1, y) \o c \o SubSeq(b, y + 1, Len(b))
  BY DEF Around
<1>3. text \in Seq(V)
  BY <1>18, SeqMonotonic
<1> DEFINE h == SubSeq(text, 1, e)
<1>4. \A i \in 1 .. e : b[i] = text[i] /\ b[i] \in D
  <2>1. h \in Seq(V) /\ Len(h) = e /\ \A i \in 1 .. e : h[i] = text[i]
    BY <1>1, <1>3
  <2>2. b = h \o tail
    BY <1>2
  <2> HIDE DEF h, n
  <2>3. \A i \in 1 .. Len(h) + Len(tail) : (h \o tail)[i] = IF i <= Len(h) THEN h[i] ELSE tail[i - Len(h)]
    BY <2>1, ConcatProperties
  <2>4. Len(tail) \in Nat
    BY LenProperties
  <2>5. ASSUME NEW i \in 1 .. e PROVE b[i] = text[i] /\ b[i] \in D
    <3>1. i \in 1 .. Len(h) + Len(tail) /\ i <= Len(h) /\ i \in 1 .. n
      BY <1>1, <2>1, <2>4
    <3> QED BY <1>1, <2>1, <2>2, <2>3, <3>1
  <2> QED BY <2>5
<1> HIDE DEF n, x, y
<1>5. SubSeq(b, 1, x) = A /\ A \in Seq(D)
  <2>1. \A i \in 1 .. x : b[i] \in D /\ b[i] = text[i]
    BY <1>1, <1>4
  <2>2. 1 \in Nat \ {0}
    OBVIOUS
  <2> QED BY <1>1, <2>1, <2>2, SamePart
<1>6. SubSeq(b, x + 1, y) = X /\ X \in Seq(D)
  <2>1. \A i \in x + 1 .. y : b[i] \in D /\ b[i] = text[i]
    BY <1>1, <1>4
  <2>2. x + 1 \in Nat \ {0}
    BY <1>1
  <2> QED BY <1>1, <2>1, <2>2, SamePart
<1>7. SubSeq(b, y + 1, Len(b)) = Y \o tail
  <2>1. PICK l, r : l = SubSeq(b, y + 1, Len(b)) /\ r = Y \o tail
    OBVIOUS
  <2>2. HasEnd(text, e, tail, y, V, b, l, r)
    BY <1>1, <1>2, <1>3, <2>1 DEF HasEnd
  <2>3. l = r
    BY <2>2, LastPart
  <2> QED BY <2>1, <2>3
<1>8. Y \in Seq(D)
  <2>1. \A i \in y + 1 .. e : text[i] \in D
    BY <1>1
  <2>2. y + 1 \in Int /\ e \in Int
    BY <1>1
  <2> QED BY <2>1, <2>2, SubSeqProperties
<1>9. o \in Seq(Marks) /\ c \in Seq(Marks)
  BY DEF Marks
<1>10. X \o (Y \o Z) = SubSeq(text, x + 1, n)
  <2>1. Y \o Z = SubSeq(text, y + 1, n)
    <3>1. y + 1 \in 1 .. Len(text) + 1 /\ e \in (y + 1) - 1 .. Len(text) /\ n \in e .. Len(text)
      BY <1>1 DEF n
    <3> QED BY <3>1, ConcatAdjacentSubSeq
  <2>2. X \o SubSeq(text, y + 1, n) = SubSeq(text, x + 1, n)
    <3>1. x + 1 \in 1 .. Len(text) + 1 /\ y \in (x + 1) - 1 .. Len(text) /\ n \in y .. Len(text)
      BY <1>1 DEF n
    <3> QED BY <3>1, ConcatAdjacentSubSeq
  <2> QED BY <2>1, <2>2
<1> DEFINE new == o \o X \o c \o (Y \o tail)
<1> HIDE DEF A, X, Y, Z, o, c
<1>11. /\ A \in Seq(V) /\ X \in Seq(V) /\ Y \in Seq(V) /\ o \in Seq(V) /\ c \in Seq(V) /\ Y \o tail \in Seq(V)
  <2>1. A \in Seq(V) /\ X \in Seq(V) /\ Y \in Seq(V) /\ o \in Seq(V) /\ c \in Seq(V)
    BY <1>5, <1>6, <1>8, <1>9, <1>18, SeqMonotonic
  <2> QED BY <2>1, ConcatProperties
<1>12. Around(b, m) = A \o new
  <2>1. PICK l, r : l = A \o o \o X \o c \o (Y \o tail) /\ r = A \o (o \o X \o c \o (Y \o tail))
    OBVIOUS
  <2> DEFINE z == Y \o tail
  <2>2. z \in Seq(V) /\ l = A \o o \o X \o c \o z /\ r = A \o (o \o X \o c \o z)
    BY <1>11, <2>1
  <2> HIDE DEF z
  <2>3. InTwoWays(A, o, X, c, z, V, l, r)
    BY <1>11, <2>2 DEF AreFive, InTwoWays
  <2>4. l = r
    BY <2>3, FiveTogether
  <2>5. Around(b, m) = A \o o \o X \o c \o (Y \o tail)
    BY <1>0, <1>5, <1>6, <1>7
  <2> QED BY <2>1, <2>4, <2>5
<1>13. ASSUME NEW chars
       PROVE  /\ new \in Seq(V)
              /\ Among(new, chars) = Among(o, chars) \o Among(X, chars) \o Among(c, chars)
                                      \o (Among(Y, chars) \o Among(tail, chars))
  <2>1. PICK l, r : /\ l = o \o X \o c \o (Y \o tail)
                    /\ r = Among(o, chars) \o Among(X, chars) \o Among(c, chars)
                           \o (Among(Y, chars) \o Among(tail, chars))
    OBVIOUS
  <2>2. OfFive(o, X, c, Y, tail, V, chars, l, r)
    BY <1>11, <2>1 DEF AreFive, OfFive
  <2>3. l \in Seq(V) /\ Among(l, chars) = r
    BY <2>2, AmongFive
  <2> QED BY <2>1, <2>3
<1>14. Among(new, D) = SubSeq(text, x + 1, n)
  <2>1. Among(o, D) = << >> /\ Among(c, D) = << >>
    <3>1. Marks \cap D = {}
      OBVIOUS
    <3> QED BY <1>9, <3>1, AmongTheirs
  <2>2. Among(X, D) = X /\ Among(Y, D) = Y
    BY <1>6, <1>8, AmongTheirs
  <2>3. Among(new, D) = << >> \o X \o << >> \o (Y \o Z)
    BY <1>2, <1>13, <2>1, <2>2
  <2>4. << >> \o X = X /\ X \o << >> = X
    BY <1>6, ConcatEmptySeq
  <2> HIDE DEF new
  <2> QED BY <1>10, <2>3, <2>4
<1>15. Among(new, Marks) = (o \o c) \o Among(tail, Marks)
  <2>1. Among(o, Marks) = o /\ Among(c, Marks) = c
    BY <1>9, AmongTheirs
  <2>2. Among(X, Marks) = << >> /\ Among(Y, Marks) = << >>
    BY <1>6, <1>8, AmongTheirs
  <2>3. Among(new, Marks) = o \o << >> \o c \o (<< >> \o Among(tail, Marks))
    BY <1>13, <2>1, <2>2
  <2>4. o \o << >> = o /\ << >> \o Among(tail, Marks) = Among(tail, Marks)
    BY <1>2, <1>9, ConcatEmptySeq DEF ArePairs
  <2> HIDE DEF new
  <2> QED BY <2>3, <2>4
<1>16. ArePairs(Among(new, Marks), 2 * (k + 1))
  <2>1. ArePairs((<<"[[">> \o <<"]]">>) \o Among(tail, Marks), 2 * (k + 1))
    BY <1>2, OneMorePair
  <2> HIDE DEF new
  <2> QED BY <1>15, <2>1 DEF o, c
<1> HIDE DEF new
<1> QED BY <1>12, <1>13, <1>14, <1>16, <1>18 DEF IsPartly, A, n, x

\* What a list of matches leaves chosen, one after the other.
Taken(chosen, m, links) ==
    IF Cardinality(chosen) < MaxHighlights /\ \A n \in links \cup chosen : ~Overlap(m, n)
    THEN chosen \cup {m} ELSE chosen

IsChosen(t, l, links, n, M) ==
    /\ \A k \in 0 .. n : t[k] \in SUBSET M
    /\ t[0] = {}
    /\ \A k \in 1 .. n : t[k] = Taken(t[k - 1], l[k], links)

\* Matches from the beginning of a text to its end, the longer of two that begin together first.
Rising(matches) ==
    Sorted(matches, {p \in matches \X matches : p[1][1] < p[2][1] \/ (p[1][1] = p[2][1] /\ p[1][2] > p[2][2])})

LEMMA ChosenFold ==
    ASSUME NEW matches, NEW links, NEW n \in Nat, Rising(matches) \in [1 .. n -> matches]
    PROVE  \E t : IsChosen(t, Rising(matches), links, n, matches) /\ Highlighted(matches, links) = t[n]
<1> DEFINE l == Sorted(matches, {p \in matches \X matches :
                                   p[1][1] < p[2][1] \/ (p[1][1] = p[2][1] /\ p[1][2] > p[2][2])})
<1>0. l = Rising(matches) /\ DOMAIN l = 1 .. n /\ \A i \in 1 .. n : l[i] \in matches
  BY DEF Rising
<1> HIDE DEF l
<1> DEFINE B == SUBSET matches
           Step(b, i) == IF Cardinality(b) < MaxHighlights /\ \A m \in links \cup b : ~Overlap(l[i], m)
                         THEN b \cup {l[i]} ELSE b
           H == [x \in B \X (1 .. n) |-> Step(x[1], x[2])]
           Is(f) == f = [s \in SUBSET (1 .. n) |-> IF s = {} THEN {} ELSE Step(f[s \ {Max(s)}], Max(s))]
           f == CHOOSE h : Is(h)
<1>1. {} \in B
  OBVIOUS
<1>2. ASSUME NEW b \in B, NEW i \in 1 .. n PROVE Step(b, i) \in B
  BY <1>0
<1>3. H \in [B \X (1 .. n) -> B] /\ \A b \in B, i \in 1 .. n : H[<<b, i>>] = Step(b, i)
  <2> HIDE DEF B, Step
  <2>1. \A x \in B \X (1 .. n) : Step(x[1], x[2]) \in B
    BY <1>2
  <2> QED BY <2>1
<1>4. \E g : Is(g)
  <2> HIDE DEF H, B, Step
  <2>1. PICK g : IsFold(g, n, B, {}, H)
    BY <1>1, <1>3, FoldExists
  <2>2. ASSUME NEW s \in SUBSET (1 .. n), s # {}
        PROVE  H[<<g[s \ {Max(s)}], Max(s)>>] = Step(g[s \ {Max(s)}], Max(s))
    <3>1. Max(s) \in 1 .. n
      BY <2>2, MaxOfSome
    <3>2. g[s \ {Max(s)}] \in B
      BY <2>1 DEF IsFold
    <3> QED BY <1>3, <3>1, <3>2
  <2>3. g = [s \in SUBSET (1 .. n) |-> g[s]]
    BY <2>1 DEF IsFold
  <2>4. [s \in SUBSET (1 .. n) |-> g[s]]
           = [s \in SUBSET (1 .. n) |-> IF s = {} THEN {} ELSE Step(g[s \ {Max(s)}], Max(s))]
    BY <2>1, <2>2 DEF IsFold
  <2> QED BY <2>3, <2>4
<1>5. Is(f)
  <2> HIDE DEF Is
  <2> QED BY <1>4
<1>6. Highlighted(matches, links) = f[1 .. n]
  BY <1>0 DEF l, Highlighted, FoldLeft, MapThenFoldSet
<1> DEFINE t == [k \in 0 .. n |-> f[1 .. k]]
<1>7. t[0] = {}
  <2>1. 1 .. 0 = {} /\ {} \in SUBSET (1 .. n)
    OBVIOUS
  <2>2. f[{}] = {}
    <3> HIDE DEF f
    <3> QED BY <1>5
  <2> HIDE DEF f
  <2> QED BY <2>1, <2>2
<1>8. ASSUME NEW k \in 1 .. n PROVE t[k] = Step(t[k - 1], k)
  <2>1. Max(1 .. k) = k /\ (1 .. k) \ {k} = 1 .. (k - 1)
    BY MaxOfAll
  <2>2. 1 .. k \in SUBSET (1 .. n) /\ 1 .. k # {}
    BY BeginningIsPart
  <2> HIDE DEF f, Step
  <2>3. f[1 .. k] = Step(f[(1 .. k) \ {Max(1 .. k)}], Max(1 .. k))
    BY <1>5, <2>2
  <2>4. t[k] = f[1 .. k] /\ t[k - 1] = f[1 .. (k - 1)]
    OBVIOUS
  <2> QED BY <2>1, <2>3, <2>4
<1> HIDE DEF f
<1>9. t[n] = f[1 .. n]
  OBVIOUS
<1> HIDE DEF t
<1>10. \A k \in 0 .. n : t[k] \in B
  <2> DEFINE S == {k \in 0 .. n : t[k] \in B}
  <2> HIDE DEF B, Step
  <2>1. 0 \in S
    <3>1. t[0] \in B /\ 0 \in 0 .. n
      BY <1>1, <1>7
    <3> QED BY <3>1
  <2>2. ASSUME NEW k \in 0 .. n - 1, k \in S PROVE k + 1 \in S
    <3>1. k + 1 \in 1 .. n /\ (k + 1) - 1 = k /\ k + 1 \in 0 .. n
      OBVIOUS
    <3>2. t[k + 1] = Step(t[k], k + 1)
      BY <1>8, <3>1
    <3> QED BY <1>2, <2>2, <3>1, <3>2
  <2> HIDE DEF S
  <2>3. 0 .. n \subseteq S
    BY <2>1, <2>2, UpTo
  <2> QED BY <2>3 DEF S
<1>11. \A k \in 1 .. n : t[k] = Taken(t[k - 1], l[k], links)
  BY <1>8 DEF Taken
<1>12. IsChosen(t, l, links, n, matches)
  BY <1>7, <1>10, <1>11 DEF IsChosen
<1> QED BY <1>0, <1>6, <1>9, <1>12

\* Matches apart from each other and from the links, none only when each meets a link.
AreApart(chosen, links, l, k) ==
    /\ IsFiniteSet(chosen) /\ Cardinality(chosen) <= MaxHighlights
    /\ \A m, n \in chosen : m # n => ~Overlap(m, n)
    /\ \A m \in chosen, n \in links : ~Overlap(m, n)
    /\ chosen = {} => \A i \in 1 .. k : \E n \in links : Overlap(l[i], n)

LEMMA OneMoreTaken ==
    ASSUME NEW chosen, NEW links, NEW l, NEW k \in Nat, AreApart(chosen, links, l, k)
    PROVE  AreApart(Taken(chosen, l[k + 1], links), links, l, k + 1)
<1> DEFINE m == l[k + 1]
           more == Taken(chosen, m, links)
<1>1. \A x, y : Overlap(x, y) <=> Overlap(y, x)
  BY DEF Overlap
<1>2. CASE Cardinality(chosen) < MaxHighlights /\ \A n \in links \cup chosen : ~Overlap(m, n)
  <2>1. more = chosen \cup {m}
    BY <1>2 DEF Taken
  <2>2. IsFiniteSet(chosen) /\ Cardinality(chosen) \in Nat
    BY FS_CardinalityType DEF AreApart
  <2>3. IsFiniteSet(chosen \cup {m}) /\ Cardinality(chosen \cup {m}) <= MaxHighlights
    <3>1. IsFiniteSet(chosen \cup {m})
          /\ Cardinality(chosen \cup {m}) = IF m \in chosen THEN Cardinality(chosen) ELSE Cardinality(chosen) + 1
      BY <2>2, FS_AddElement
    <3> QED BY <1>2, <2>2, <3>1 DEF MaxHighlights
  <2>4. \A x, y \in chosen \cup {m} : x # y => ~Overlap(x, y)
    BY <1>1, <1>2 DEF AreApart
  <2>5. \A x \in chosen \cup {m}, n \in links : ~Overlap(x, n)
    BY <1>2 DEF AreApart
  <2> QED BY <2>1, <2>3, <2>4, <2>5 DEF AreApart
<1>3. CASE ~(Cardinality(chosen) < MaxHighlights /\ \A n \in links \cup chosen : ~Overlap(m, n))
  <2>1. more = chosen
    BY <1>3 DEF Taken
  <2>2. ASSUME chosen = {} PROVE \A i \in 1 .. k + 1 : \E n \in links : Overlap(l[i], n)
    <3>1. Cardinality(chosen) = 0
      BY <2>2, FS_EmptySet
    <3>2. \E n \in links : Overlap(m, n)
      BY <1>3, <2>2, <3>1 DEF MaxHighlights
    <3>3. \A i \in 1 .. k : \E n \in links : Overlap(l[i], n)
      BY <2>2 DEF AreApart
    <3>4. \A i \in 1 .. k + 1 : i \in 1 .. k \/ i = k + 1
      OBVIOUS
    <3> QED BY <3>2, <3>3, <3>4
  <2>3. AreApart(chosen, links, l, k + 1)
    BY <2>2 DEF AreApart
  <2> HIDE DEF more
  <2> QED BY <2>1, <2>3 DEF more
<1> QED BY <1>2, <1>3

\* Matches are pairs of numbers, the first the smaller, within a text.
AreMatches(matches, n) == matches \subseteq Nat \X Nat /\ \A m \in matches : IsPiece(m, n)

LEMMA HighlightsAreApart ==
    ASSUME NEW size, NEW matches, IsFiniteSet(matches), AreMatches(matches, size), NEW links
    PROVE  /\ Highlighted(matches, links) \subseteq matches
           /\ AreApart(Highlighted(matches, links), links, Rising(matches), Cardinality(matches))
           /\ \A m \in matches : \E i \in 1 .. Cardinality(matches) : Rising(matches)[i] = m
<1> DEFINE n == Cardinality(matches)
           l == Rising(matches)
           order == {p \in matches \X matches : p[1][1] < p[2][1] \/ (p[1][1] = p[2][1] /\ p[1][2] > p[2][2])}
<1>1. IsOrder(order, matches)
  <2>1. \A m \in matches : m[1] \in Nat /\ m[2] \in Nat /\ m = <<m[1], m[2]>>
    BY DEF AreMatches
  <2>2. \A x, y \in matches : <<x, y>> \in order <=> (x[1] < y[1] \/ (x[1] = y[1] /\ x[2] > y[2]))
    OBVIOUS
  <2> HIDE DEF order
  <2>3. ASSUME NEW x \in matches, NEW y \in matches, x # y PROVE <<x, y>> \in order \/ <<y, x>> \in order
    <3>1. x[1] # y[1] \/ x[2] # y[2]
      BY <2>1, <2>3
    <3> QED BY <2>1, <2>2, <3>1
  <2>4. ASSUME NEW x \in matches, NEW y \in matches, NEW z \in matches, <<x, y>> \in order, <<y, z>> \in order
        PROVE  <<x, z>> \in order
    BY <2>1, <2>2, <2>4
  <2> QED BY <2>3, <2>4 DEF IsOrder
<1>2. n \in Nat /\ IsListOf(l, matches, order, n)
  <2>1. l = Sorted(matches, order)
    BY DEF Rising
  <2> HIDE DEF l, order
  <2> QED BY <1>1, <2>1, SortedIs
<1>3. l \in [1 .. n -> matches] /\ \A m \in matches : \E i \in 1 .. n : l[i] = m
  BY <1>2 DEF IsListOf
<1> HIDE DEF n, l
<1>4. PICK t : IsChosen(t, l, links, n, matches) /\ Highlighted(matches, links) = t[n]
  BY <1>2, <1>3, ChosenFold DEF l
<1> DEFINE S == {k \in 0 .. n : AreApart(t[k], links, l, k)}
<1>5. 0 \in S
  <2>1. IsFiniteSet({}) /\ Cardinality({}) = 0
    BY FS_EmptySet
  <2>2. t[0] = {}
    BY <1>4 DEF IsChosen
  <2>3. AreApart({}, links, l, 0)
    BY <2>1 DEF AreApart, MaxHighlights
  <2>4. AreApart(t[0], links, l, 0) /\ 0 \in 0 .. n
    BY <1>2, <2>2, <2>3
  <2> QED BY <2>4
<1>6. ASSUME NEW k \in 0 .. n - 1, k \in S PROVE k + 1 \in S
  <2>1. k + 1 \in 1 .. n /\ (k + 1) - 1 = k /\ k \in Nat /\ k + 1 \in 0 .. n
    BY <1>2
  <2>2. t[k + 1] = Taken(t[(k + 1) - 1], l[k + 1], links)
    BY <1>4, <2>1 DEF IsChosen
  <2>3. AreApart(t[k], links, l, k)
    BY <1>6
  <2>4. AreApart(Taken(t[k], l[k + 1], links), links, l, k + 1)
    BY <2>1, <2>3, OneMoreTaken
  <2> QED BY <2>1, <2>2, <2>4
<1>7. AreApart(t[n], links, l, n)
  <2> HIDE DEF S
  <2>1. 0 .. n \subseteq S
    BY <1>2, <1>5, <1>6, UpTo
  <2>2. n \in S
    BY <1>2, <2>1
  <2> QED BY <2>2 DEF S
<1>8. t[n] \subseteq matches
  BY <1>2, <1>4 DEF IsChosen
<1> QED BY <1>3, <1>4, <1>7, <1>8 DEF n, l

LEMMA AmongAgrees ==
    ASSUME NEW V, NEW text \in Seq(V), NEW one, NEW other,
           \A i \in 1 .. Len(text) : text[i] \in one <=> text[i] \in other
    PROVE  Among(text, one) = Among(text, other)
<1> DEFINE n == Len(text)
<1>1. n \in Nat /\ text \in [1 .. n -> V] /\ \A i \in 1 .. n : text[i] \in one <=> text[i] \in other
  OBVIOUS
<1> HIDE DEF n
<1>2. PICK t : IsKept(t, text, one, n, V)
  BY <1>1, AmongFolds
<1>3. PICK u : IsKept(u, text, other, n, V)
  BY <1>1, AmongFolds
<1> DEFINE S == {k \in 0 .. n : t[k] = u[k]}
<1>4. 0 \in S
  BY <1>1, <1>2, <1>3 DEF IsKept
<1>5. ASSUME NEW k \in 0 .. n - 1, k \in S PROVE k + 1 \in S
  <2>1. k + 1 \in 1 .. n /\ (k + 1) - 1 = k /\ k + 1 \in 0 .. n
    BY <1>1
  <2>2. t[k + 1] = IF text[k + 1] \in one THEN Append(t[k], text[k + 1]) ELSE t[k]
    BY <1>2, <2>1 DEF IsKept
  <2>3. u[k + 1] = IF text[k + 1] \in other THEN Append(u[k], text[k + 1]) ELSE u[k]
    BY <1>3, <2>1 DEF IsKept
  <2>4. t[k] = u[k]
    BY <1>5
  <2>5. t[k + 1] = u[k + 1]
    BY <1>1, <2>1, <2>2, <2>3, <2>4
  <2> QED BY <2>1, <2>5
<1>6. t[n] = u[n]
  <2> HIDE DEF S
  <2>1. 0 .. n \subseteq S
    BY <1>1, <1>4, <1>5, UpTo
  <2>2. n \in S
    BY <1>1, <2>1
  <2> QED BY <2>2 DEF S
<1> QED BY <1>2, <1>3, <1>6 DEF IsKept

\* Pieces of a text that do not meet.
ArePieces(chosen, n) ==
    (\A m \in chosen : IsPiece(m, n)) /\ \A x, y \in chosen : x # y => ~Overlap(x, y)

LEMMA PiecesFall ==
    ASSUME NEW size \in Nat, NEW chosen, IsFiniteSet(chosen), ArePieces(chosen, size)
    PROVE  LET n == Cardinality(chosen)
               l == Falling(chosen)
           IN  /\ n \in Nat /\ l \in [1 .. n -> chosen] /\ \A i \in 1 .. n : IsPiece(l[i], size)
               /\ \A i, j \in 1 .. n : i < j => IsPiece(l[j], l[i][1])
<1> DEFINE n == Cardinality(chosen)
           l == Falling(chosen)
           order == {p \in chosen \X chosen : p[1][1] > p[2][1]}
<1>1. \A m \in chosen : m[1] \in Nat /\ m[2] \in Nat /\ m[1] < m[2] /\ m[2] <= size
  BY DEF ArePieces, IsPiece
<1>2. \A x, y \in chosen : x # y => ~(x[1] < y[2] /\ x[2] > y[1])
  BY DEF ArePieces, Overlap
<1>3. \A x, y \in chosen : <<x, y>> \in order <=> x[1] > y[1]
  OBVIOUS
<1>4. IsOrder(order, chosen)
  <2> HIDE DEF order
  <2>1. ASSUME NEW x \in chosen, NEW y \in chosen, x # y PROVE <<x, y>> \in order \/ <<y, x>> \in order
    BY <1>1, <1>2, <1>3, <2>1
  <2>2. ASSUME NEW x \in chosen, NEW y \in chosen, NEW z \in chosen, <<x, y>> \in order, <<y, z>> \in order
        PROVE  <<x, z>> \in order
    BY <1>1, <1>3, <2>2
  <2> QED BY <2>1, <2>2 DEF IsOrder
<1>5. n \in Nat /\ IsListOf(l, chosen, order, n)
  <2>1. l = Sorted(chosen, order)
    BY DEF Falling
  <2> HIDE DEF l, order
  <2> QED BY <1>4, <2>1, SortedIs
<1> HIDE DEF n, l, order
<1>6. l \in [1 .. n -> chosen]
  BY <1>5 DEF IsListOf
<1>7. \A i \in 1 .. n : IsPiece(l[i], size)
  BY <1>6 DEF ArePieces
<1>8. ASSUME NEW i \in 1 .. n, NEW j \in 1 .. n, i < j PROVE IsPiece(l[j], l[i][1])
  <2>1. PICK x \in chosen : x = l[i]
    BY <1>6
  <2>2. PICK y \in chosen : y = l[j]
    BY <1>6
  <2>3. x # y /\ <<x, y>> \in order
    BY <1>5, <1>8, <2>1, <2>2 DEF IsListOf
  <2>4. x[1] > y[1]
    BY <1>3, <2>3
  <2>5. ~(y[1] < x[2] /\ y[2] > x[1])
    BY <1>2, <2>3
  <2>6. IsPiece(y, x[1])
    BY <1>1, <2>4, <2>5 DEF IsPiece
  <2> QED BY <2>1, <2>2, <2>6
<1> QED BY <1>5, <1>6, <1>7, <1>8 DEF n, l

LEMMA MarkedIsPartly ==
    ASSUME NEW D, D \cap Marks = {}, NEW text \in Seq(D), NEW chosen, IsFiniteSet(chosen),
           ArePieces(chosen, Len(text))
    PROVE  /\ Marked(text, chosen) \in Seq(D \cup Marks)
           /\ \E e \in 0 .. Len(text) : IsPartly(Marked(text, chosen), text, e, D, Cardinality(chosen))
<1> DEFINE n == Cardinality(chosen)
           l == Falling(chosen)
           size == Len(text)
           V == D \cup Marks
<1>1. size \in Nat /\ text \in Seq(V) /\ Marks \subseteq V
  <2>1. text \in Seq(V)
    BY SeqMonotonic
  <2> QED BY <2>1
<1>2. /\ n \in Nat /\ l \in [1 .. n -> chosen] /\ \A i \in 1 .. n : IsPiece(l[i], size)
      /\ \A i, j \in 1 .. n : i < j => IsPiece(l[j], l[i][1])
  <2> HIDE DEF size
  <2>1. ArePieces(chosen, size)
    BY DEF size
  <2> QED BY <1>1, <2>1, PiecesFall
<1> HIDE DEF n, l, V
<1>3. PICK t : IsMarked(t, text, l, n, V) /\ Marked(text, chosen) = t[n]
  <2>1. DOMAIN Falling(chosen) = 1 .. n /\ \A i \in 1 .. n : IsPiece(Falling(chosen)[i], Len(text))
    BY <1>2 DEF l
  <2> QED BY <1>1, <1>2, <2>1, MarksFold DEF l
<1> DEFINE e(k) == IF k = 0 THEN size ELSE l[k][1]
           S == {k \in 0 .. n : e(k) \in 0 .. size /\ IsPartly(t[k], text, e(k), D, k)}
<1>4. \A k \in 1 .. n : e(k) \in 0 .. size
  <2>1. ASSUME NEW k \in 1 .. n PROVE e(k) \in 0 .. size
    <3>1. e(k) = l[k][1] /\ IsPiece(l[k], size)
      BY <1>2
    <3> HIDE DEF e, size
    <3> QED BY <1>1, <3>1 DEF IsPiece
  <2> QED BY <2>1
<1>5. 0 \in S
  <2>1. e(0) = size /\ size \in 0 .. size /\ 0 \in 0 .. n
    BY <1>1, <1>2
  <2>2. IsPartly(text, text, size, D, 0)
    <3>1. << >> \in Seq(D \cup Marks)
      OBVIOUS
    <3>2. text = SubSeq(text, 1, size) \o << >>
      <4>1. SubSeq(text, 1, size) = text
        BY SubSeqFull
      <4>2. text \o << >> = text
        BY ConcatEmptySeq
      <4> HIDE DEF size
      <4> QED BY <4>1, <4>2
    <3>3. Among(<< >>, D) = << >> /\ Among(<< >>, Marks) = << >>
      BY AmongNothing
    <3>4. SubSeq(text, size + 1, Len(text)) = << >>
      OBVIOUS
    <3>5. ArePairs(<< >>, 2 * 0)
      BY DEF ArePairs
    <3> HIDE DEF size
    <3> QED BY <3>1, <3>2, <3>3, <3>4, <3>5 DEF IsPartly
  <2>3. t[0] = text
    BY <1>3 DEF IsMarked
  <2>4. e(0) \in 0 .. size /\ IsPartly(t[0], text, e(0), D, 0)
    BY <2>1, <2>2, <2>3
  <2> HIDE DEF e
  <2> QED BY <2>1, <2>4
<1>6. ASSUME NEW k \in 0 .. n - 1, k \in S PROVE k + 1 \in S
  <2>1. k + 1 \in 1 .. n /\ (k + 1) - 1 = k /\ k + 1 \in 0 .. n /\ k \in Nat
    BY <1>2
  <2>2. t[k + 1] = Around(t[(k + 1) - 1], l[k + 1])
    BY <1>3, <2>1 DEF IsMarked
  <2>3. e(k) \in 0 .. size /\ IsPartly(t[k], text, e(k), D, k)
    BY <1>6
  <2>4. IsPiece(l[k + 1], e(k))
    <3>1. CASE k = 0
      BY <1>2, <2>1, <3>1
    <3>2. CASE k # 0
      <4>1. k \in 1 .. n /\ k < k + 1
        BY <1>2, <2>1, <3>2
      <4> QED BY <1>2, <2>1, <3>2, <4>1
    <3> QED BY <3>1, <3>2
  <2>5. e(k + 1) = l[k + 1][1]
    BY <2>1
  <2> HIDE DEF e
  <2>6. IsPartly(Around(t[k], l[k + 1]), text, l[k + 1][1], D, k + 1)
    <3>1. PICK end \in 0 .. Len(text) : end = e(k)
      BY <2>3
    <3>2. IsPartly(t[k], text, end, D, k) /\ IsPiece(l[k + 1], end)
      BY <2>3, <2>4, <3>1
    <3> QED BY <2>1, <3>2, OnePieceMore
  <2>7. e(k + 1) \in 0 .. size
    BY <1>4, <2>1
  <2>8. IsPartly(t[k + 1], text, e(k + 1), D, k + 1)
    BY <2>1, <2>2, <2>5, <2>6
  <2> QED BY <2>1, <2>7, <2>8
<1>7. n \in S
  <2> HIDE DEF S
  <2>1. 0 .. n \subseteq S
    BY <1>2, <1>5, <1>6, UpTo
  <2> QED BY <1>2, <2>1
<1>8. e(n) \in 0 .. size /\ IsPartly(t[n], text, e(n), D, n)
  <2> HIDE DEF e
  <2> QED BY <1>7
<1>9. t[n] \in Seq(V)
  BY <1>2, <1>3 DEF IsMarked
<1> HIDE DEF e, size
<1> QED BY <1>3, <1>8, <1>9 DEF size, n, V

\* What of two texts is among some characters.
OfTwo(s, t, V, chars, l, r) ==
    s \in Seq(V) /\ t \in Seq(V) /\ l = s \o t /\ r = Among(s, chars) \o Among(t, chars)

LEMMA AmongTwo ==
    ASSUME NEW V, NEW chars, NEW s, NEW t, NEW l, NEW r, OfTwo(s, t, V, chars, l, r)
    PROVE  Among(l, chars) = r
<1>1. s \in Seq(V) /\ t \in Seq(V)
  BY DEF OfTwo
<1>2. Among(s \o t, chars) = Among(s, chars) \o Among(t, chars)
  BY <1>1, AmongBoth
<1> QED BY <1>2 DEF OfTwo

LEMMA PartsAreAll ==
    ASSUME NEW D, NEW text \in Seq(D), NEW b \in Seq(D \cup Marks), D \cap Marks = {}, NEW k \in Nat,
           NEW e \in 0 .. Len(text), IsPartly(b, text, e, D, k)
    PROVE  Among(b, D) = text /\ ArePairs(Among(b, Marks), 2 * k)
<1>1. PICK V : V = D \cup Marks
  OBVIOUS
<1> DEFINE size == Len(text)
           rest == SubSeq(text, e + 1, size)
<1>2. PICK tail \in Seq(V) : /\ b = SubSeq(text, 1, e) \o tail
                             /\ Among(tail, D) = rest
                             /\ ArePairs(Among(tail, Marks), 2 * k)
  BY <1>1 DEF IsPartly
<1>3. PICK h \in Seq(D) : h = SubSeq(text, 1, e)
  <2>1. (\A i \in 1 .. e : text[i] \in D) /\ 1 \in Int /\ e \in Int
    OBVIOUS
  <2>2. SubSeq(text, 1, e) \in Seq(D)
    BY <2>1, SubSeqProperties
  <2> QED BY <2>2
<1>4. h \in Seq(V)
  BY <1>1, SeqMonotonic
<1>5. PICK g \in Seq(V) : g = h
  BY <1>4
<1>6. /\ Among(g \o tail, D) = Among(g, D) \o Among(tail, D)
      /\ Among(g \o tail, Marks) = Among(g, Marks) \o Among(tail, Marks)
  <2>1. ASSUME NEW chars PROVE Among(g \o tail, chars) = Among(g, chars) \o Among(tail, chars)
    <3>1. PICK l, r : l = g \o tail /\ r = Among(g, chars) \o Among(tail, chars)
      OBVIOUS
    <3>2. OfTwo(g, tail, V, chars, l, r)
      BY <3>1 DEF OfTwo
    <3>3. Among(l, chars) = r
      BY <3>2, AmongTwo
    <3> QED BY <3>1, <3>3
  <2> QED BY <2>1
<1>7. Among(h, D) = h /\ Among(h, Marks) = << >>
  BY AmongTheirs
<1>8. h \o rest = text
  <2>1. 1 \in 1 .. Len(text) + 1 /\ e \in 1 - 1 .. Len(text) /\ Len(text) \in e .. Len(text)
    OBVIOUS
  <2>2. SubSeq(text, 1, e) \o SubSeq(text, e + 1, Len(text)) = SubSeq(text, 1, Len(text))
    BY <2>1, ConcatAdjacentSubSeq
  <2>3. SubSeq(text, 1, Len(text)) = text
    BY SubSeqFull
  <2> QED BY <1>3, <2>2, <2>3
<1>9. << >> \o Among(tail, Marks) = Among(tail, Marks)
  BY <1>2, ConcatEmptySeq DEF ArePairs
<1> HIDE DEF rest
<1>10. Among(b, D) = h \o rest
  BY <1>2, <1>3, <1>5, <1>6, <1>7
<1>11. Among(b, Marks) = Among(tail, Marks)
  BY <1>2, <1>3, <1>5, <1>6, <1>7, <1>9
<1> QED BY <1>2, <1>8, <1>10, <1>11

\* Highlights change nothing but the marks they put in: of any text, matches and
\* links, at most so many matches are marked, each whole and none in a link
\* (highlight_terms_in_snippet, search/snippet.py).
THEOREM IsCleanForAll ==
    ASSUME NEW D, D \cap Marks = {}, NEW text \in Seq(D), NEW matches, IsFiniteSet(matches),
           AreMatches(matches, Len(text)), NEW links
    PROVE  IsClean(text, matches, links)
<1> DEFINE chosen == Highlighted(matches, links)
           marked == Marked(text, chosen)
           marks == Among(marked, Marks)
           size == Len(text)
           n == Cardinality(chosen)
<1>1. /\ chosen \subseteq matches
      /\ AreApart(chosen, links, Rising(matches), Cardinality(matches))
      /\ \A m \in matches : \E i \in 1 .. Cardinality(matches) : Rising(matches)[i] = m
  BY HighlightsAreApart
<1> HIDE DEF chosen
<1>2. IsFiniteSet(chosen) /\ ArePieces(chosen, Len(text)) /\ n \in Nat /\ n <= MaxHighlights
  <2>1. IsFiniteSet(chosen) /\ n <= MaxHighlights
    BY <1>1 DEF AreApart
  <2>2. n \in Nat
    BY <2>1, FS_CardinalityType
  <2>3. ArePieces(chosen, Len(text))
    BY <1>1 DEF AreApart, ArePieces, AreMatches
  <2> QED BY <2>1, <2>2, <2>3
<1>3. /\ marked \in Seq(D \cup Marks)
      /\ \E e \in 0 .. Len(text) : IsPartly(marked, text, e, D, n)
  BY <1>2, MarkedIsPartly
<1> HIDE DEF marked, n
<1>4. Among(marked, D) = text /\ ArePairs(marks, 2 * n)
  BY <1>2, <1>3, PartsAreAll
<1>5. Among(marked, Range(marked) \ Marks) = Among(marked, D)
  <2>1. \A i \in 1 .. Len(marked) : marked[i] \in D \cup Marks /\ marked[i] \in Range(marked)
    BY <1>3 DEF Range
  <2>2. \A i \in 1 .. Len(marked) : marked[i] \in Range(marked) \ Marks <=> marked[i] \in D
    BY <2>1
  <2>3. PICK V : V = D \cup Marks
    OBVIOUS
  <2>4. marked \in Seq(V)
    BY <1>3, <2>3
  <2> QED BY <2>2, <2>4, AmongAgrees
<1> HIDE DEF marks
<1>6. Len(marks) <= 2 * MaxHighlights /\ \A i \in DOMAIN marks : marks[i] = IF i % 2 = 1 THEN "[[" ELSE "]]"
  <2>1. marks \in Seq(Marks) /\ Len(marks) = 2 * n /\ \A i \in 1 .. 2 * n : marks[i] = IF i % 2 = 1 THEN "[[" ELSE "]]"
    BY <1>4 DEF ArePairs
  <2>2. DOMAIN marks = 1 .. 2 * n
    BY <2>1, LenProperties
  <2>3. 2 * n <= 2 * MaxHighlights
    BY <1>2 DEF MaxHighlights
  <2> QED BY <2>1, <2>2, <2>3
<1>7. \A m \in chosen, x \in links : ~Overlap(m, x)
  BY <1>1 DEF AreApart
<1>8. chosen = {} => \A m \in matches : \E x \in links : Overlap(m, x)
  BY <1>1 DEF AreApart
<1> QED BY <1>4, <1>5, <1>6, <1>7, <1>8 DEF IsClean, chosen, marked, marks

\* So the highlights that the run evaluates are clean (search/snippet.py).
THEOREM HighlightsAreAlwaysClean == HighlightsAreClean
<1> DEFINE pieces == {m \in (0 .. 8) \X (0 .. 8) : m[2] \in {m[1] + 2, m[1] + 3}}
           D == {"a", "b", "c", "d", "e", "f", "g", "h"}
<1>1. SUFFICES ASSUME NEW matches \in UNION {kSubset(k, pieces) : k \in 1 .. 4}, NEW links \in {{}, {<<3, 7>>}}
      PROVE  IsClean(Letter, matches, links)
  BY DEF HighlightsAreClean
<1>2. Letter \in Seq(D) /\ Len(Letter) = 8 /\ D \cap Marks = {}
  BY DEF Letter, Marks
<1>3. IsFiniteSet(pieces)
  <2>1. IsFiniteSet(0 .. 8)
    <3>1. 0 \in Int /\ 8 \in Int
      OBVIOUS
    <3> QED BY <3>1, FS_Interval
  <2>2. IsFiniteSet((0 .. 8) \X (0 .. 8))
    BY <2>1, FS_Product
  <2>3. pieces \subseteq (0 .. 8) \X (0 .. 8)
    OBVIOUS
  <2> HIDE DEF pieces
  <2> QED BY <2>2, <2>3, FS_Subset
<1>4. \A m \in pieces : m \in Nat \X Nat /\ IsPiece(m, 8)
  BY DEF IsPiece
<1> HIDE DEF pieces, D
<1>5. matches \subseteq pieces
  BY DEF kSubset
<1>6. IsFiniteSet(matches)
  BY <1>3, <1>5, FS_Subset
<1>7. AreMatches(matches, Len(Letter))
  BY <1>2, <1>4, <1>5 DEF AreMatches
<1> QED BY <1>2, <1>6, <1>7, IsCleanForAll

-----------------------------------------------------------------------------
\* The vocabulary filter.
\* What a fold over some of two numbers comes to, whichever it takes first.
LEMMA FoldOfTwo ==
    ASSUME NEW S \in SUBSET {0, 1}, NEW w \in [{0, 1} -> Nat]
    PROVE  LET Is(f) == f = [s \in SUBSET S |-> IF s = {} THEN 0
                                                ELSE f[s \ {CHOOSE x \in s : TRUE}] + w[CHOOSE x \in s : TRUE]]
               f == CHOOSE g : Is(g)
           IN  f[S] = (IF 0 \in S THEN w[0] ELSE 0) + (IF 1 \in S THEN w[1] ELSE 0)
<1> DEFINE Is(f) == f = [s \in SUBSET S |-> IF s = {} THEN 0
                                            ELSE f[s \ {CHOOSE x \in s : TRUE}] + w[CHOOSE x \in s : TRUE]]
           f == CHOOSE g : Is(g)
           Sum(s) == (IF 0 \in s THEN w[0] ELSE 0) + (IF 1 \in s THEN w[1] ELSE 0)
           sums == [s \in SUBSET S |-> Sum(s)]
<1>1. ASSUME NEW s \in SUBSET S, NEW x \in s PROVE Sum(s) = Sum(s \ {x}) + w[x]
  <2>1. CASE x = 0
    BY <2>1
  <2>2. CASE x = 1
    BY <2>2
  <2> QED BY <2>1, <2>2
<1>2. Sum({}) = 0
  OBVIOUS
<1> HIDE DEF Sum
<1>3. ASSUME NEW s \in SUBSET S, s # {} PROVE (CHOOSE x \in s : TRUE) \in s
  BY <1>3
<1>4. ASSUME NEW s \in SUBSET S
      PROVE  sums[s] = IF s = {} THEN 0 ELSE sums[s \ {CHOOSE x \in s : TRUE}] + w[CHOOSE x \in s : TRUE]
  <2> DEFINE y == CHOOSE x \in s : TRUE
  <2>1. CASE s = {}
    BY <1>2, <2>1
  <2>2. CASE s # {}
    <3>1. y \in s
      BY <1>3, <2>2
    <3> HIDE DEF y
    <3>2. Sum(s) = Sum(s \ {y}) + w[y] /\ s \ {y} \in SUBSET S
      BY <1>1, <3>1
    <3>3. sums[s] = sums[s \ {y}] + w[y]
      BY <3>2
    <3> HIDE DEF sums
    <3> QED BY <2>2, <3>3 DEF y
  <2> QED BY <2>1, <2>2
<1>5. Is(sums)
  <2>1. sums = [s \in SUBSET S |-> sums[s]]
    OBVIOUS
  <2>2. [s \in SUBSET S |-> sums[s]]
           = [s \in SUBSET S |-> IF s = {} THEN 0
                                 ELSE sums[s \ {CHOOSE x \in s : TRUE}] + w[CHOOSE x \in s : TRUE]]
    <3> HIDE DEF sums
    <3> QED BY <1>4
  <2> HIDE DEF sums
  <2> QED BY <2>1, <2>2
<1>6. Is(f)
  <2> HIDE DEF Is, sums
  <2> QED BY <1>5
<1> HIDE DEF f
<1>7. f[{}] = Sum({})
  <2>1. {} \in SUBSET S
    OBVIOUS
  <2> QED BY <1>2, <1>6, <2>1
<1>8. ASSUME NEW s \in SUBSET S, s # {}, \A x \in s : f[s \ {x}] = Sum(s \ {x}) PROVE f[s] = Sum(s)
  <2> DEFINE y == CHOOSE x \in s : TRUE
  <2>1. y \in s
    BY <1>3, <1>8
  <2>2. f[s] = f[s \ {y}] + w[y]
    BY <1>6, <1>8
  <2> HIDE DEF y
  <2> QED BY <1>1, <1>8, <2>1, <2>2
<1>9. ASSUME NEW z \in S PROVE f[{z}] = Sum({z})
  <2>1. {z} \in SUBSET S /\ {z} # {} /\ \A x \in {z} : {z} \ {x} = {}
    OBVIOUS
  <2> QED BY <1>7, <1>8, <2>1
<1>10. f[S] = Sum(S)
  <2>1. CASE S = {0, 1}
    <3>1. \A x \in S : \E z \in S : S \ {x} = {z}
      BY <2>1
    <3>2. S # {} /\ S \in SUBSET S
      BY <2>1
    <3> QED BY <1>8, <1>9, <3>1, <3>2
  <2>2. CASE S # {0, 1}
    <3>1. S = {} \/ \E z \in S : S = {z}
      BY <2>2
    <3> QED BY <1>7, <1>9, <3>1
  <2> QED BY <2>1, <2>2
<1> QED BY <1>10 DEF f, Sum

LEMMA PowersOfTwo == 2 ^ 0 = 1 /\ 2 ^ 1 = 2 /\ 2 ^ 2 = 4 /\ 2 ^ 3 = 8 /\ 2 ^ 4 = 16
  OBVIOUS

\* The value of a byte.
LEMMA NumberIs ==
    ASSUME NEW S \in SUBSET {0, 1}
    PROVE  Number(S) = (IF 0 \in S THEN 1 ELSE 0) + (IF 1 \in S THEN 2 ELSE 0)
<1> DEFINE w == [i \in {0, 1} |-> IF i = 0 THEN 1 ELSE 2]
<1>1. w \in [{0, 1} -> Nat] /\ w[0] = 1 /\ w[1] = 2
  OBVIOUS
<1>2. \A i \in {0, 1} : w[i] = 2 ^ i
  BY PowersOfTwo
<1> HIDE DEF w
<1> DEFINE Is(f) == f = [s \in SUBSET S |-> IF s = {} THEN 0
                                            ELSE f[s \ {CHOOSE x \in s : TRUE}] + w[CHOOSE x \in s : TRUE]]
           Was(f) == f = [s \in SUBSET S |-> IF s = {} THEN 0
                                             ELSE f[s \ {CHOOSE x \in s : TRUE}] + 2 ^ (CHOOSE x \in s : TRUE)]
<1>3. ASSUME NEW f PROVE Is(f) <=> Was(f)
  <2>1. \A s \in SUBSET S : s # {} => w[CHOOSE x \in s : TRUE] = 2 ^ (CHOOSE x \in s : TRUE)
    <3>1. \A s \in SUBSET S : s # {} => (CHOOSE x \in s : TRUE) \in {0, 1}
      OBVIOUS
    <3> QED BY <1>2, <3>1
  <2>2. [s \in SUBSET S |-> IF s = {} THEN 0 ELSE f[s \ {CHOOSE x \in s : TRUE}] + w[CHOOSE x \in s : TRUE]]
           = [s \in SUBSET S |-> IF s = {} THEN 0 ELSE f[s \ {CHOOSE x \in s : TRUE}] + 2 ^ (CHOOSE x \in s : TRUE)]
    BY <2>1
  <2> QED BY <2>2
<1>4. (CHOOSE f : Is(f)) = (CHOOSE f : Was(f))
  <2> HIDE DEF Is, Was
  <2> QED BY <1>3
<1>5. Number(S) = (CHOOSE f : Was(f))[S]
  BY DEF Number, FoldSet, MapThenFoldSet
<1>6. (CHOOSE f : Is(f))[S] = (IF 0 \in S THEN w[0] ELSE 0) + (IF 1 \in S THEN w[1] ELSE 0)
  BY <1>1, FoldOfTwo
<1> HIDE DEF Is, Was
<1> QED BY <1>1, <1>4, <1>5, <1>6

\* The value of a bit.
Bit(bits, i) == IF i \in bits THEN 1 ELSE 0

\* A byte's value, of those there are and those there are not.
LEMMA BytesAre ==
    ASSUME NEW size \in Nat, NEW bits \in SUBSET (0 .. size - 1), NEW j \in Nat
    PROVE  /\ DOMAIN Bytes(size, bits) = 0 .. size \div 2
           /\ (IF j \in 0 .. size \div 2 THEN Bytes(size, bits)[j] ELSE 0) = Bit(bits, 2 * j) + 2 * Bit(bits, 2 * j + 1)
<1> DEFINE S == {bit \in 0 .. ByteBits - 1 : j * ByteBits + bit \in bits}
<1>1. DOMAIN Bytes(size, bits) = 0 .. size \div 2
  BY DEF Bytes, ByteBits
<1>2. CASE j \in 0 .. size \div 2
  <2>1. 0 .. ByteBits - 1 = {0, 1} /\ j * ByteBits = 2 * j
    BY DEF ByteBits
  <2>2. S \in SUBSET {0, 1} /\ (0 \in S <=> 2 * j \in bits) /\ (1 \in S <=> 2 * j + 1 \in bits)
    BY <2>1
  <2>3. Bytes(size, bits)[j] = Number(S)
    BY <1>2 DEF Bytes, ByteBits
  <2> HIDE DEF S
  <2>4. Number(S) = (IF 0 \in S THEN 1 ELSE 0) + (IF 1 \in S THEN 2 ELSE 0)
    BY <2>2, NumberIs
  <2> QED BY <1>1, <1>2, <2>2, <2>3, <2>4 DEF Bit
<1>3. CASE j \notin 0 .. size \div 2
  <2>1. 2 * j >= size
    BY <1>3
  <2>2. 2 * j \notin bits /\ 2 * j + 1 \notin bits
    BY <2>1
  <2> QED BY <1>1, <1>3, <2>2 DEF Bit
<1> QED BY <1>1, <1>2, <1>3

\* The number a block is kept as.
LEMMA BlocksAre ==
    ASSUME NEW size \in Nat \ {0}, NEW bits \in SUBSET (0 .. size - 1)
    PROVE  LET blocks == BloomBlocks(Bytes(size, bits))
           IN  /\ DOMAIN blocks = 0 .. (size \div 2) \div 2
               /\ \A b \in DOMAIN blocks :
                     blocks[b] = Signed(Bit(bits, 4 * b) + 2 * Bit(bits, 4 * b + 1)
                                        + 4 * Bit(bits, 4 * b + 2) + 8 * Bit(bits, 4 * b + 3))
<1> DEFINE bytes == Bytes(size, bits)
           byte(i) == IF i \in DOMAIN bytes THEN bytes[i] ELSE 0
           blocks == BloomBlocks(bytes)
           width == BlockBits \div ByteBits
           Sum(b) == FoldSet(LAMBDA i, sum : sum + byte(b * width + i) * 2 ^ (i * ByteBits), 0, 0 .. width - 1)
<1>1. DOMAIN bytes = 0 .. size \div 2
  BY BytesAre
<1>2. Cardinality(DOMAIN bytes) - 1 = size \div 2
  <2> DEFINE n == size \div 2
  <2>1. n \in Nat
    OBVIOUS
  <2> HIDE DEF n
  <2>2. Cardinality(0 .. n) = IF 0 > n THEN 0 ELSE n - 0 + 1
    BY <2>1, FS_Interval
  <2> QED BY <1>1, <2>1, <2>2 DEF n
<1>3. width = 2 /\ ByteBits = 2
  BY DEF BlockBits, ByteBits
<1>4. blocks = [b \in 0 .. (Cardinality(DOMAIN bytes) - 1) \div width |-> Signed(Sum(b))]
  BY DEF BloomBlocks
<1> HIDE DEF width
<1>5. ASSUME NEW b \in Nat PROVE Sum(b) = byte(b * 2) + 4 * byte(b * 2 + 1)
  <2> DEFINE w == [i \in {0, 1} |-> byte(b * 2 + i) * 2 ^ (i * 2)]
             S == 0 .. width - 1
  <2>1. \A j \in Nat : byte(j) \in Nat
    <3>1. ASSUME NEW j \in Nat PROVE byte(j) = Bit(bits, 2 * j) + 2 * Bit(bits, 2 * j + 1)
      <4>1. size \in Nat
        OBVIOUS
      <4> QED BY <1>1, <4>1, BytesAre
    <3>2. \A i \in Nat : Bit(bits, i) \in Nat
      BY DEF Bit
    <3>3. ASSUME NEW j \in Nat PROVE 2 * j \in Nat /\ 2 * j + 1 \in Nat
      OBVIOUS
    <3> HIDE DEF byte
    <3> QED BY <3>1, <3>2, <3>3
  <2> HIDE DEF byte
  <2>2. w \in [{0, 1} -> Nat] /\ w[0] = byte(b * 2) /\ w[1] = 4 * byte(b * 2 + 1)
    <3>1. b * 2 + 0 = b * 2 /\ 0 * 2 = 0 /\ 1 * 2 = 2 /\ b * 2 \in Nat /\ b * 2 + 1 \in Nat
      OBVIOUS
    <3>2. w[0] = byte(b * 2) /\ w[1] = 4 * byte(b * 2 + 1)
      BY <2>1, <3>1, PowersOfTwo
    <3>3. w[0] \in Nat /\ w[1] \in Nat
      BY <2>1, <3>1, <3>2
    <3>4. w = [i \in {0, 1} |-> w[i]]
      OBVIOUS
    <3> HIDE DEF w
    <3> QED BY <3>2, <3>3, <3>4
  <2>3. S = {0, 1} /\ S \in SUBSET {0, 1}
    BY <1>3
  <2> HIDE DEF S
  <2> DEFINE Is(f) == f = [s \in SUBSET S |-> IF s = {} THEN 0
                                              ELSE f[s \ {CHOOSE x \in s : TRUE}] + w[CHOOSE x \in s : TRUE]]
             Was(f) == f = [s \in SUBSET S |-> IF s = {} THEN 0
                                               ELSE f[s \ {CHOOSE x \in s : TRUE}]
                                                    + byte(b * width + (CHOOSE x \in s : TRUE))
                                                      * 2 ^ ((CHOOSE x \in s : TRUE) * ByteBits)]
  <2>4. ASSUME NEW f PROVE Is(f) <=> Was(f)
    <3>1. \A i \in {0, 1} : w[i] = byte(b * width + i) * 2 ^ (i * ByteBits)
      BY <1>3
    <3> HIDE DEF w
    <3>2. \A s \in SUBSET S : s # {} => (CHOOSE x \in s : TRUE) \in {0, 1}
      BY <2>3
    <3>3. \A s \in SUBSET S : s # {} =>
              w[CHOOSE x \in s : TRUE] = byte(b * width + (CHOOSE x \in s : TRUE))
                                        * 2 ^ ((CHOOSE x \in s : TRUE) * ByteBits)
      BY <3>1, <3>2
    <3> QED BY <3>3
  <2>5. (CHOOSE f : Is(f)) = (CHOOSE f : Was(f))
    <3> HIDE DEF Is, Was
    <3> QED BY <2>4
  <2>6. Sum(b) = (CHOOSE f : Was(f))[S]
    BY DEF FoldSet, MapThenFoldSet, S
  <2> HIDE DEF w, Sum
  <2>7. (CHOOSE f : Is(f))[S] = (IF 0 \in S THEN w[0] ELSE 0) + (IF 1 \in S THEN w[1] ELSE 0)
    BY <2>2, <2>3, FoldOfTwo
  <2> HIDE DEF Is, Was
  <2> QED BY <2>2, <2>3, <2>5, <2>6, <2>7
<1>6. ASSUME NEW b \in Nat
      PROVE  Sum(b) = Bit(bits, 4 * b) + 2 * Bit(bits, 4 * b + 1) + 4 * Bit(bits, 4 * b + 2) + 8 * Bit(bits, 4 * b + 3)
  <2>1. ASSUME NEW j \in Nat PROVE byte(j) = Bit(bits, 2 * j) + 2 * Bit(bits, 2 * j + 1)
    BY <1>1, BytesAre
  <2>2. b * 2 \in Nat /\ b * 2 + 1 \in Nat
    OBVIOUS
  <2>3. /\ 2 * (b * 2) = 4 * b /\ 2 * (b * 2) + 1 = 4 * b + 1
        /\ 2 * (b * 2 + 1) = 4 * b + 2 /\ 2 * (b * 2 + 1) + 1 = 4 * b + 3
    OBVIOUS
  <2> HIDE DEF byte, Sum
  <2>4. byte(b * 2) = Bit(bits, 4 * b) + 2 * Bit(bits, 4 * b + 1)
    BY <2>1, <2>2, <2>3
  <2>5. byte(b * 2 + 1) = Bit(bits, 4 * b + 2) + 2 * Bit(bits, 4 * b + 3)
    BY <2>1, <2>2, <2>3
  <2>6. \A i \in Nat : Bit(bits, i) \in Nat
    BY DEF Bit
  <2> QED BY <1>5, <2>4, <2>5, <2>6
<1>7. \A b \in 0 .. (size \div 2) \div 2 : b \in Nat
  OBVIOUS
<1> HIDE DEF Sum, blocks
<1>8. DOMAIN blocks = 0 .. (size \div 2) \div 2 /\ \A b \in DOMAIN blocks : blocks[b] = Signed(Sum(b))
  BY <1>2, <1>3, <1>4
<1> QED BY <1>6, <1>7, <1>8 DEF blocks

\* A bit is read from the signed number as it was put in.
LEMMA BitsAreRead ==
    ASSUME NEW e0 \in {0, 1}, NEW e1 \in {0, 1}, NEW e2 \in {0, 1}, NEW e3 \in {0, 1}
    PROVE  LET n == Signed(e0 + 2 * e1 + 4 * e2 + 8 * e3)
           IN  Masked(n, 0) = e0 /\ Masked(n, 1) = e1 /\ Masked(n, 2) = e2 /\ Masked(n, 3) = e3
<1> DEFINE m == e0 + 2 * e1 + 4 * e2 + 8 * e3
           n == IF m >= 8 THEN m - 16 ELSE m
<1>1. n = e0 + 2 * e1 + 4 * e2 - 8 * e3
  BY e0 \in {0, 1}, e1 \in {0, 1}, e2 \in {0, 1}, e3 \in {0, 1}
<1>2. Signed(m) = n
  BY PowersOfTwo DEF Signed, BlockBits
<1> HIDE DEF n, m
<1>3. (n \div 1) % 2 = e0 /\ (n \div 2) % 2 = e1 /\ (n \div 4) % 2 = e2 /\ (n \div 8) % 2 = e3
  BY <1>1
<1> QED BY <1>2, <1>3, PowersOfTwo DEF Masked, m

\* Through bytes and signed blocks, a filter of any size passes a position
\* exactly if it was set (search/bloom_filter.py, sqlite_storage.py).
THEOREM FilterLosesNothingForAll ==
    ASSUME NEW size \in Nat \ {0}, NEW bits \in SUBSET (0 .. size - 1)
    PROVE  FilterLosesNothing(size, bits)
<1> DEFINE blocks == BloomBlocks(Bytes(size, bits))
<1>1. ASSUME NEW position \in 0 .. size - 1 PROVE Passes(blocks, position) <=> position \in bits
  <2> DEFINE b == position \div 4
             r == position % 4
  <2>1. b \in Nat /\ r \in {0, 1, 2, 3} /\ position = 4 * b + r /\ b \in 0 .. (size \div 2) \div 2
    OBVIOUS
  <2>2. Passes(blocks, position) <=> b \in DOMAIN blocks /\ Masked(blocks[b], r) # 0
    BY DEF Passes, BlockBits
  <2> HIDE DEF b, r
  <2> DEFINE e(k) == Bit(bits, 4 * b + k)
  <2>3. /\ b \in DOMAIN blocks
        /\ blocks[b] = Signed(Bit(bits, 4 * b) + 2 * e(1) + 4 * e(2) + 8 * e(3))
    BY <2>1, BlocksAre
  <2>4. 4 * b + 0 = 4 * b
    BY <2>1
  <2>5. \A k \in {0, 1, 2, 3} : e(k) \in {0, 1} /\ (e(k) # 0 <=> 4 * b + k \in bits)
    BY DEF Bit
  <2> HIDE DEF e, blocks
  <2>6. blocks[b] = Signed(e(0) + 2 * e(1) + 4 * e(2) + 8 * e(3))
    BY <2>3, <2>4 DEF e
  <2>7. /\ Masked(blocks[b], 0) = e(0) /\ Masked(blocks[b], 1) = e(1)
        /\ Masked(blocks[b], 2) = e(2) /\ Masked(blocks[b], 3) = e(3)
    BY <2>5, <2>6, BitsAreRead
  <2>8. Masked(blocks[b], r) = e(r)
    BY <2>1, <2>7
  <2> QED BY <2>1, <2>2, <2>3, <2>5, <2>8
<1> QED BY <1>1 DEF FilterLosesNothing

LEMMA FiltersNeverLose == FiltersLoseNothing
  BY FilterLosesNothingForAll DEF FiltersLoseNothing

=============================================================================
