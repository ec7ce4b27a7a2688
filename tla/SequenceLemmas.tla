--------------------------- MODULE SequenceLemmas ---------------------------
(***************************************************************************)
(* Facts about the sequence and set operators the models are built from,   *)
(* shared by the proofs: the list operations of an LRU, least and greatest *)
(* elements, sums, sorted and joined sequences, ascending orders, tables   *)
(* and remainders.                                                         *)
(***************************************************************************)
EXTENDS SequencesExt, SequenceTheorems, FiniteSetTheorems, WellFoundedInduction, TLAPS

(* Dropping the last element keeps the others in place (LruCache::pop_lru). *)
LEMMA FrontProps ==
    ASSUME NEW S, NEW q \in Seq(S), Len(q) >= 1
    PROVE  /\ Front(q) \in Seq(S)
           /\ Len(Front(q)) = Len(q) - 1
           /\ \A i \in 1..(Len(q) - 1) : Front(q)[i] = q[i]
           /\ Len(q) \in 1..Len(q) /\ Last(q) = q[Len(q)] /\ Last(q) \in S
<1> DEFINE n == Len(q)
           f == SubSeq(q, 1, n - 1)
<1>1. n \in Nat /\ n >= 1
  BY LenProperties
<1>2. n \in 1..n /\ \A i \in 1..n : q[i] \in S
  BY <1>1, ElementOfSeq
<1> HIDE DEF n
<1>3. /\ f \in Seq(S)
      /\ Len(f) = IF 1 <= n - 1 THEN n - 1 - 1 + 1 ELSE 0
      /\ \A i \in 1..(n - 1 - 1 + 1) : f[i] = q[1 + i - 1]
  <2>1. 1 \in Int /\ n - 1 \in Int /\ \A i \in 1..(n - 1) : q[i] \in S
    BY <1>1, <1>2
  <2> QED BY <2>1, SubSeqProperties
<1> HIDE DEF f
<1>4. Len(f) = n - 1
  BY <1>1, <1>3
<1>5. \A i \in 1..(n - 1) : f[i] = q[i]
  BY <1>1, <1>3
<1> QED BY <1>2, <1>3, <1>4, <1>5 DEF f, n, Front, Last

(* Removing one position shifts the later elements down (LruCache::pop). *)
LEMMA RemoveProps ==
    ASSUME NEW S, NEW q \in Seq(S), NEW i \in 1..Len(q)
    PROVE  /\ RemoveAt(q, i) \in Seq(S)
           /\ Len(RemoveAt(q, i)) = Len(q) - 1
           /\ \A j \in 1..(Len(q) - 1) :
                RemoveAt(q, i)[j] = IF j < i THEN q[j] ELSE q[j + 1]
<1> DEFINE a == SubSeq(q, 1, i - 1)
           b == SubSeq(q, i + 1, Len(q))
<1>1. Len(q) \in Nat /\ i \in Nat /\ 1 <= i /\ i <= Len(q)
  BY LenProperties
<1>2. a \in Seq(S) /\ Len(a) = i - 1 /\ \A j \in 1..(i - 1) : a[j] = q[j]
  <2>1. 1 \in Int /\ i - 1 \in Int /\ \A j \in 1..(i - 1) : q[j] \in S
    BY <1>1, ElementOfSeq
  <2>2. /\ a \in Seq(S)
        /\ Len(a) = IF 1 <= i - 1 THEN i - 1 - 1 + 1 ELSE 0
        /\ \A j \in 1..(i - 1 - 1 + 1) : a[j] = q[1 + j - 1]
    BY <2>1, SubSeqProperties
  <2> HIDE DEF a
  <2>3. Len(a) = i - 1
    <3>1. CASE i = 1
      BY <3>1, <2>2
    <3>2. CASE i > 1
      BY <3>2, <1>1, <2>2
    <3> QED BY <1>1, <3>1, <3>2
  <2> QED BY <1>1, <2>2, <2>3
<1>3. /\ b \in Seq(S) /\ Len(b) = Len(q) - i
      /\ \A j \in 1..(Len(q) - i) : b[j] = q[i + j]
  <2>1. i + 1 \in Int /\ Len(q) \in Int /\ \A j \in (i + 1)..Len(q) : q[j] \in S
    BY <1>1, ElementOfSeq
  <2>2. /\ b \in Seq(S)
        /\ Len(b) = IF i + 1 <= Len(q) THEN Len(q) - (i + 1) + 1 ELSE 0
        /\ \A j \in 1..(Len(q) - (i + 1) + 1) : b[j] = q[(i + 1) + j - 1]
    BY <2>1, SubSeqProperties
  <2> HIDE DEF b
  <2>3. Len(b) = Len(q) - i
    <3>1. CASE i = Len(q)
      BY <3>1, <1>1, <2>2
    <3>2. CASE i < Len(q)
      BY <3>2, <1>1, <2>2
    <3> QED BY <1>1, <3>1, <3>2
  <2> QED BY <1>1, <2>2, <2>3
<1> HIDE DEF a, b
<1>4. /\ a \o b \in Seq(S)
      /\ Len(a \o b) = Len(a) + Len(b)
      /\ \A j \in 1..(Len(a) + Len(b)) :
            (a \o b)[j] = IF j <= Len(a) THEN a[j] ELSE b[j - Len(a)]
  BY <1>2, <1>3, ConcatProperties
<1>5. Len(a \o b) = Len(q) - 1
  BY <1>1, <1>2, <1>3, <1>4
<1>6. ASSUME NEW j \in 1..(Len(q) - 1)
      PROVE  (a \o b)[j] = IF j < i THEN q[j] ELSE q[j + 1]
  <2>1. j \in 1..(Len(a) + Len(b))
    BY <1>1, <1>2, <1>3
  <2>2. CASE j < i
    BY <2>1, <2>2, <1>1, <1>2, <1>4
  <2>3. CASE ~(j < i)
    <3>1. j - Len(a) \in 1..(Len(q) - i) /\ i + (j - Len(a)) = j + 1 /\ ~(j <= Len(a))
      BY <2>3, <1>1, <1>2
    <3> QED BY <3>1, <2>1, <2>3, <1>3, <1>4
  <2> QED BY <2>2, <2>3
<1> QED BY <1>4, <1>5, <1>6 DEF a, b, RemoveAt

(* Putting an element in front shifts the others up. *)
LEMMA ConsProps ==
    ASSUME NEW S, NEW q \in Seq(S), NEW r \in S
    PROVE  /\ <<r>> \o q \in Seq(S)
           /\ Len(<<r>> \o q) = Len(q) + 1
           /\ (<<r>> \o q)[1] = r
           /\ \A j \in 2..(Len(q) + 1) : (<<r>> \o q)[j] = q[j - 1]
<1>1. <<r>> \in Seq(S) /\ Len(<<r>>) = 1 /\ <<r>>[1] = r
  OBVIOUS
<1> QED BY <1>1, ConcatProperties, LenProperties

-----------------------------------------------------------------------------
(* Least and greatest elements *)

(* A non-empty set of naturals has a least element, which Min chooses. *)
LEMMA MinProps ==
    ASSUME NEW S \in SUBSET Nat, S # {}
    PROVE  Min(S) \in S /\ \A y \in S : Min(S) <= y
<1> DEFINE R == {ss \in Nat \X Nat : ss[1] < ss[2]}
<1>1. IsWellFoundedOn(R, Nat)
  BY NatLessThanWellFounded DEF OpToRel
<1>2. \A x, y \in S : y < x => <<y, x>> \in R
  OBVIOUS
<1> HIDE DEF R
<1>3. PICK x \in S : \A y \in S : ~(<<y, x>> \in R)
  BY <1>1, WFMin
<1>4. \A y \in S : ~(y < x)
  BY <1>2, <1>3, Zenon
<1>5. \A y \in S : x <= y
  BY <1>4
<1> QED BY <1>5 DEF Min

(* The values f takes on 1..n, and 0, have a greatest element, which Max   *)
(* chooses: a least n without one would contradict n - 1.                  *)
LEMMA MaxProps ==
    ASSUME NEW n \in Nat, NEW f, \A i \in 1..n : f[i] \in Nat
    PROVE  LET S == {0} \cup {f[i] : i \in 1..n}
           IN  Max(S) \in Nat /\ \A y \in S : y <= Max(S)
<1> DEFINE S(k) == {0} \cup {f[i] : i \in 1..k}
           Top(k) == \E x \in S(k) : \A y \in S(k) : x >= y
           Bad == {j \in 0..n : ~Top(j)}
<1>1. ASSUME NEW k \in 1..n PROVE S(k) = S(k - 1) \cup {f[k]}
  <2>1. 1..k = 1..(k - 1) \cup {k}
    OBVIOUS
  <2> HIDE DEF S
  <2>2. S(k) = {0} \cup {f[i] : i \in 1..(k - 1) \cup {k}}
    BY <2>1 DEF S
  <2> QED BY <2>2, Zenon DEF S
<1>2. \A k \in 0..n : \A y \in S(k) : y \in Nat
  OBVIOUS
<1>3. Top(0)
  <2>1. S(0) = {0}
    OBVIOUS
  <2> QED BY <2>1
<1> HIDE DEF S
<1>4. ASSUME NEW k \in 1..n, Top(k - 1) PROVE Top(k)
  <2>1. PICK x \in S(k - 1) : \A y \in S(k - 1) : x >= y
    BY <1>4
  <2>2. x \in Nat /\ f[k] \in Nat /\ \A y \in S(k - 1) : y \in Nat
    BY <1>2
  <2>3. CASE x >= f[k]
    BY <1>1, <2>1, <2>3
  <2>4. CASE f[k] >= x
    BY <1>1, <2>1, <2>2, <2>4
  <2> QED BY <2>2, <2>3, <2>4
<1> HIDE DEF Top
<1>5. Bad = {}
  <2> SUFFICES ASSUME Bad # {} PROVE FALSE
    OBVIOUS
  <2> DEFINE k == Min(Bad)
  <2>1. k \in Bad /\ \A y \in Bad : k <= y
    <3>1. Bad \in SUBSET Nat
      OBVIOUS
    <3> HIDE DEF Bad
    <3> QED BY <3>1, MinProps
  <2> HIDE DEF k
  <2>2. k \in 1..n /\ ~Top(k)
    BY <1>3, <2>1
  <2>3. k - 1 \in 0..n /\ k - 1 \notin Bad
    BY <2>1, <2>2
  <2> QED BY <1>4, <2>2, <2>3
<1>6. \E x \in S(n) : \A y \in S(n) : x >= y
  BY <1>5 DEF Top
<1>7. Max(S(n)) \in S(n) /\ \A y \in S(n) : Max(S(n)) >= y
  BY <1>6 DEF Max
<1>8. Max(S(n)) \in Nat /\ \A y \in S(n) : y <= Max(S(n))
  BY <1>2, <1>7
<1> QED BY <1>8 DEF S
-----------------------------------------------------------------------------
(* Sums over finite sets.  SumFunctionOnSet takes the elements of a set in *)
(* an order that CHOOSE decides; these lemmas make the order irrelevant.   *)

Chosen(s) == CHOOSE x \in s : TRUE
Without(s) == s \ {Chosen(s)}
SumStep(f, g, s) == IF s = {} THEN 0 ELSE f[Chosen(s)] + g[Without(s)]

(* g adds up f over every subset of T. *)
Sums(f, T, g) == g = [s \in SUBSET T |-> SumStep(f, g, s)]

(* A subset without one of its elements has one element less.              *)
LEMMA OneLess ==
    ASSUME NEW T, IsFiniteSet(T), NEW s \in SUBSET T
    PROVE  /\ IsFiniteSet(s) /\ Cardinality(s) \in Nat /\ Cardinality(s) <= Cardinality(T)
           /\ Cardinality(s) = 0 <=> s = {}
           /\ s # {} => Chosen(s) \in s
           /\ \A y \in s : s \ {y} \in SUBSET T /\ Cardinality(s \ {y}) = Cardinality(s) - 1
<1>1. IsFiniteSet(s) /\ Cardinality(s) <= Cardinality(T)
  BY FS_Subset
<1>2. Cardinality(s) \in Nat /\ (Cardinality(s) = 0 <=> s = {})
  BY <1>1, FS_CardinalityType, FS_EmptySet
<1>3. \A y \in s : Cardinality(s \ {y}) = Cardinality(s) - 1
  BY <1>1, FS_RemoveElement
<1>4. s # {} => Chosen(s) \in s
  BY DEF Chosen
<1> QED BY <1>1, <1>2, <1>3, <1>4

(* Such a g exists: it is built from the small subsets to the large ones,  *)
(* and a least size at which that fails contradicts the one below it.      *)
LEMMA SumsExist ==
    ASSUME NEW T, IsFiniteSet(T), NEW f, \A x \in T : f[x] \in Nat
    PROVE  \E g \in [SUBSET T -> Nat] : Sums(f, T, g)
<1> DEFINE n == Cardinality(T)
           UpTo(k, g) == \A s \in SUBSET T : Cardinality(s) <= k => g[s] = SumStep(f, g, s)
           Good(k) == \E g \in [SUBSET T -> Nat] : UpTo(k, g)
           Bad == {k \in 0..n : ~Good(k)}
<1>1. n \in Nat
  BY FS_CardinalityType
<1>2. Good(0)
  <2> DEFINE g == [s \in SUBSET T |-> 0]
  <2>1. g \in [SUBSET T -> Nat]
    OBVIOUS
  <2>2. \A s \in SUBSET T : Cardinality(s) <= 0 => s = {}
    BY OneLess
  <2>3. UpTo(0, g)
    BY <2>2 DEF SumStep
  <2> QED BY <2>1, <2>3
<1>3. ASSUME NEW k \in Nat, Good(k) PROVE Good(k + 1)
  <2>1. PICK g \in [SUBSET T -> Nat] : UpTo(k, g)
    BY <1>3
  <2> DEFINE h == [s \in SUBSET T |-> IF Cardinality(s) = k + 1 THEN SumStep(f, g, s) ELSE g[s]]
  <2>2. \A s \in SUBSET T : s # {} =>
           /\ Chosen(s) \in T /\ Without(s) \in SUBSET T
           /\ Cardinality(s) \in Nat /\ Cardinality(Without(s)) = Cardinality(s) - 1
    BY OneLess DEF Without
  <2>3. \A s \in SUBSET T : SumStep(f, g, s) \in Nat
    BY <2>2 DEF SumStep
  <2>4. h \in [SUBSET T -> Nat]
    BY <2>3
  <2>5. ASSUME NEW s \in SUBSET T, Cardinality(s) <= k + 1
        PROVE  h[s] = SumStep(f, h, s)
    <3>1. CASE s = {}
      <4>1. Cardinality(s) = 0
        BY <3>1, OneLess
      <4>2. h[s] = g[s] /\ g[s] = SumStep(f, g, s)
        BY <2>1, <4>1
      <4> QED BY <3>1, <4>2 DEF SumStep
    <3>2. CASE s # {}
      <4>1. h[Without(s)] = g[Without(s)]
        BY <2>2, <2>5, <3>2
      <4>2. SumStep(f, h, s) = SumStep(f, g, s)
        BY <4>1, <3>2 DEF SumStep
      <4>3. h[s] = SumStep(f, g, s)
        <5>1. Cardinality(s) \in Nat
          BY <2>2, <3>2
        <5>2. CASE Cardinality(s) = k + 1
          BY <5>2
        <5>3. CASE Cardinality(s) <= k
          BY <2>1, <5>1, <5>3
        <5> QED BY <5>1, <5>2, <5>3, <2>5
      <4> QED BY <4>2, <4>3
    <3> QED BY <3>1, <3>2
  <2>6. UpTo(k + 1, h)
    BY <2>5
  <2> HIDE DEF h
  <2> QED BY <2>4, <2>6
<1> HIDE DEF Good
<1>4. Bad = {}
  <2> SUFFICES ASSUME Bad # {} PROVE FALSE
    OBVIOUS
  <2> DEFINE k == Min(Bad)
  <2>1. k \in Bad /\ \A y \in Bad : k <= y
    <3>1. Bad \in SUBSET Nat
      OBVIOUS
    <3> HIDE DEF Bad
    <3> QED BY <3>1, MinProps
  <2> HIDE DEF k
  <2>2. k \in 1..n /\ ~Good(k)
    BY <1>1, <1>2, <2>1
  <2>3. k - 1 \in Nat /\ k - 1 \in 0..n /\ k - 1 \notin Bad
    BY <1>1, <2>1, <2>2
  <2>4. Good(k - 1) /\ (k - 1) + 1 = k
    BY <2>2, <2>3
  <2> QED BY <1>3, <2>2, <2>3, <2>4
<1>5. PICK g \in [SUBSET T -> Nat] : UpTo(n, g)
  <2>1. n \in 0..n
    BY <1>1
  <2>2. Good(n)
    <3> HIDE DEF n
    <3> QED BY <1>4, <2>1
  <2> QED BY <2>2 DEF Good
<1>6. \A s \in SUBSET T : g[s] = SumStep(f, g, s)
  BY <1>5, OneLess
<1>7. g = [s \in SUBSET T |-> SumStep(f, g, s)]
  BY <1>6
<1> QED BY <1>7 DEF Sums

(* SumFunctionOnSet is one of them, at T itself.                           *)
LEMMA SumIsOne ==
    ASSUME NEW T, IsFiniteSet(T), NEW f, \A x \in T : f[x] \in Nat
    PROVE  \E g : Sums(f, T, g) /\ SumFunctionOnSet(f, T) = g[T]
<1> DEFINE g == CHOOSE h : Sums(f, T, h)
<1>1. Sums(f, T, g)
  BY SumsExist
<1>2. SumFunctionOnSet(f, T) = g[T]
  BY DEF SumFunctionOnSet, FoldFunctionOnSet, MapThenFoldSet, Sums, SumStep, Chosen, Without
<1> QED BY <1>1, <1>2

(* Two of them agree where both are defined.                               *)
LEMMA SumsAgree ==
    ASSUME NEW T, NEW U, IsFiniteSet(T), IsFiniteSet(U), NEW f, NEW g, NEW h,
           Sums(f, T, g), Sums(f, U, h), NEW s \in SUBSET (T \cap U)
    PROVE  g[s] = h[s]
<1> DEFINE Sizes == {Cardinality(r) : r \in {q \in SUBSET (T \cap U) : g[q] # h[q]}}
<1>1. Sizes \in SUBSET Nat
  BY OneLess
<1>2. ASSUME Sizes # {} PROVE FALSE
  <2>1. Min(Sizes) \in Sizes /\ \A y \in Sizes : Min(Sizes) <= y
    BY <1>1, <1>2, MinProps
  <2>2. PICK r \in SUBSET (T \cap U) : g[r] # h[r] /\ Cardinality(r) = Min(Sizes)
    BY <2>1
  <2>3. r \in SUBSET T /\ r \in SUBSET U
    OBVIOUS
  <2>4. g[r] = SumStep(f, g, r) /\ h[r] = SumStep(f, h, r)
    BY <2>3 DEF Sums
  <2>5. r # {}
    BY <2>2, <2>4 DEF SumStep
  <2>6. Without(r) \in SUBSET (T \cap U) /\ Cardinality(Without(r)) = Cardinality(r) - 1
        /\ Cardinality(r) \in Nat
    BY <2>3, <2>5, OneLess DEF Without
  <2>7. g[Without(r)] # h[Without(r)]
    BY <2>2, <2>4, <2>5 DEF SumStep
  <2>8. Cardinality(r) - 1 \in Sizes
    BY <2>6, <2>7
  <2> HIDE DEF Sizes
  <2>9. Cardinality(r) <= Cardinality(r) - 1
    BY <2>1, <2>2, <2>8
  <2> QED BY <2>6, <2>9
<1> QED BY <1>2

(* Any element may be taken first.                                         *)
LEMMA SumsAnyFirst ==
    ASSUME NEW T, IsFiniteSet(T), NEW f, \A x \in T : f[x] \in Nat,
           NEW g, Sums(f, T, g)
    PROVE  \A s \in SUBSET T : g[s] \in Nat /\ \A y \in s : g[s] = f[y] + g[s \ {y}]
<1>1. g \in [SUBSET T -> Nat]
  <2>1. PICK h \in [SUBSET T -> Nat] : Sums(f, T, h)
    BY SumsExist
  <2>2. \A s \in SUBSET T : g[s] = h[s]
    BY <2>1, SumsAgree
  <2>3. DOMAIN g = SUBSET T /\ g = [s \in DOMAIN g |-> g[s]]
    BY DEF Sums
  <2> QED BY <2>1, <2>2, <2>3
<1> DEFINE Wrong(s) == \E y \in s : g[s] # f[y] + g[s \ {y}]
           Sizes == {Cardinality(s) : s \in {q \in SUBSET T : Wrong(q)}}
<1>2. Sizes \in SUBSET Nat
  <2> HIDE DEF Wrong
  <2> QED BY OneLess
<1>3. ASSUME Sizes # {} PROVE FALSE
  <2>1. Min(Sizes) \in Sizes /\ \A n \in Sizes : Min(Sizes) <= n
    <3> HIDE DEF Sizes
    <3> QED BY <1>2, <1>3, MinProps
  <2>2. PICK s \in SUBSET T : Wrong(s) /\ Cardinality(s) = Min(Sizes)
    <3> HIDE DEF Wrong
    <3> QED BY <2>1
  <2>3. PICK y \in s : g[s] # f[y] + g[s \ {y}]
    BY <2>2
  <2> DEFINE x == Chosen(s)
  <2>4. g[s] = f[x] + g[s \ {x}] /\ x \in s
    <3>1. g[s] = SumStep(f, g, s)
      BY DEF Sums
    <3>2. Chosen(s) \in s
      BY <2>3, OneLess
    <3> QED BY <3>1, <3>2, <2>3 DEF SumStep, Without
  <2> HIDE DEF x
  <2>5. x # y
    BY <2>3, <2>4
  <2>6. Cardinality(s) \in Nat /\ Cardinality(s \ {x}) = Cardinality(s) - 1
        /\ Cardinality(s \ {y}) = Cardinality(s) - 1
    BY <2>4, OneLess
  <2>7. ASSUME NEW z \in s PROVE ~Wrong(s \ {z})
    <3>1. s \ {z} \in SUBSET T /\ Cardinality(s \ {z}) = Cardinality(s) - 1
      BY OneLess
    <3> HIDE DEF Wrong
    <3>2. Wrong(s \ {z}) => Cardinality(s) - 1 \in Sizes
      BY <3>1
    <3> HIDE DEF Sizes
    <3>3. Wrong(s \ {z}) => Cardinality(s) <= Cardinality(s) - 1
      BY <3>2, <2>1, <2>2
    <3> QED BY <3>3, <2>6
  <2>8. g[s \ {x}] = f[y] + g[(s \ {x}) \ {y}]
    BY <2>4, <2>5, <2>7
  <2>9. g[s \ {y}] = f[x] + g[(s \ {y}) \ {x}]
    BY <2>4, <2>5, <2>7
  <2>10. (s \ {x}) \ {y} = (s \ {y}) \ {x} /\ (s \ {x}) \ {y} \in SUBSET T
    OBVIOUS
  <2> DEFINE a == g[s \ {x}]
             b == g[s \ {y}]
             c == g[(s \ {x}) \ {y}]
  <2>11. f[x] \in Nat /\ f[y] \in Nat /\ c \in Nat
    BY <1>1, <2>4, <2>10
  <2>12. g[s] = f[x] + a /\ g[s] # f[y] + b /\ a = f[y] + c /\ b = f[x] + c
    BY <2>3, <2>4, <2>8, <2>9, <2>10
  <2> HIDE DEF a, b, c
  <2> QED BY <2>11, <2>12
<1> QED BY <1>1, <1>3

(* The sum over a finite set: 0 for none, and any element may be added     *)
(* last.                                                                   *)
LEMMA SumProps ==
    ASSUME NEW T, IsFiniteSet(T), NEW f, \A x \in T : f[x] \in Nat
    PROVE  /\ SumFunctionOnSet(f, T) \in Nat
           /\ T = {} => SumFunctionOnSet(f, T) = 0
           /\ \A y \in T : SumFunctionOnSet(f, T) = f[y] + SumFunctionOnSet(f, T \ {y})
<1>1. PICK g : Sums(f, T, g) /\ SumFunctionOnSet(f, T) = g[T]
  BY SumIsOne
<1>2. g[T] \in Nat /\ \A y \in T : g[T] = f[y] + g[T \ {y}]
  BY <1>1, SumsAnyFirst
<1>3. T = {} => g[T] = 0
  BY <1>1 DEF Sums, SumStep
<1>4. ASSUME NEW y \in T PROVE SumFunctionOnSet(f, T \ {y}) = g[T \ {y}]
  <2> DEFINE U == T \ {y}
  <2>1. IsFiniteSet(U)
    BY FS_RemoveElement
  <2>2. PICK h : Sums(f, U, h) /\ SumFunctionOnSet(f, U) = h[U]
    BY <2>1, SumIsOne
  <2>3. U \in SUBSET (U \cap T)
    OBVIOUS
  <2> QED BY <1>1, <2>1, <2>2, <2>3, SumsAgree
<1> QED BY <1>1, <1>2, <1>3, <1>4

(* The sum of f over 1..n, from the front.                                 *)
SumTo(f, n) == SumFunctionOnSet(f, 1..n)

LEMMA SumToStep ==
    ASSUME NEW n \in Nat, NEW f, \A i \in 1..n : f[i] \in Nat
    PROVE  /\ SumTo(f, n) \in Nat
           /\ n = 0 => SumTo(f, n) = 0
           /\ n > 0 => SumTo(f, n) = SumTo(f, n - 1) + f[n]
           /\ \A i \in 1..n : f[i] <= SumTo(f, n)
<1>1. IsFiniteSet(1..n)
  BY FS_Interval
<1> DEFINE T == 1..n
<1>2. /\ SumFunctionOnSet(f, T) \in Nat
      /\ T = {} => SumFunctionOnSet(f, T) = 0
      /\ \A y \in T : SumFunctionOnSet(f, T) = f[y] + SumFunctionOnSet(f, T \ {y})
  <2> HIDE DEF T
  <2> QED BY <1>1, SumProps DEF T
<1>3. n > 0 => T \ {n} = 1..(n - 1) /\ n \in T
  OBVIOUS
<1>4. \A y \in T : SumFunctionOnSet(f, T \ {y}) \in Nat
  <2> TAKE y \in T
  <2> DEFINE U == T \ {y}
  <2>1. IsFiniteSet(U)
    BY <1>1, FS_RemoveElement
  <2>2. \A x \in U : f[x] \in Nat
    OBVIOUS
  <2> HIDE DEF U
  <2> QED BY <2>1, <2>2, SumProps DEF U
<1>5. n = 0 => T = {}
  OBVIOUS
<1> HIDE DEF T
<1>6. \A y \in T : f[y] \in Nat
  BY DEF T
<1>7. n > 0 => SumTo(f, n) = SumTo(f, n - 1) + f[n]
  <2> SUFFICES ASSUME n > 0 PROVE SumTo(f, n) = SumTo(f, n - 1) + f[n]
    OBVIOUS
  <2> DEFINE a == SumFunctionOnSet(f, T \ {n})
  <2>1. SumTo(f, n) = f[n] + a /\ a = SumTo(f, n - 1) /\ f[n] \in Nat /\ a \in Nat
    BY <1>2, <1>3, <1>4, <1>6 DEF SumTo, T
  <2> HIDE DEF a
  <2> QED BY <2>1
<1>8. \A i \in T : f[i] <= SumTo(f, n)
  <2> TAKE i \in T
  <2> DEFINE a == SumFunctionOnSet(f, T \ {i})
  <2>1. SumTo(f, n) = f[i] + a /\ f[i] \in Nat /\ a \in Nat
    BY <1>2, <1>4, <1>6 DEF SumTo, T
  <2> HIDE DEF a
  <2> QED BY <2>1
<1> QED BY <1>2, <1>5, <1>7, <1>8 DEF SumTo, T

(* The sum of a sequence without its position i, and with it.              *)
LEMMA SumWithout ==
    ASSUME NEW n \in Nat, NEW i \in 1..n, NEW f, \A j \in 1..n : f[j] \in Nat,
           NEW h, \A j \in 1..(n - 1) : h[j] = IF j < i THEN f[j] ELSE f[j + 1]
    PROVE  SumTo(h, n - 1) + f[i] = SumTo(f, n)
<1> DEFINE Good(k) == IF k < i THEN SumTo(h, k) = SumTo(f, k)
                               ELSE SumTo(h, k) + f[i] = SumTo(f, k + 1)
           Bad == {k \in 0..(n - 1) : ~Good(k)}
<1>1. n - 1 \in Nat /\ n \in Nat /\ i \in Nat
  OBVIOUS
<1>2. \A j \in 1..(n - 1) : h[j] \in Nat
  OBVIOUS
<1>3. \A k \in 1..n : /\ SumTo(f, k) = SumTo(f, k - 1) + f[k]
                      /\ SumTo(f, k) \in Nat /\ SumTo(f, k - 1) \in Nat
  <2> TAKE k \in 1..n
  <2>1. k \in Nat /\ k - 1 \in Nat /\ \A j \in 1..k : f[j] \in Nat
    OBVIOUS
  <2>2. \A j \in 1..(k - 1) : f[j] \in Nat
    OBVIOUS
  <2> QED BY <2>1, <2>2, SumToStep
<1>4. \A k \in 1..(n - 1) : /\ SumTo(h, k) = SumTo(h, k - 1) + h[k]
                            /\ SumTo(h, k) \in Nat /\ SumTo(h, k - 1) \in Nat
  <2> TAKE k \in 1..(n - 1)
  <2>1. k \in Nat /\ k - 1 \in Nat /\ \A j \in 1..k : h[j] \in Nat
    BY <1>2
  <2>2. \A j \in 1..(k - 1) : h[j] \in Nat
    BY <1>2
  <2> QED BY <2>1, <2>2, SumToStep
<1>5. SumTo(h, 0) = 0 /\ SumTo(f, 0) = 0
  BY SumToStep
<1>6. Good(0)
  BY <1>1, <1>5
<1>7. ASSUME NEW k \in 1..(n - 1), Good(k - 1) PROVE Good(k)
  <2>1. k \in 1..n /\ k + 1 \in 1..n /\ k \in Nat
    OBVIOUS
  <2>2. /\ SumTo(h, k) = SumTo(h, k - 1) + h[k]
        /\ SumTo(f, k) = SumTo(f, k - 1) + f[k]
        /\ SumTo(f, k + 1) = SumTo(f, k) + f[k + 1]
    <3>1. (k + 1) - 1 = k
      BY <2>1
    <3> QED BY <1>3, <1>4, <2>1, <3>1
  <2>3. /\ SumTo(h, k - 1) \in Nat /\ SumTo(f, k - 1) \in Nat
        /\ f[k] \in Nat /\ f[k + 1] \in Nat /\ f[i] \in Nat
    BY <1>3, <1>4, <2>1
  <2> DEFINE a == SumTo(h, k - 1)
             b == SumTo(f, k - 1)
             c == SumTo(f, k)
  <2>4. CASE k < i
    <3>1. h[k] = f[k] /\ a = b
      BY <1>1, <1>7, <2>1, <2>4
    <3> QED BY <2>2, <2>4, <3>1
  <2>5. CASE k = i
    <3>1. h[k] = f[k + 1] /\ a = b
      BY <1>1, <1>7, <2>1, <2>5
    <3>2. SumTo(h, k) = b + f[k + 1] /\ c = b + f[k] /\ SumTo(f, k + 1) = c + f[k + 1]
      BY <2>2, <3>1
    <3> HIDE DEF a, b, c
    <3>3. (b + f[k + 1]) + f[k] = (b + f[k]) + f[k + 1]
      BY <2>3 DEF b
    <3> QED BY <2>1, <2>5, <3>2, <3>3
  <2>6. CASE k > i
    <3>1. h[k] = f[k + 1] /\ a + f[i] = c
      BY <1>1, <1>7, <2>1, <2>6
    <3>2. SumTo(h, k) = a + f[k + 1] /\ SumTo(f, k + 1) = c + f[k + 1]
      BY <2>2, <3>1
    <3> HIDE DEF a, c
    <3>3. (a + f[k + 1]) + f[i] = (a + f[i]) + f[k + 1]
      BY <2>3 DEF a
    <3> QED BY <1>1, <2>1, <2>6, <3>1, <3>2, <3>3
  <2> QED BY <1>1, <2>1, <2>4, <2>5, <2>6
<1> HIDE DEF Good
<1>8. Bad = {}
  <2> SUFFICES ASSUME Bad # {} PROVE FALSE
    OBVIOUS
  <2> DEFINE k == Min(Bad)
  <2>1. k \in Bad /\ \A y \in Bad : k <= y
    <3>1. Bad \in SUBSET Nat
      OBVIOUS
    <3> HIDE DEF Bad
    <3> QED BY <3>1, MinProps
  <2> HIDE DEF k
  <2>2. k \in 1..(n - 1) /\ ~Good(k)
    BY <1>6, <2>1
  <2>3. k - 1 \in 0..(n - 1) /\ k - 1 \notin Bad
    BY <2>1, <2>2
  <2> QED BY <1>7, <2>2, <2>3
<1>9. CASE i = n
  <2>1. Good(n - 1) /\ n - 1 < i
    BY <1>1, <1>8, <1>9
  <2>2. SumTo(h, n - 1) = SumTo(f, n - 1)
    BY <2>1 DEF Good
  <2> QED BY <1>3, <1>9, <2>2
<1>10. CASE i < n
  <2>1. Good(n - 1) /\ ~(n - 1 < i) /\ (n - 1) + 1 = n
    BY <1>1, <1>8, <1>10
  <2> QED BY <2>1 DEF Good
<1> QED BY <1>1, <1>9, <1>10
-----------------------------------------------------------------------------
(* The greatest index, and a set in the order of a key *)

(* A non-empty set of indices has a greatest one, which Max chooses. *)
LEMMA GreatestIndex ==
    ASSUME NEW n \in Nat, NEW I \in SUBSET (1..n), I # {}
    PROVE  Max(I) \in I /\ \A y \in I : y <= Max(I)
<1> DEFINE D == {n - i : i \in I}
<1>1. D \in SUBSET Nat /\ D # {}
  <2>1. ASSUME NEW i \in I PROVE n - i \in Nat
    <3>1. i \in Nat /\ i <= n
      OBVIOUS
    <3> QED BY <3>1
  <2> QED BY <2>1
<1>2. Min(D) \in D /\ \A d \in D : Min(D) <= d
  <2> HIDE DEF D
  <2> QED BY <1>1, MinProps
<1>3. PICK x \in I : Min(D) = n - x
  BY <1>2
<1>4. \A y \in I : y <= x
  <2> SUFFICES ASSUME NEW y \in I PROVE y <= x
    OBVIOUS
  <2>1. n - x <= n - y
    BY <1>2, <1>3
  <2> QED BY <2>1
<1>5. \E x2 \in I : \A y \in I : x2 >= y
  BY <1>4
<1> QED BY <1>5 DEF Max

(* The elements of s in the order of a key. *)
InOrder(key, s, f) ==
    /\ f \in [1..Cardinality(s) -> s]
    /\ \A i, j \in 1..Cardinality(s) : i < j => key[f[i]] < key[f[j]]

(* There is such an order: the element with the least key, then the rest.  *)
LEMMA OrderExists ==
    ASSUME NEW T, IsFiniteSet(T), NEW key, \A x \in T : key[x] \in Nat,
           \A x, y \in T : key[x] = key[y] => x = y
    PROVE  \E f : InOrder(key, T, f)
<1> DEFINE Wrong(s) == ~\E f : InOrder(key, s, f)
           Sizes == {Cardinality(s) : s \in {q \in SUBSET T : Wrong(q)}}
<1>1. Sizes \in SUBSET Nat
  BY OneLess
<1>2. SUFFICES ASSUME Wrong(T) PROVE FALSE
  OBVIOUS
<1>3. Sizes # {}
  BY <1>2
<1>4. Min(Sizes) \in Sizes /\ \A n \in Sizes : Min(Sizes) <= n
  <2> HIDE DEF Sizes
  <2> QED BY <1>1, <1>3, MinProps
<1>5. PICK s \in SUBSET T : Wrong(s) /\ Cardinality(s) = Min(Sizes)
  BY <1>4
<1> PICK n : n = Cardinality(s)
  OBVIOUS
<1>6. n \in Nat /\ (n = 0 <=> s = {})
  BY OneLess
<1>7. s # {}
  <2>1. SUFFICES ASSUME s = {} PROVE FALSE
    OBVIOUS
  <2>2. n = 0 /\ 1..n = {}
    BY <1>6, <2>1
  <2>3. InOrder(key, s, [i \in 1..n |-> i])
    BY <2>2 DEF InOrder
  <2> QED BY <1>5, <2>3
<1> DEFINE Keys == {key[x] : x \in s}
<1>8. PICK m \in s : \A x \in s : key[m] <= key[x]
  <2>1. Keys \in SUBSET Nat /\ Keys # {}
    BY <1>7
  <2>2. Min(Keys) \in Keys /\ \A k \in Keys : Min(Keys) <= k
    <3> HIDE DEF Keys
    <3> QED BY <2>1, MinProps
  <2>3. PICK m \in s : key[m] = Min(Keys)
    BY <2>2
  <2>4. ASSUME NEW x \in s PROVE key[m] <= key[x]
    <3>1. key[x] \in Keys
      OBVIOUS
    <3> HIDE DEF Keys
    <3> QED BY <2>2, <2>3, <3>1
  <2> QED BY <2>4
<1> PICK r : r = s \ {m}
  OBVIOUS
<1>9. r \in SUBSET T /\ Cardinality(r) = n - 1
  BY <1>8, OneLess
<1>10. ~Wrong(r)
  <2>1. SUFFICES ASSUME Wrong(r) PROVE FALSE
    OBVIOUS
  <2>2. Cardinality(r) \in Sizes
    BY <1>9, <2>1
  <2>3. n <= n - 1
    <3> HIDE DEF Sizes
    <3> QED BY <1>4, <1>5, <1>9, <2>2
  <2> QED BY <1>6, <2>3
<1>11. PICK g : InOrder(key, r, g)
  BY <1>10
<1>12. g \in [1..(n - 1) -> r] /\ \A i, j \in 1..(n - 1) : i < j => key[g[i]] < key[g[j]]
  BY <1>9, <1>11 DEF InOrder
<1>13. \A x \in r : x \in s /\ key[m] < key[x]
  BY <1>8
<1> DEFINE f == [i \in 1..n |-> IF i = 1 THEN m ELSE g[i - 1]]
<1>14. \A i \in 1..n : i # 1 => i - 1 \in 1..(n - 1)
  BY <1>6
<1>15. f \in [1..n -> s]
  BY <1>12, <1>13, <1>14
<1>16. ASSUME NEW i \in 1..n, NEW j \in 1..n, i < j PROVE key[f[i]] < key[f[j]]
  <2>1. j # 1 /\ j - 1 \in 1..(n - 1) /\ f[j] = g[j - 1] /\ g[j - 1] \in r
    BY <1>6, <1>12, <1>14, <1>16
  <2>2. CASE i = 1
    BY <1>13, <2>1, <2>2
  <2>3. CASE i # 1
    <3>1. i - 1 \in 1..(n - 1) /\ i - 1 < j - 1 /\ f[i] = g[i - 1]
      BY <1>14, <1>16, <2>3
    <3> QED BY <1>12, <2>1, <3>1
  <2> QED BY <2>2, <2>3
<1>17. InOrder(key, s, f)
  <2> HIDE DEF f
  <2> QED BY <1>15, <1>16 DEF InOrder
<1> QED BY <1>5, <1>17

(* Such an order has every element in one place. *)
LEMMA OrderProps ==
    ASSUME NEW T, IsFiniteSet(T), NEW key, \A x \in T : key[x] \in Nat,
           NEW f, InOrder(key, T, f)
    PROVE  /\ f \in Seq(T) /\ Len(f) = Cardinality(T) /\ Cardinality(T) \in Nat
           /\ \A x \in T : \E i \in 1..Len(f) : f[i] = x
<1> PICK n : n = Cardinality(T)
  OBVIOUS
<1>1. n \in Nat /\ f \in [1..n -> T] /\ \A i, j \in 1..n : i < j => key[f[i]] < key[f[j]]
  BY OneLess DEF InOrder
<1>2. f \in Seq(T) /\ Len(f) = n
  BY <1>1
<1>3. \A i, j \in 1..n : f[i] = f[j] => i = j
  <2> SUFFICES ASSUME NEW i \in 1..n, NEW j \in 1..n, f[i] = f[j], i # j PROVE FALSE
    OBVIOUS
  <2>1. key[f[i]] \in Nat /\ key[f[j]] \in Nat
    BY <1>1
  <2>2. i < j \/ j < i
    BY <1>1
  <2> QED BY <1>1, <2>1, <2>2
<1>4. f \in Injection(1..n, T)
  BY <1>1, <1>3 DEF Injection, IsInjective
<1>5. IsFiniteSet(1..n) /\ Cardinality(1..n) = n
  BY <1>1, FS_Interval
<1>6. f \in Surjection(1..n, T)
  BY <1>4, <1>5, FS_Injection
<1> QED BY <1>1, <1>2, <1>6 DEF Surjection

-----------------------------------------------------------------------------
(* Joining and cutting *)

(* A sequence behind another keeps its order.                              *)
LEMMA JoinProps ==
    ASSUME NEW C, NEW a \in Seq(C), NEW b \in Seq(C)
    PROVE  /\ a \o b \in Seq(C) /\ Len(a \o b) = Len(a) + Len(b)
           /\ \A i \in 1..Len(a) : (a \o b)[i] = a[i]
           /\ \A i \in 1..Len(b) : (a \o b)[Len(a) + i] = b[i]
  OBVIOUS

(* A prefix is the one before and the next element.                        *)
LEMMA PrefixStep ==
    ASSUME NEW C, NEW t \in Seq(C), NEW k \in 1..Len(t)
    PROVE  SubSeq(t, 1, k) = Append(SubSeq(t, 1, k - 1), t[k])
  OBVIOUS

(* Remainders, where the dividend is one modulus off at most. *)
LEMMA Remainder ==
    ASSUME NEW n \in Nat \ {0}, NEW x \in Int
    PROVE  /\ x \in 0..(n - 1) => x % n = x
           /\ x \in -n..-1 => x % n = x + n
<1>1. x % n \in 0..(n - 1) /\ x = n * (x \div n) + (x % n) /\ x \div n \in Int
  OBVIOUS
<1> PICK q \in Int : q = x \div n
  BY <1>1
<1> PICK r \in 0..(n-1) : r = x % n /\ x = n * q + r
  BY <1>1
<1>2. ASSUME x \in 0..(n - 1) PROVE r = x
  <2>1. q <= 0
    BY <1>2
  <2>2. q >= 0
    BY <1>2
  <2> QED BY <2>1, <2>2
<1>3. ASSUME x \in -n..-1 PROVE r = x + n
  <2>1. q < 0
    BY <1>3
  <2>2. q > -2
    BY <1>3
  <2>3. q = -1
    BY <2>1, <2>2
  <2> QED BY <2>3
<1> QED BY <1>2, <1>3

(* The places of a table of m rows of n cells, counted row by row. *)
LEMMA RowAndCell ==
    ASSUME NEW m \in Nat, NEW n \in Nat \ {0}
    PROVE  /\ \A x \in 0..(m * n - 1) : x \div n \in 0..(m - 1) /\ x % n \in 0..(n - 1)
           /\ \A i \in 0..(m - 1), j \in 0..(n - 1) :
                i * n + j \in 0..(m * n - 1) /\ (i * n + j) \div n = i /\ (i * n + j) % n = j
<1>0. m * n \in Nat
  OBVIOUS
<1>1. ASSUME NEW x \in 0..(m * n - 1)
      PROVE  x \div n \in 0..(m - 1) /\ x % n \in 0..(n - 1)
  <2>1. x \in Nat /\ x < m * n
    BY <1>0
  <2>2. x % n \in 0..(n - 1) /\ x = n * (x \div n) + (x % n) /\ x \div n \in Int
    BY <2>1
  <2> PICK q \in Int : q = x \div n
    BY <2>2
  <2> PICK r \in 0..(n - 1) : r = x % n
    BY <2>2
  <2>3. x = n * q + r
    BY <2>2
  <2>4. q >= 0
    <3>1. SUFFICES ASSUME q <= -1 PROVE FALSE
      OBVIOUS
    <3>2. n * q <= -n
      BY <3>1
    <3> QED BY <2>1, <2>3, <3>2
  <2>5. q < m
    <3>1. SUFFICES ASSUME q >= m PROVE FALSE
      OBVIOUS
    <3>2. n * q >= n * m
      BY <3>1
    <3> QED BY <2>1, <2>3, <3>2
  <2> QED BY <2>4, <2>5
<1>2. ASSUME NEW i \in 0..(m - 1), NEW j \in 0..(n - 1)
      PROVE  i * n + j \in 0..(m * n - 1) /\ (i * n + j) \div n = i /\ (i * n + j) % n = j
  <2>1. i \in Nat /\ i + 1 <= m /\ j \in Nat /\ i * n \in Nat
    OBVIOUS
  <2>2. (i + 1) * n <= m * n
    BY <2>1
  <2>3. (i + 1) * n = i * n + n
    BY <2>1
  <2> PICK x \in Nat : x = i * n + j
    BY <2>1
  <2>4. x \in 0..(m * n - 1)
    BY <1>0, <2>1, <2>2, <2>3
  <2>5. x % n \in 0..(n - 1) /\ x = n * (x \div n) + (x % n) /\ x \div n \in Int
    OBVIOUS
  <2> PICK q \in Int : q = x \div n
    BY <2>5
  <2> PICK r \in 0..(n - 1) : r = x % n
    BY <2>5
  <2> PICK d \in Int : d = q - i
    BY <2>1
  <2>6. n * d + r = j
    <3>1. n * q + r = i * n + j
      BY <2>5
    <3>2. n * q = n * d + i * n
      BY <2>1
    <3> QED BY <2>1, <3>1, <3>2
  <2>7. d = 0
    <3>1. d >= 1 => n * d >= n
      OBVIOUS
    <3>2. d <= -1 => n * d <= -n
      OBVIOUS
    <3> QED BY <2>6, <3>1, <3>2
  <2> QED BY <2>1, <2>4, <2>6, <2>7
<1> QED BY <1>1, <1>2

(* A finite set of numbers has an ascending order, and that has them all.  *)
Ascends(T, f) ==
    f \in [1..Cardinality(T) -> T] /\ \A i, j \in 1..Cardinality(T) : i < j => f[i] < f[j]

LEMMA Ascending ==
    ASSUME NEW T \in SUBSET Nat, IsFiniteSet(T)
    PROVE  /\ Cardinality(T) \in Nat /\ \E f : Ascends(T, f)
           /\ \A f : Ascends(T, f) => \A x \in T : \E i \in 1..Cardinality(T) : f[i] = x
<1> PICK n : n = Cardinality(T)
  OBVIOUS
<1> DEFINE id == [x \in T |-> x]
<1>1. (\A x \in T : id[x] \in Nat) /\ \A x, y \in T : id[x] = id[y] => x = y
  OBVIOUS
<1>2. \A f : Ascends(T, f) <=> InOrder(id, T, f)
  <2> SUFFICES ASSUME NEW f \in [1..n -> T] PROVE Ascends(T, f) <=> InOrder(id, T, f)
    BY DEF Ascends, InOrder
  <2>1. \A i \in 1..n : id[f[i]] = f[i]
    OBVIOUS
  <2> HIDE DEF id
  <2> QED BY <2>1 DEF InOrder, Ascends
<1>3. \E g : InOrder(id, T, g)
  <2> HIDE DEF id
  <2> QED BY <1>1, OrderExists
<1>4. ASSUME NEW f, Ascends(T, f)
      PROVE  n \in Nat /\ \A x \in T : \E i \in 1..n : f[i] = x
  <2> PICK k : k = id
    OBVIOUS
  <2>1. InOrder(k, T, f)
    <3> HIDE DEF id
    <3> QED BY <1>2, <1>4
  <2>2. \A x \in T : k[x] \in Nat
    BY <1>1
  <2> HIDE DEF id
  <2>3. Len(f) = n /\ n \in Nat
    BY <2>1, <2>2, OrderProps
  <2>4. \A x \in T : \E i \in 1..Len(f) : f[i] = x
    <3> PICK U : U = T
      OBVIOUS
    <3>1. IsFiniteSet(U) /\ InOrder(k, U, f) /\ \A x \in U : k[x] \in Nat
      BY <2>1, <2>2
    <3>2. \A x \in U : \E i \in 1..Len(f) : f[i] = x
      BY ONLY <3>1, OrderProps
    <3> QED BY <3>2
  <2> QED BY <2>3, <2>4
<1>5. \E f : Ascends(T, f)
  <2> HIDE DEF id
  <2> QED BY <1>2, <1>3
<1>6. n \in Nat
  BY <1>4, <1>5
<1> QED BY <1>4, <1>5, <1>6

(* Elements of T next to each other in its order have none between them.   *)
Before(e, k) == IF k = 1 THEN 0 ELSE e[k - 1]

Parted(S, T, n, e) ==
    /\ n \in Nat \ {0} /\ \A k \in 1..n : e[k] \in T
    /\ \A k \in 1..n :
         /\ Before(e, k) \in {0} \cup S /\ Before(e, k) < e[k]
         /\ \A i \in (Before(e, k) + 1)..(e[k] - 1) : i \notin S
    /\ \A a \in {0} \cup S, b \in T :
         a < b /\ (\A i \in (a + 1)..(b - 1) : i \notin S) =>
           \E k \in 1..n : e[k] = b /\ a = Before(e, k)

(* An ascending order parts its elements so. *)
LEMMA Neighbours ==
    ASSUME NEW l \in Nat, NEW S, NEW T, NEW e, NEW n,
           \A x \in S : x \in 1..l, T = S \cup {l + 1}, Ascends(T, e), n = Cardinality(T)
    PROVE  Parted(S, T, n, e)
<1>0. T \in SUBSET Nat /\ IsFiniteSet(T)
  <2>1. \A x \in T : x \in 1..(l + 1)
    OBVIOUS
  <2>2. T \in SUBSET (1..(l + 1)) /\ T \in SUBSET Nat
    BY <2>1
  <2>3. IsFiniteSet(1..(l + 1))
    BY FS_Interval
  <2>4. IsFiniteSet(T)
    BY ONLY <2>2, <2>3, FS_Subset
  <2> QED BY <2>2, <2>4
<1>1. /\ n \in Nat /\ \A x \in T : \E i \in 1..n : e[i] = x
  BY <1>0, Ascending
<1>2. /\ \A k \in 1..n : e[k] \in T /\ e[k] \in 1..(l + 1)
      /\ \A i, j \in 1..n : i < j => e[i] < e[j]
  <2>1. e \in [1..n -> T] /\ \A i, j \in 1..n : i < j => e[i] < e[j]
    BY DEF Ascends
  <2>2. \A k \in 1..n : e[k] \in T
    BY <2>1
  <2>3. \A x \in T : x \in 1..(l + 1)
    OBVIOUS
  <2> QED BY <2>1, <2>2, <2>3
<1>3. \A i, j \in 1..n : e[i] < e[j] => i < j
  <2> SUFFICES ASSUME NEW i \in 1..n, NEW j \in 1..n, e[i] < e[j], ~(i < j) PROVE FALSE
    OBVIOUS
  <2>1. i = j \/ j < i
    BY <1>1
  <2>2. e[i] \in Nat /\ e[j] \in Nat
    BY <1>2
  <2> QED BY <1>2, <2>1, <2>2
<1>4. \A k \in 2..n : k - 1 \in 1..n /\ e[k - 1] < e[k] /\ e[k - 1] \in S
  <2> SUFFICES ASSUME NEW k \in 2..n PROVE k - 1 \in 1..n /\ e[k - 1] < e[k] /\ e[k - 1] \in S
    OBVIOUS
  <2> PICK p \in 1..n : p = k - 1
    BY <1>1
  <2>0. k \in 1..n /\ p < k
    BY <1>1
  <2>1. e[p] < e[k] /\ e[p] \in T /\ e[p] \in 1..(l + 1) /\ e[k] \in 1..(l + 1)
    BY <1>2, <2>0
  <2>2. e[p] # l + 1
    BY <2>1
  <2>3. e[p] \in S
    BY <2>1, <2>2
  <2> QED BY <2>1, <2>3
<1>5. ASSUME NEW k \in 1..n, NEW a, a = Before(e, k)
      PROVE  a \in {0} \cup S /\ a < e[k] /\ \A i \in (a + 1)..(e[k] - 1) : i \notin S
  <2>1. a \in {0} \cup S /\ a < e[k]
    <3>1. CASE k = 1
      BY <1>2, <1>5, <3>1 DEF Before
    <3>2. CASE k # 1
      BY <1>1, <1>4, <1>5, <3>2 DEF Before
    <3> QED BY <3>1, <3>2
  <2>2. ASSUME NEW i \in (a + 1)..(e[k] - 1), i \in S PROVE FALSE
    <3>1. PICK j \in 1..n : e[j] = i
      BY <1>1, <2>2
    <3>2. a \in Nat /\ e[k] \in Nat /\ i \in Nat /\ a < i /\ i < e[k]
      <4>1. a \in Nat /\ e[k] \in Nat
        BY <1>2, <2>1
      <4>2. i \in Int /\ a + 1 <= i /\ i <= e[k] - 1
        BY <2>2, <4>1
      <4> QED BY <4>1, <4>2
    <3>3. j < k
      BY <1>3, <3>1, <3>2
    <3>4. k - 1 \in 1..n /\ e[k - 1] = a
      BY <1>1, <1>5, <3>3 DEF Before
    <3>5. k - 1 < j
      BY <1>3, <3>1, <3>2, <3>4
    <3> QED BY <1>1, <3>3, <3>5
  <2> QED BY <2>1, <2>2
<1>6. ASSUME NEW a \in {0} \cup S, NEW b \in T, a < b,
             \A i \in (a + 1)..(b - 1) : i \notin S
      PROVE  \E k \in 1..n : e[k] = b /\ a = Before(e, k)
  <2>1. PICK k \in 1..n : e[k] = b
    BY <1>1
  <2> PICK p : p = Before(e, k)
    OBVIOUS
  <2>2. p \in {0} \cup S /\ p < b /\ \A i \in (p + 1)..(b - 1) : i \notin S
    BY <1>5, <2>1
  <2>3. a \in Nat /\ b \in Nat /\ p \in Nat
    BY <1>2, <2>1, <2>2
  <2>4. ~(a < p)
    <3>1. a < p => p \in (a + 1)..(b - 1) /\ p \in S
      BY <2>2, <2>3
    <3> QED BY <1>6, <3>1
  <2>5. ~(p < a)
    <3>1. p < a => a \in (p + 1)..(b - 1) /\ a \in S
      BY <1>6, <2>2, <2>3
    <3> QED BY <2>2, <3>1
  <2>6. a = p
    BY <2>3, <2>4, <2>5
  <2> QED BY <2>1, <2>6
<1>7. n # 0
  BY <1>1
<1>8. \A k \in 1..n :
        /\ Before(e, k) \in {0} \cup S /\ Before(e, k) < e[k]
        /\ \A i \in (Before(e, k) + 1)..(e[k] - 1) : i \notin S
  BY <1>5
<1>9. n \in Nat \ {0} /\ \A k \in 1..n : e[k] \in T
  BY <1>1, <1>2, <1>7
<1>10. \A a \in {0} \cup S, b \in T :
         a < b /\ (\A i \in (a + 1)..(b - 1) : i \notin S) =>
           \E k \in 1..n : e[k] = b /\ a = Before(e, k)
  BY <1>6
<1> QED BY ONLY <1>8, <1>9, <1>10 DEF Parted
=============================================================================
