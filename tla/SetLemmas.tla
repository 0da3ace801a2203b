----------------------------- MODULE SetLemmas ------------------------------
(***************************************************************************)
(* What the proofs of several components need about finite sets and        *)
(* sequences: the least element of a set of numbers, the sum of a function *)
(* over a set, as MapThenSumSet computes it, in whatever order it takes    *)
(* the elements, and sequences joined one after the other by FlattenSeq.   *)
(***************************************************************************)
EXTENDS Integers, Sequences, FiniteSets, FiniteSetsExt, FiniteSetTheorems,
        WellFoundedInduction, TLAPS

(* A set of natural numbers that is not empty has a least element. *)
LEMMA Least == ASSUME NEW T \in SUBSET Nat, T # {} PROVE \E x \in T : \A y \in T : x <= y
<1>1. IsWellFoundedOn(OpToRel(<, Nat), Nat)
  BY NatLessThanWellFounded
<1>2. PICK x \in T : \A y \in T : ~(<<y, x>> \in OpToRel(<, Nat))
  BY <1>1, WFMin
<1>3. \A y \in T : ~(y < x)
  BY <1>2 DEF OpToRel
<1>4. QED
  BY <1>3
-----------------------------------------------------------------------------
First(s) == CHOOSE x \in s : TRUE

(* it is the sum of f over each subset of S. *)
Sums(it, f, S) ==
    it = [s \in SUBSET S |-> IF s = {} THEN 0 ELSE f[First(s)] + it[s \ {First(s)}]]

Sum(it, f, S) == it \in [SUBSET S -> Int] /\ Sums(it, f, S)

(* f gives every member of S an integer. *)
Ints(f, S) == \A x \in S : f[x] \in Int

SumOf(f, S) == MapThenSumSet(LAMBDA x : f[x], S)

LEMMA FirstIn == ASSUME NEW s, s # {} PROVE First(s) \in s
  BY DEF First

(* it is the sum over each subset of at most n elements. *)
SumsUpTo(it, f, S, n) ==
    \A s \in SUBSET S : Cardinality(s) <= n =>
        it[s] = IF s = {} THEN 0 ELSE f[First(s)] + it[s \ {First(s)}]

(* Such sums exist for every n, and so for all of a finite set. *)
LEMMA SumsUpToExist ==
    ASSUME NEW S, IsFiniteSet(S), NEW f, Ints(f, S)
    PROVE  \A n \in Nat : \E it \in [SUBSET S -> Int] : SumsUpTo(it, f, S, n)
<1> DEFINE Up(m) == \E it \in [SUBSET S -> Int] : SumsUpTo(it, f, S, m)
<1> USE DEF SumsUpTo
<1>1. Up(0)
  <2>1. \A s \in SUBSET S : Cardinality(s) <= 0 => s = {}
    BY FS_Subset, FS_EmptySet, FS_CardinalityType
  <2>2. [s \in SUBSET S |-> 0] \in [SUBSET S -> Int]
    OBVIOUS
  <2>3. QED
    BY <2>1, <2>2
<1>2. ASSUME NEW m \in Nat, Up(m) PROVE Up(m + 1)
  <2>1. PICK g \in [SUBSET S -> Int] : SumsUpTo(g, f, S, m)
    BY <1>2
  <2> DEFINE it == [s \in SUBSET S |-> IF s = {} THEN 0 ELSE f[First(s)] + g[s \ {First(s)}]]
  <2>2. it \in [SUBSET S -> Int]
    BY FirstIn DEF Ints
  <2>3. ASSUME NEW s \in SUBSET S, Cardinality(s) <= m PROVE it[s] = g[s]
    BY <2>1, <2>3
  <2>4. ASSUME NEW s \in SUBSET S, Cardinality(s) <= m + 1
        PROVE  it[s] = IF s = {} THEN 0 ELSE f[First(s)] + it[s \ {First(s)}]
    <3>1. CASE s = {}
      BY <3>1
    <3>2. CASE s # {}
      <4>1. First(s) \in s /\ IsFiniteSet(s) /\ s \ {First(s)} \in SUBSET S
        BY <3>2, FirstIn, FS_Subset
      <4>2. Cardinality(s \ {First(s)}) = Cardinality(s) - 1 /\ Cardinality(s) \in Nat
        BY <4>1, FS_RemoveElement, FS_CardinalityType
      <4>3. Cardinality(s \ {First(s)}) <= m
        BY <2>4, <4>2
      <4> HIDE DEF it
      <4>4. it[s \ {First(s)}] = g[s \ {First(s)}]
        BY <2>3, <4>1, <4>3
      <4> USE DEF it
      <4>5. it[s] = f[First(s)] + g[s \ {First(s)}]
        BY <3>2
      <4>6. QED
        BY <3>2, <4>4, <4>5
    <3>3. QED
      BY <3>1, <3>2
  <2> HIDE DEF it
  <2>5. QED
    BY <2>2, <2>4
<1> HIDE DEF Up
<1>3. \A m \in Nat : Up(m)
  <2>1. SUFFICES ASSUME {m \in Nat : ~Up(m)} # {} PROVE FALSE
    OBVIOUS
  <2>2. PICK m \in {q \in Nat : ~Up(q)} : \A q \in {r \in Nat : ~Up(r)} : m <= q
    BY <2>1, Least
  <2>3. m # 0 /\ m - 1 \in Nat
    BY <1>1, <2>2
  <2>4. Up(m - 1)
    BY <2>2, <2>3
  <2>5. Up((m - 1) + 1)
    BY <1>2, <2>3, <2>4
  <2>6. QED
    BY <2>2, <2>5
<1>4. QED
  BY <1>3 DEF Up

LEMMA SumsExist ==
    ASSUME NEW S, IsFiniteSet(S), NEW f, Ints(f, S)
    PROVE  \E it \in [SUBSET S -> Int] : Sums(it, f, S)
<1>1. Cardinality(S) \in Nat /\ \A s \in SUBSET S : Cardinality(s) <= Cardinality(S)
  BY FS_CardinalityType, FS_Subset
<1>2. PICK it \in [SUBSET S -> Int] : SumsUpTo(it, f, S, Cardinality(S))
  BY <1>1, SumsUpToExist
<1>3. Sums(it, f, S)
  BY <1>1, <1>2 DEF Sums, SumsUpTo
<1>4. QED
  BY <1>3

(* A sum is determined by its function. *)
LEMMA SumsAgree ==
    ASSUME NEW S, IsFiniteSet(S), NEW f, NEW g, NEW it, NEW ig, Sums(it, f, S), Sums(ig, g, S),
           NEW T \in SUBSET S, \A x \in T : f[x] = g[x]
    PROVE  it[T] = ig[T]
<1> DEFINE Bad == {s \in SUBSET T : it[s] # ig[s]}
<1> DEFINE Sizes == {Cardinality(s) : s \in Bad}
<1>0. \A s \in SUBSET T : IsFiniteSet(s) /\ Cardinality(s) \in Nat /\ s \in SUBSET S
  BY FS_Subset, FS_CardinalityType
<1>1. SUFFICES ASSUME Bad # {} PROVE FALSE
  OBVIOUS
<1>2. Sizes \in SUBSET Nat /\ Sizes # {}
  BY <1>0, <1>1
<1>3. PICK n \in Sizes : \A m \in Sizes : n <= m
  <2> HIDE DEF Sizes
  <2>1. QED
    BY <1>2, Least
<1>4. PICK s \in Bad : Cardinality(s) = n
  BY <1>3
<1>5. \A t \in Bad : Cardinality(s) <= Cardinality(t)
  BY <1>3, <1>4
<1>6. s # {}
  BY <1>4 DEF Sums
<1>7. First(s) \in s /\ s \ {First(s)} \in SUBSET T
  BY <1>4, <1>6, FirstIn
<1>8. Cardinality(s \ {First(s)}) = Cardinality(s) - 1
  BY <1>0, <1>4, <1>7, FS_RemoveElement
<1>9. s \ {First(s)} \notin Bad
  <2>1. Cardinality(s) \in Nat
    BY <1>0, <1>4
  <2> HIDE DEF Bad
  <2>2. QED
    BY <1>5, <1>8, <2>1
<1>10. it[s \ {First(s)}] = ig[s \ {First(s)}]
  BY <1>7, <1>9
<1>11. /\ it[s] = f[First(s)] + it[s \ {First(s)}]
       /\ ig[s] = g[First(s)] + ig[s \ {First(s)}]
  BY <1>0, <1>4, <1>6 DEF Sums
<1>12. QED
  BY <1>4, <1>7, <1>10, <1>11

(* The sum of a set is that of the set without any one of its elements, and that element's. *)
LEMMA SumsAnyOrder ==
    ASSUME NEW S, IsFiniteSet(S), NEW f, Ints(f, S), NEW it, Sum(it, f, S),
           NEW T \in SUBSET S, NEW r \in T
    PROVE  it[T] = f[r] + it[T \ {r}]
<1> USE DEF Sum
<1> DEFINE Bad == {s \in SUBSET S : \E x \in s : it[s] # f[x] + it[s \ {x}]}
<1> DEFINE Sizes == {Cardinality(s) : s \in Bad}
<1>0. \A s \in SUBSET S : IsFiniteSet(s) /\ Cardinality(s) \in Nat
  BY FS_Subset, FS_CardinalityType
<1>1. SUFFICES ASSUME Bad # {} PROVE FALSE
  OBVIOUS
<1>2. Sizes \in SUBSET Nat /\ Sizes # {}
  BY <1>0, <1>1
<1>3. PICK n \in Sizes : \A m \in Sizes : n <= m
  <2> HIDE DEF Sizes
  <2>1. QED
    BY <1>2, Least
<1>4. PICK s \in Bad : Cardinality(s) = n
  BY <1>3
<1>5. \A t \in Bad : Cardinality(s) <= Cardinality(t)
  BY <1>3, <1>4
<1>6. PICK x \in s : it[s] # f[x] + it[s \ {x}]
  BY <1>4
<1> DEFINE c == First(s)
<1>7. c \in s /\ it[s] = f[c] + it[s \ {c}] /\ c # x
  BY <1>4, <1>6, FirstIn DEF Sums
<1>8. /\ Cardinality(s \ {c}) = Cardinality(s) - 1 /\ Cardinality(s \ {x}) = Cardinality(s) - 1
      /\ Cardinality(s) \in Nat
  BY <1>0, <1>4, <1>6, <1>7, FS_RemoveElement
<1>9. s \ {c} \notin Bad /\ s \ {x} \notin Bad
  <2> HIDE DEF Bad, c
  <2>1. QED
    BY <1>5, <1>8
<1> HIDE DEF c
<1>10. it[s \ {c}] = f[x] + it[(s \ {c}) \ {x}]
  BY <1>4, <1>6, <1>7, <1>9
<1>11. it[s \ {x}] = f[c] + it[(s \ {x}) \ {c}]
  BY <1>4, <1>6, <1>7, <1>9
<1>12. (s \ {c}) \ {x} = (s \ {x}) \ {c}
  OBVIOUS
<1>13. f[x] \in Int /\ f[c] \in Int /\ it[(s \ {x}) \ {c}] \in Int
  BY <1>4, <1>6, <1>7 DEF Ints
<1>14. it[s] = f[c] + (f[x] + it[(s \ {x}) \ {c}])
  BY <1>7, <1>10, <1>12
<1>15. it[s] # f[x] + (f[c] + it[(s \ {x}) \ {c}])
  BY <1>6, <1>11
<1> DEFINE rest == it[(s \ {x}) \ {c}]
<1> HIDE DEF rest
<1>16. \A a, b, d \in Int : a + (b + d) = b + (a + d)
  OBVIOUS
<1>17. QED
  BY <1>13, <1>14, <1>15, <1>16

(* What MapThenSumSet computes. *)
LEMMA SumOfSums ==
    ASSUME NEW S, IsFiniteSet(S), NEW f, Ints(f, S)
    PROVE  \E it \in [SUBSET S -> Int] : Sums(it, f, S) /\ SumOf(f, S) = it[S]
<1> DEFINE it == CHOOSE h : Sums(h, f, S)
<1>1. PICK g \in [SUBSET S -> Int] : Sums(g, f, S)
  BY SumsExist
<1>2. Sums(it, f, S)
  BY <1>1
<1>3. SumOf(f, S) = it[S]
  BY DEF SumOf, MapThenSumSet, MapThenFoldSet, Sums, First
<1>4. it[S] = g[S]
  BY <1>1, <1>2, SumsAgree
<1>5. QED
  BY <1>1, <1>3, <1>4

LEMMA SumOfInt ==
    ASSUME NEW S, IsFiniteSet(S), NEW f, Ints(f, S)
    PROVE  SumOf(f, S) \in Int
<1>1. PICK it \in [SUBSET S -> Int] : SumOf(f, S) = it[S]
  BY SumOfSums
<1>2. S \in SUBSET S
  OBVIOUS
<1>3. QED
  BY <1>1, <1>2

(* The sum of a set is one element's value and the sum of the others. *)
LEMMA SumOfSplit ==
    ASSUME NEW S, IsFiniteSet(S), NEW f, Ints(f, S), NEW r \in S
    PROVE  SumOf(f, S) = f[r] + SumOf(f, S \ {r})
<1> DEFINE R == S \ {r}
<1>1. PICK it \in [SUBSET S -> Int] : Sums(it, f, S) /\ SumOf(f, S) = it[S]
  BY SumOfSums
<1>2. IsFiniteSet(R) /\ Ints(f, R)
  BY FS_Subset DEF Ints
<1>3. PICK ir \in [SUBSET R -> Int] : Sums(ir, f, R) /\ SumOf(f, R) = ir[R]
  BY <1>2, SumOfSums
<1> DEFINE ih == [s \in SUBSET R |-> it[s]]
<1>4. Sums(ih, f, R)
  <2>1. ASSUME NEW s \in SUBSET R
        PROVE  ih[s] = IF s = {} THEN 0 ELSE f[First(s)] + ih[s \ {First(s)}]
    BY <1>1 DEF Sums
  <2>2. QED
    BY <2>1 DEF Sums
<1>5. ih[R] = it[R]
  OBVIOUS
<1> HIDE DEF ih
<1>6. ir[R] = ih[R]
  <2> HIDE DEF R
  <2>1. QED
    BY <1>2, <1>3, <1>4, SumsAgree
<1>7. it[S] = f[r] + it[R]
  <2>1. S \in SUBSET S /\ Sum(it, f, S)
    BY <1>1 DEF Sum
  <2> HIDE DEF R
  <2>2. \A q \in S : it[S] = f[q] + it[S \ {q}]
    BY <2>1, SumsAnyOrder
  <2>3. QED
    BY <2>2 DEF R
<1>8. QED
  BY <1>1, <1>3, <1>5, <1>6, <1>7

(* The sum looks at nothing but the values. *)
LEMMA SumOfSame ==
    ASSUME NEW S, IsFiniteSet(S), NEW f, NEW g, Ints(f, S),
           \A x \in S : f[x] = g[x]
    PROVE  SumOf(f, S) = SumOf(g, S)
<1>1. PICK it \in [SUBSET S -> Int] : Sums(it, f, S) /\ SumOf(f, S) = it[S]
  BY SumOfSums
<1>2. PICK ig \in [SUBSET S -> Int] : Sums(ig, g, S) /\ SumOf(g, S) = ig[S]
  <2>1. Ints(g, S)
    BY DEF Ints
  <2>2. QED
    BY <2>1, SumOfSums
<1>3. it[S] = ig[S]
  BY <1>1, <1>2, SumsAgree
<1>4. QED
  BY <1>1, <1>2, <1>3

LEMMA SumOfNothing == ASSUME NEW f PROVE SumOf(f, {}) = 0
<1>1. PICK it \in [SUBSET {} -> Int] : Sums(it, f, {}) /\ SumOf(f, {}) = it[{}]
  <2>1. Ints(f, {}) /\ IsFiniteSet({})
    BY FS_EmptySet DEF Ints
  <2>2. QED
    BY <2>1, SumOfSums
<1>2. QED
  BY <1>1 DEF Sums

(* A sum of zeros. *)
LEMMA SumOfZeros ==
    ASSUME NEW S, IsFiniteSet(S), NEW f, \A x \in S : f[x] = 0
    PROVE  SumOf(f, S) = 0
<1>1. Ints(f, S)
  BY DEF Ints
<1>2. PICK it \in [SUBSET S -> Int] : Sums(it, f, S) /\ SumOf(f, S) = it[S]
  BY <1>1, SumOfSums
<1> DEFINE Bad == {s \in SUBSET S : it[s] # 0}
<1> DEFINE Sizes == {Cardinality(s) : s \in Bad}
<1>3. \A s \in SUBSET S : IsFiniteSet(s) /\ Cardinality(s) \in Nat
  BY FS_Subset, FS_CardinalityType
<1>4. SUFFICES ASSUME Bad # {} PROVE FALSE
  BY <1>2
<1>5. Sizes \in SUBSET Nat /\ Sizes # {}
  BY <1>3, <1>4
<1>6. PICK n \in Sizes : \A m \in Sizes : n <= m
  <2> HIDE DEF Sizes
  <2>1. QED
    BY <1>5, Least
<1>7. PICK s \in Bad : Cardinality(s) = n
  BY <1>6
<1>8. \A t \in Bad : Cardinality(s) <= Cardinality(t)
  BY <1>6, <1>7
<1>9. s # {} /\ First(s) \in s /\ it[s] = f[First(s)] + it[s \ {First(s)}]
  BY <1>2, <1>7, FirstIn DEF Sums
<1>10. Cardinality(s \ {First(s)}) < Cardinality(s)
  BY <1>3, <1>7, <1>9, FS_RemoveElement
<1>11. s \ {First(s)} \notin Bad
  <2>1. Cardinality(s) \in Nat /\ Cardinality(s \ {First(s)}) \in Nat
    BY <1>3, <1>7
  <2> HIDE DEF Bad
  <2>2. QED
    BY <1>8, <1>10, <2>1
<1>12. it[s \ {First(s)}] = 0
  BY <1>7, <1>11
<1>13. QED
  BY <1>7, <1>9, <1>12

(* One value is changed. *)
LEMMA SumOfChanged ==
    ASSUME NEW S, IsFiniteSet(S), NEW f, NEW g, NEW r \in S,
           Ints(f, S), Ints(g, S),
           \A x \in S \ {r} : f[x] = g[x]
    PROVE  SumOf(g, S) = SumOf(f, S) + (g[r] - f[r])
<1>1. IsFiniteSet(S \ {r}) /\ Ints(f, S \ {r})
  BY FS_Subset DEF Ints
<1>2. SumOf(f, S \ {r}) = SumOf(g, S \ {r}) /\ SumOf(f, S \ {r}) \in Int
  BY <1>1, SumOfSame, SumOfInt
<1>3. SumOf(f, S) = f[r] + SumOf(f, S \ {r}) /\ SumOf(g, S) = g[r] + SumOf(g, S \ {r})
  BY SumOfSplit
<1>4. f[r] \in Int /\ g[r] \in Int
  BY DEF Ints
<1>5. QED
  BY <1>2, <1>3, <1>4
-----------------------------------------------------------------------------
(* Joining texts: f[k] is the first k of them joined. *)
Joining(f, l, k) == IF k = 1 THEN l[k] ELSE f[k - 1] \o l[k]

Joins(f, l, n) == f = [k \in 1..n |-> Joining(f, l, k)]

LEMMA JoinsStep ==
    ASSUME NEW f, NEW l, NEW n \in Nat, Joins(f, l, n)
    PROVE  /\ n > 0 => f[1] = l[1]
           /\ \A k \in 1..n : k > 1 => k - 1 \in 1..n /\ f[k] = f[k - 1] \o l[k]
<1>1. \A k \in 1..n : f[k] = Joining(f, l, k)
  BY DEF Joins
<1>2. \A k \in 1..n : k > 1 => k # 1 /\ k - 1 \in 1..n
  OBVIOUS
<1>3. n > 0 => 1 \in 1..n
  OBVIOUS
<1>4. QED
  BY <1>1, <1>2, <1>3 DEF Joining

LEMMA JoinsExist == ASSUME NEW l PROVE \A n \in Nat : \E f : Joins(f, l, n)
<1> DEFINE Some(n) == \E f : Joins(f, l, n)
<1>1. Some(0)
  <2>1. Joins([k \in 1..0 |-> l], l, 0)
    BY DEF Joins
  <2>2. QED
    BY <2>1
<1>2. ASSUME NEW n \in Nat, Some(n) PROVE Some(n + 1)
  <2>1. PICK g : Joins(g, l, n)
    BY <1>2
  <2> DEFINE f == [k \in 1..n + 1 |-> IF k <= n THEN g[k]
                                      ELSE IF k = 1 THEN l[k] ELSE g[k - 1] \o l[k]]
  <2>2. \A k \in 1..n : f[k] = g[k]
    OBVIOUS
  <2>3. ASSUME NEW k \in 1..n + 1
        PROVE  f[k] = Joining(f, l, k)
    <3>1. CASE k <= n
      <4>1. g[k] = Joining(g, l, k)
        BY <2>1, <3>1 DEF Joins
      <4>2. k # 1 => k - 1 \in 1..n
        BY <3>1
      <4> HIDE DEF f
      <4>3. f[k] = g[k] /\ (k # 1 => f[k - 1] = g[k - 1])
        BY <2>2, <3>1, <4>2
      <4>4. CASE k = 1
        BY Zenon, <4>1, <4>3, <4>4 DEF Joining
      <4>5. CASE k # 1
        <5>1. Joining(f, l, k) = Joining(g, l, k)
          BY Zenon, <4>3, <4>5 DEF Joining
        <5>2. QED
          BY <4>1, <4>3, <5>1
      <4>6. QED
        BY <4>4, <4>5
    <3>2. CASE k = n + 1
      <4>1. f[k] = IF k = 1 THEN l[k] ELSE g[k - 1] \o l[k]
        BY <3>2
      <4>2. k # 1 => f[k - 1] = g[k - 1]
        BY <2>2, <3>2
      <4> HIDE DEF f
      <4>3. QED
        BY Zenon, <4>1, <4>2 DEF Joining
    <3>3. k <= n \/ k = n + 1
      OBVIOUS
    <3> HIDE DEF f
    <3>4. QED
      BY Zenon, <3>1, <3>2, <3>3
  <2>4. f = [k \in 1..n + 1 |-> f[k]]
    OBVIOUS
  <2> HIDE DEF f
  <2>5. Joins(f, l, n + 1)
    BY <2>3, <2>4 DEF Joins
  <2>6. QED
    BY <2>5
<1> HIDE DEF Some
<1>3. \A n \in Nat : Some(n)
  <2>1. SUFFICES ASSUME {n \in Nat : ~Some(n)} # {} PROVE FALSE
    OBVIOUS
  <2>2. PICK n \in {q \in Nat : ~Some(q)} : \A q \in {k \in Nat : ~Some(k)} : n <= q
    BY <2>1, Least
  <2>3. n # 0 /\ n - 1 \in Nat
    BY <1>1, <2>2
  <2>4. Some(n - 1)
    BY <2>2, <2>3
  <2>5. Some((n - 1) + 1)
    BY <1>2, <2>3, <2>4
  <2>6. QED
    BY <2>2, <2>3, <2>5
<1>4. QED
  BY <1>3 DEF Some

(* Texts of pieces of pieces are texts of these pieces. *)
LEMMA JoinedAre ==
    ASSUME NEW Of, NEW l \in Seq(Seq(Of)), NEW f, Joins(f, l, Len(l))
    PROVE  \A k \in 1..Len(l) : f[k] \in Seq(Of)
<1>1. PICK n \in Nat : n = Len(l)
  OBVIOUS
<1>2. /\ n > 0 => f[1] = l[1]
      /\ \A k \in 1..n : k > 1 => k - 1 \in 1..n /\ f[k] = f[k - 1] \o l[k]
  BY <1>1, JoinsStep, ZenonT(40)
<1> DEFINE Bad == {k \in 1..n : f[k] \notin Seq(Of)}
<1>3. ASSUME Bad # {} PROVE FALSE
  <2>0. Bad \in SUBSET Nat
    OBVIOUS
  <2>1. PICK k \in Bad : \A q \in Bad : k <= q
    BY <1>3, <2>0, Least
  <2>2. k \in 1..n /\ l[k] \in Seq(Of) /\ f[k] \notin Seq(Of)
    BY <1>1, <2>1
  <2>3. k > 1
    BY <1>2, <2>2
  <2>4. k - 1 \in 1..n /\ f[k] = f[k - 1] \o l[k]
    BY <1>2, <2>2, <2>3
  <2>5. f[k - 1] \in Seq(Of)
    BY <2>1, <2>4
  <2>6. QED
    BY <2>2, <2>4, <2>5
<1>4. QED
  BY <1>1, <1>3

Ext == INSTANCE SequencesExt

LEMMA FlattenJoins ==
    ASSUME NEW l, NEW n \in Nat, n = Len(l), n > 0
    PROVE  \E f : Joins(f, l, n) /\ Ext!FlattenSeq(l) = f[n]
<1> DEFINE Mine(f) == f = [i \in 1..n |-> IF i = 1 THEN l[i] ELSE f[i - 1] \o l[i]]
<1>1. n # 0
  OBVIOUS
<1>2. Ext!FlattenSeq(l) = (CHOOSE f : Mine(f))[n]
  BY Zenon, <1>1 DEF Ext!FlattenSeq
<1>3. \A f : Joins(f, l, n) <=> Mine(f)
  BY Zenon DEF Joins, Joining
<1> HIDE DEF Mine
<1>4. \E f : Mine(f)
  BY <1>3, JoinsExist
<1>5. Mine(CHOOSE f : Mine(f))
  BY Zenon, <1>4
<1>6. QED
  BY <1>2, <1>3, <1>5

LEMMA FlattenedIs == ASSUME NEW Of, NEW l \in Seq(Seq(Of)) PROVE Ext!FlattenSeq(l) \in Seq(Of)
<1>1. PICK n \in Nat : n = Len(l)
  OBVIOUS
<1>2. CASE n = 0
  <2>1. Len(l) = 0
    BY <1>1, <1>2
  <2>2. Ext!FlattenSeq(l) = l
    BY Zenon, <2>1 DEF Ext!FlattenSeq
  <2>3. l = <<>> /\ l \in Seq(Of)
    BY <2>1
  <2>4. QED
    BY <2>2, <2>3
<1>3. CASE n > 0
  <2>1. PICK f : Joins(f, l, n) /\ Ext!FlattenSeq(l) = f[n]
    BY <1>1, <1>3, FlattenJoins
  <2>2. n \in 1..Len(l)
    BY <1>1, <1>3
  <2>3. QED
    BY <1>1, <2>1, <2>2, JoinedAre
<1>4. QED
  BY <1>2, <1>3

(* What is joined of the first k texts, from nothing on. *)
Prefixes(f, l, n) ==
    /\ f[0] = <<>>
    /\ \A k \in 1..n : k - 1 \in 0..n /\ f[k] = f[k - 1] \o l[k]

(* Joining is adding one text after the other. *)
LEMMA FlattenPrefixes ==
    ASSUME NEW Of, NEW l \in Seq(Seq(Of)), NEW n \in Nat, n = Len(l)
    PROVE  \E f : /\ Prefixes(f, l, n) /\ Ext!FlattenSeq(l) = f[n]
                  /\ \A k \in 0..n : f[k] \in Seq(Of)
<1>0. \A k \in 1..n : l[k] \in Seq(Of)
  <2>1. PICK seqs : seqs = Seq(Of)
    OBVIOUS
  <2>2. l \in Seq(seqs)
    BY <2>1
  <2>3. QED
    BY <2>1, <2>2
<1>1. CASE n = 0
  <2>1. Len(l) = 0
    BY <1>1
  <2>2. Ext!FlattenSeq(l) = l
    BY Zenon, <2>1 DEF Ext!FlattenSeq
  <2>3. l = <<>>
    BY <2>1
  <2>4. PICK f : f = [k \in 0..0 |-> <<>>]
    OBVIOUS
  <2>5. QED
    BY <1>1, <2>2, <2>3, <2>4 DEF Prefixes
<1>2. CASE n > 0
  <2>1. PICK g : Joins(g, l, n) /\ Ext!FlattenSeq(l) = g[n]
    BY <1>2, FlattenJoins
  <2>2. /\ g[1] = l[1]
        /\ \A k \in 1..n : k > 1 => k - 1 \in 1..n /\ g[k] = g[k - 1] \o l[k]
    <3>1. /\ n > 0 => g[1] = l[1]
          /\ \A k \in 1..n : k > 1 => k - 1 \in 1..n /\ g[k] = g[k - 1] \o l[k]
      <4>1. Joins(g, l, n)
        BY <2>1
      <4>2. QED
        BY ONLY <4>1, n \in Nat, JoinsStep, ZenonT(40)
    <3>2. QED
      BY <1>2, <3>1
  <2>3. \A k \in 1..n : g[k] \in Seq(Of)
    BY <2>1, JoinedAre
  <2>4. PICK f : f = [k \in 0..n |-> IF k = 0 THEN <<>> ELSE g[k]]
    OBVIOUS
  <2>5. f[0] = <<>> /\ \A k \in 1..n : f[k] = g[k]
    BY <2>4
  <2>6. ASSUME NEW k \in 1..n
        PROVE  k - 1 \in 0..n /\ f[k] = f[k - 1] \o l[k]
    <3>1. CASE k = 1
      <4>1. l[1] \in Seq(Of)
        BY <1>0, <3>1
      <4>2. <<>> \o l[1] = l[1]
        BY <4>1
      <4>3. k - 1 = 0 /\ 0 \in 0..n
        BY <3>1
      <4>4. QED
        BY <2>2, <2>5, <3>1, <4>2, <4>3, Zenon
    <3>2. CASE k > 1
      <4>1. k - 1 \in 1..n /\ k - 1 \in 0..n
        BY <3>2
      <4>2. g[k] = g[k - 1] \o l[k]
        BY <2>2, <3>2, Zenon
      <4>3. f[k] = g[k] /\ f[k - 1] = g[k - 1]
        BY <2>5, <4>1, Zenon
      <4>4. QED
        BY <4>1, <4>2, <4>3, Zenon
    <3>3. k = 1 \/ k > 1
      OBVIOUS
    <3>4. QED
      BY <3>1, <3>2, <3>3, Zenon
  <2>7. n \in 1..n
    BY <1>2
  <2>8. ASSUME NEW k \in 0..n PROVE f[k] \in Seq(Of)
    <3>1. <<>> \in Seq(Of) /\ (k = 0 \/ k \in 1..n)
      OBVIOUS
    <3>2. QED
      BY <2>3, <2>5, <3>1, Zenon
  <2>9. QED
    BY <2>1, <2>5, <2>6, <2>7, <2>8, Zenon DEF Prefixes
<1>3. QED
  BY <1>1, <1>2
=============================================================================
