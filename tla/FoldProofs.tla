----------------------------- MODULE FoldProofs -----------------------------
(***************************************************************************)
(* Sums and products over finite sets, as the community modules define them *)
(* by folding: an element at a time, in any order, over disjoint sets, under *)
(* other names.  Induction is that of the natural numbers, by a least      *)
(* counterexample (WFMin), and with it that of the subsets of a finite set. *)
(***************************************************************************)
EXTENDS Integers, FiniteSets, Functions, FiniteSetsExt, FiniteSetTheorems,
        WellFoundedInduction, TLAPS

\* Some natural numbers have a least one among them.
LEMMA Least ==
  ASSUME NEW S, S \subseteq Nat, S # {}
  PROVE  \E x \in S : \A y \in S : x <= y
<1>1. IsWellFoundedOn(OpToRel(<,Nat),Nat)
  BY NatLessThanWellFounded
<1>2. PICK x \in S : \A y \in S : ~(<<y, x>> \in OpToRel(<,Nat))
  BY <1>1, WFMin
<1>4. OpToRel(<,Nat) = {ss \in Nat \X Nat : ss[1] < ss[2]}
  BY Zenon DEF OpToRel
<1>3. ASSUME NEW y \in S PROVE x <= y
  <2>1. ~ (<<y, x>> \in {ss \in Nat \X Nat : ss[1] < ss[2]})
    BY <1>2, <1>4
  <2>2. ~ (y < x)
    BY <2>1
  <2> QED
    BY <2>2
<1> QED
  BY <1>3

\* Induction over the natural numbers, for a set instead of a predicate.
LEMMA Induction ==
  ASSUME NEW S, 0 \in S, \A k \in Nat : k \in S => k + 1 \in S
  PROVE  \A k \in Nat : k \in S
<1> SUFFICES ASSUME NEW k \in Nat, k \notin S PROVE FALSE
  OBVIOUS
<1> DEFINE T == {j \in Nat : j \notin S}
<1>1. PICK x \in T : \A y \in T : x <= y
  <2>1. T \subseteq Nat /\ T # {}
    OBVIOUS
  <2> HIDE DEF T
  <2> QED
    BY <2>1, Least
<1>3. x # 0 /\ x - 1 \in Nat
  BY <1>1
<1>4. x - 1 \notin T
  BY <1>1, <1>3
<1> QED
  BY <1>3, <1>4

\* Induction over the subsets of a finite set, from which an element may be
\* taken.
LEMMA SubsetInduction ==
  ASSUME NEW T, IsFiniteSet(T), NEW Q,
         \A s \in SUBSET T : (\A x \in s : s \ {x} \in Q) => s \in Q
  PROVE  \A s \in SUBSET T : s \in Q
<1> DEFINE Below(k) == {s \in SUBSET T : Cardinality(s) <= k}
           S == {k \in Nat : Below(k) \subseteq Q}
<1>1. \A s \in SUBSET T : IsFiniteSet(s) /\ Cardinality(s) \in Nat
  BY FS_Subset, FS_CardinalityType
<1>2. ASSUME NEW s \in SUBSET T, NEW x \in s
      PROVE  s \ {x} \in SUBSET T /\ Cardinality(s \ {x}) = Cardinality(s) - 1
  BY <1>1, FS_RemoveElement
<1>3. \A s \in SUBSET T : Cardinality(s) = 0 => s = {}
  BY <1>1, FS_EmptySet
<1>4. 0 \in S
  <2>1. ASSUME NEW s \in Below(0) PROVE s \in Q
    <3>1. s \in SUBSET T /\ s = {}
      BY <1>1, <1>3
    <3> QED
      BY <3>1
  <2> QED
    BY <2>1
<1>5. ASSUME NEW k \in Nat, k \in S PROVE k + 1 \in S
  <2>1. ASSUME NEW s \in Below(k + 1) PROVE s \in Q
    <3>1. ASSUME NEW x \in s PROVE s \ {x} \in Q
      <4>1. s \ {x} \in SUBSET T /\ Cardinality(s \ {x}) <= k
        BY <1>1, <1>2
      <4> QED
        BY <4>1, <1>5
    <3> QED
      BY <3>1
  <2> QED
    BY <2>1
<1>6. \A k \in Nat : k \in S
  <2> HIDE DEF S
  <2> QED
    BY <1>4, <1>5, Induction
<1>7. ASSUME NEW s \in SUBSET T PROVE s \in Q
  <2>1. Cardinality(s) \in S /\ Cardinality(s) \in Nat
    BY <1>1, <1>6
  <2> QED
    BY <2>1
<1> QED
  BY <1>7

\* The element that a fold takes first.
Pick(s) == CHOOSE x \in s : TRUE

\* It is one of the set.
LEMMA PickIn == \A s : s # {} => Pick(s) \in s
  BY DEF Pick

\* What MapThenFoldSet computes of the subsets of T: an element at a time.
FoldedBy(G, f, op, base, T) ==
  /\ G \in [SUBSET T -> Int]
  /\ G[{}] = base
  /\ \A s \in SUBSET T : s # {} => G[s] = op[<<f[Pick(s)], G[s \ {Pick(s)}]>>]

\* An operation that does not depend on the order of what it is applied to.
Unordered(op) ==
  /\ \A a, b \in Int : op[<<a, b>>] \in Int
  /\ \A a, b, c \in Int : op[<<a, op[<<b, c>>]>>] = op[<<b, op[<<a, c>>]>>]

\* What FoldedBy demands of G can be had.
LEMMA FoldExists ==
  ASSUME NEW T, IsFiniteSet(T), NEW f, \A x \in T : f[x] \in Int,
         NEW op, Unordered(op), NEW base \in Int
  PROVE  \E G : FoldedBy(G, f, op, base, T)
<1> DEFINE D(k) == {s \in SUBSET T : Cardinality(s) <= k}
           Value(g, s) == IF s = {} THEN base ELSE op[<<f[Pick(s)], g[s \ {Pick(s)}]>>]
           Upto(g, k) == g \in [D(k) -> Int] /\ \A s \in D(k) : g[s] = Value(g, s)
           S == {k \in Nat : \E g : Upto(g, k)}
<1>1. \A s \in SUBSET T : IsFiniteSet(s) /\ Cardinality(s) \in Nat /\ Cardinality(s) <= Cardinality(T)
  BY FS_Subset, FS_CardinalityType
<1>2. ASSUME NEW s \in SUBSET T, s # {}
      PROVE  /\ Pick(s) \in T
             /\ s \ {Pick(s)} \in SUBSET T /\ Cardinality(s \ {Pick(s)}) = Cardinality(s) - 1
  BY <1>1, <1>2, FS_RemoveElement, PickIn
<1>3. \A s \in SUBSET T : Cardinality(s) = 0 => s = {}
  BY <1>1, FS_EmptySet
<1>4. 0 \in S
  <2> DEFINE g == [s \in D(0) |-> base]
  <2>1. \A s \in D(0) : s = {}
    BY <1>1, <1>3
  <2>2. Upto(g, 0)
    BY <2>1
  <2> HIDE DEF g
  <2> QED
    BY <2>2
<1>5. ASSUME NEW k \in Nat, k \in S PROVE k + 1 \in S
  <2>1. PICK g : Upto(g, k)
    BY <1>5
  <2> DEFINE h == [s \in D(k + 1) |-> Value(g, s)]
  <2>2. ASSUME NEW s \in D(k + 1) PROVE h[s] \in Int /\ h[s] = Value(h, s)
    <3>1. CASE s = {}
      BY <3>1
    <3>2. CASE s # {}
      <4> DEFINE r == s \ {Pick(s)}
      <4>1. r \in D(k) /\ r \in D(k + 1) /\ Pick(s) \in T
        BY <1>1, <1>2, <3>2
      <4>2. g[r] = Value(g, r) /\ g[r] \in Int
        BY <2>1, <4>1
      <4>3. h[r] = g[r]
        BY <4>1, <4>2
      <4>4. h[s] = op[<<f[Pick(s)], g[r]>>]
        BY <3>2
      <4>5. f[Pick(s)] \in Int
        BY <4>1
      <4> HIDE DEF r, h
      <4>6. op[<<f[Pick(s)], g[r]>>] \in Int
        BY <4>5, <4>2 DEF Unordered
      <4> QED
        BY <4>3, <4>4, <4>6, <3>2 DEF r
    <3> QED
      BY <3>1, <3>2
  <2>3. Upto(h, k + 1)
    <3>1. h \in [D(k + 1) -> Int]
      BY <2>2
    <3> QED
      BY <3>1, <2>2
  <2>4. \E r : Upto(r, k + 1)
    <3> HIDE DEF h, Upto
    <3> QED
      BY <2>3
  <2> HIDE DEF Upto, h
  <2> QED
    BY <2>4
<1>6. \A k \in Nat : k \in S
  <2> HIDE DEF S
  <2> QED
    BY <1>4, <1>5, Induction
<1>7. Cardinality(T) \in Nat /\ D(Cardinality(T)) = SUBSET T
  BY <1>1
<1>8. PICK g : Upto(g, Cardinality(T))
  BY <1>6, <1>7
<1>9. g \in [SUBSET T -> Int] /\ \A s \in SUBSET T : g[s] = Value(g, s)
  BY <1>7, <1>8
<1>10. {} \in SUBSET T
  OBVIOUS
<1>11. FoldedBy(g, f, op, base, T)
  BY <1>9, <1>10 DEF FoldedBy
<1> QED
  BY <1>11

\* The order in which elements are picked makes no difference.
LEMMA FoldAnyOrder ==
  ASSUME NEW T, IsFiniteSet(T), NEW f, \A x \in T : f[x] \in Int,
         NEW op, Unordered(op), NEW base \in Int, NEW G, FoldedBy(G, f, op, base, T)
  PROVE  \A s \in SUBSET T : \A x \in s : G[s] = op[<<f[x], G[s \ {x}]>>]
<1> DEFINE Q == {s \in SUBSET T : \A x \in s : G[s] = op[<<f[x], G[s \ {x}]>>]}
<1>1. ASSUME NEW s \in SUBSET T, \A x \in s : s \ {x} \in Q
      PROVE  s \in Q
  <2>1. ASSUME NEW x \in s PROVE G[s] = op[<<f[x], G[s \ {x}]>>]
    <3> DEFINE c == Pick(s)
    <3>1. c \in s /\ s # {}
      BY PickIn
    <3> HIDE DEF c
    <3>2. G[s] = op[<<f[c], G[s \ {c}]>>]
      BY <3>1 DEF FoldedBy, c
    <3>3. CASE x = c
      BY <3>2, <3>3
    <3>4. CASE x # c
      <4> DEFINE r == s \ {x, c}
      <4>1. (s \ {c}) \ {x} = r /\ (s \ {x}) \ {c} = r
        OBVIOUS
      <4>2. x \in s \ {c} /\ c \in s \ {x}
        BY <3>1, <3>4
      <4>3. G[s \ {c}] = op[<<f[x], G[r]>>]
        BY <1>1, <3>1, <4>1, <4>2
      <4>4. G[s \ {x}] = op[<<f[c], G[r]>>]
        BY <1>1, <4>1, <4>2
      <4>5. r \in SUBSET T
        OBVIOUS
      <4>6. f[x] \in Int /\ f[c] \in Int /\ G[r] \in Int
        BY <3>1, <4>5 DEF FoldedBy
      <4> HIDE DEF r
      <4>7. op[<<f[c], op[<<f[x], G[r]>>]>>] = op[<<f[x], op[<<f[c], G[r]>>]>>]
        BY <4>6 DEF Unordered
      <4> QED
        BY <4>7, <4>3, <4>4, <3>2
    <3> QED
      BY <3>3, <3>4
  <2> QED
    BY <2>1
<1>2. \A s \in SUBSET T : s \in Q
  <2> HIDE DEF Q
  <2> QED
    BY <1>1, SubsetInduction
<1> QED
  BY <1>2

\* As SumFunctionOnSet is the sum.
ProductOnSet(f, S) == FoldFunctionOnSet(LAMBDA x, y : x * y, 1, f, S)

Plus == [p \in Int \X Int |-> p[1] + p[2]]
Times == [p \in Int \X Int |-> p[1] * p[2]]

\* Sums and products do not depend on the order.
LEMMA PlusTimesUnordered == Unordered(Plus) /\ Unordered(Times)
<1>1. \A a, b \in Int : Plus[<<a, b>>] = a + b /\ Times[<<a, b>>] = a * b
  BY DEF Plus, Times
<1>2. \A a, b \in Int : a + b \in Int /\ a * b \in Int
  OBVIOUS
<1>3. \A a, b, c \in Int : a + (b + c) = b + (a + c)
  OBVIOUS
<1>4. \A a, b, c \in Int : a * (b * c) = b * (a * c)
  OBVIOUS
<1> QED
  BY <1>1, <1>2, <1>3, <1>4 DEF Unordered

\* What sums and products of a function's values over a subset of T are.
LEMMA SumIsFold ==
  ASSUME NEW T, IsFiniteSet(T), NEW f, \A x \in T : f[x] \in Int,
         NEW G, FoldedBy(G, f, Plus, 0, T)
  PROVE  SumFunctionOnSet(f, T) = G[T]
<1> DEFINE Body(g, s) == IF s = {} THEN 0 ELSE f[Pick(s)] + g[s \ {Pick(s)}]
           iter == CHOOSE g : g = [s \in SUBSET T |-> Body(g, s)]
<1>1. SumFunctionOnSet(f, T) = iter[T]
  BY DEF SumFunctionOnSet, FoldFunctionOnSet, MapThenFoldSet, Pick
<1>2. ASSUME NEW s \in SUBSET T PROVE G[s] = Body(G, s)
  <2>1. CASE s = {}
    BY <2>1 DEF FoldedBy
  <2>2. CASE s # {}
    <3>1. Pick(s) \in T /\ s \ {Pick(s)} \in SUBSET T
      BY <2>2, PickIn
    <3>2. f[Pick(s)] \in Int /\ G[s \ {Pick(s)}] \in Int
      BY <3>1 DEF FoldedBy
    <3>3. G[s] = Plus[<<f[Pick(s)], G[s \ {Pick(s)}]>>]
      BY <2>2 DEF FoldedBy
    <3>4. \A a, b \in Int : Plus[<<a, b>>] = a + b
      BY DEF Plus
    <3>5. G[s] = f[Pick(s)] + G[s \ {Pick(s)}]
      BY <3>2, <3>3, <3>4
    <3> QED
      BY <3>5, <2>2
  <2> QED
    BY <2>1, <2>2
<1>3. G = [s \in SUBSET T |-> Body(G, s)]
  <2>1. G \in [SUBSET T -> Int]
    BY DEF FoldedBy
  <2> HIDE DEF Body
  <2> QED
    BY <1>2, <2>1
<1>4. iter = [s \in SUBSET T |-> Body(iter, s)]
  <2> HIDE DEF Body
  <2>1. \E g : g = [s \in SUBSET T |-> Body(g, s)]
    BY <1>3
  <2> QED
    BY <2>1
<1> DEFINE Q == {s \in SUBSET T : iter[s] = G[s]}
<1>5. ASSUME NEW s \in SUBSET T, \A x \in s : s \ {x} \in Q
      PROVE  s \in Q
  <2>1. s # {} => s \ {Pick(s)} \in Q
    BY <1>5, PickIn
  <2>2. iter[s] = Body(iter, s)
    <3> HIDE DEF iter, Body
    <3> QED
      BY <1>4
  <2> HIDE DEF iter
  <2>3. Body(iter, s) = Body(G, s)
    BY <2>1
  <2> HIDE DEF Body
  <2> QED
    BY <1>2, <2>2, <2>3
<1>6. \A s \in SUBSET T : s \in Q
  <2> HIDE DEF Q
  <2> QED
    BY <1>5, SubsetInduction
<1>7. iter[T] = G[T]
  <2> HIDE DEF iter
  <2> QED
    BY <1>6
<1> QED
  BY <1>1, <1>7

\* The same for products.
LEMMA ProductIsFold ==
  ASSUME NEW T, IsFiniteSet(T), NEW f, \A x \in T : f[x] \in Int,
         NEW G, FoldedBy(G, f, Times, 1, T)
  PROVE  ProductOnSet(f, T) = G[T]
<1> DEFINE Body(g, s) == IF s = {} THEN 1 ELSE f[Pick(s)] * g[s \ {Pick(s)}]
           iter == CHOOSE g : g = [s \in SUBSET T |-> Body(g, s)]
<1>1. ProductOnSet(f, T) = iter[T]
  BY DEF ProductOnSet, FoldFunctionOnSet, MapThenFoldSet, Pick
<1>2. ASSUME NEW s \in SUBSET T PROVE G[s] = Body(G, s)
  <2>1. CASE s = {}
    BY <2>1 DEF FoldedBy
  <2>2. CASE s # {}
    <3>1. Pick(s) \in T /\ s \ {Pick(s)} \in SUBSET T
      BY <2>2, PickIn
    <3>2. f[Pick(s)] \in Int /\ G[s \ {Pick(s)}] \in Int
      BY <3>1 DEF FoldedBy
    <3>3. G[s] = Times[<<f[Pick(s)], G[s \ {Pick(s)}]>>]
      BY <2>2 DEF FoldedBy
    <3>4. \A a, b \in Int : Times[<<a, b>>] = a * b
      BY DEF Times
    <3>5. G[s] = f[Pick(s)] * G[s \ {Pick(s)}]
      BY <3>2, <3>3, <3>4
    <3> QED
      BY <3>5, <2>2
  <2> QED
    BY <2>1, <2>2
<1>3. G = [s \in SUBSET T |-> Body(G, s)]
  <2>1. G \in [SUBSET T -> Int]
    BY DEF FoldedBy
  <2> HIDE DEF Body
  <2> QED
    BY <1>2, <2>1
<1>4. iter = [s \in SUBSET T |-> Body(iter, s)]
  <2> HIDE DEF Body
  <2>1. \E g : g = [s \in SUBSET T |-> Body(g, s)]
    BY <1>3
  <2> QED
    BY <2>1
<1> DEFINE Q == {s \in SUBSET T : iter[s] = G[s]}
<1>5. ASSUME NEW s \in SUBSET T, \A x \in s : s \ {x} \in Q
      PROVE  s \in Q
  <2>1. s # {} => s \ {Pick(s)} \in Q
    BY <1>5, PickIn
  <2>2. iter[s] = Body(iter, s)
    <3> HIDE DEF iter, Body
    <3> QED
      BY <1>4
  <2> HIDE DEF iter
  <2>3. Body(iter, s) = Body(G, s)
    BY <2>1
  <2> HIDE DEF Body
  <2> QED
    BY <1>2, <2>2, <2>3
<1>6. \A s \in SUBSET T : s \in Q
  <2> HIDE DEF Q
  <2> QED
    BY <1>5, SubsetInduction
<1>7. iter[T] = G[T]
  <2> HIDE DEF iter
  <2> QED
    BY <1>6
<1> QED
  BY <1>1, <1>7

\* The sum of a function's values over a finite set, an element at a time.
LEMMA SumSteps ==
  ASSUME NEW T, IsFiniteSet(T), NEW f, \A x \in T : f[x] \in Int
  PROVE  /\ SumFunctionOnSet(f, {}) = 0
         /\ SumFunctionOnSet(f, T) \in Int
         /\ \A x \in T : SumFunctionOnSet(f, T) = f[x] + SumFunctionOnSet(f, T \ {x})
<1> USE PlusTimesUnordered
<1>1. PICK G : FoldedBy(G, f, Plus, 0, T)
  BY FoldExists
<1>2. ASSUME NEW s \in SUBSET T PROVE SumFunctionOnSet(f, s) = G[s]
  <2> DEFINE H == [r \in SUBSET s |-> G[r]]
  <2>1. IsFiniteSet(s) /\ \A x \in s : f[x] \in Int
    BY FS_Subset
  <2>2. \A r \in SUBSET s : r \in SUBSET T /\ (r # {} => r \ {Pick(r)} \in SUBSET s)
    OBVIOUS
  <2>3. FoldedBy(H, f, Plus, 0, s)
    BY <1>1, <2>2 DEF FoldedBy
  <2> HIDE DEF H
  <2>4. SumFunctionOnSet(f, s) = H[s]
    BY <2>1, <2>3, SumIsFold
  <2> QED
    BY <2>4 DEF H
<1>3. \A s \in SUBSET T : G[s] \in Int
  BY <1>1 DEF FoldedBy
<1>4. \A x \in T : G[T] = Plus[<<f[x], G[T \ {x}]>>]
  <2>1. \A s \in SUBSET T : \A x \in s : G[s] = Plus[<<f[x], G[s \ {x}]>>]
    BY <1>1, FoldAnyOrder
  <2> QED
    BY <2>1
<1>5. \A a, b \in Int : Plus[<<a, b>>] = a + b
  BY DEF Plus
<1>6. \A x \in T : G[T] = f[x] + G[T \ {x}]
  BY <1>3, <1>4, <1>5
<1>7. G[{}] = 0
  BY <1>1 DEF FoldedBy
<1>8. {} \in SUBSET T /\ T \in SUBSET T /\ \A x \in T : T \ {x} \in SUBSET T
  OBVIOUS
<1> QED
  BY <1>2, <1>3, <1>6, <1>7, <1>8

\* The product of a function's values over a finite set, an element at a time.
LEMMA ProductSteps ==
  ASSUME NEW T, IsFiniteSet(T), NEW f, \A x \in T : f[x] \in Int
  PROVE  /\ ProductOnSet(f, {}) = 1
         /\ ProductOnSet(f, T) \in Int
         /\ \A x \in T : ProductOnSet(f, T) = f[x] * ProductOnSet(f, T \ {x})
<1> USE PlusTimesUnordered
<1>1. PICK G : FoldedBy(G, f, Times, 1, T)
  BY FoldExists
<1>2. ASSUME NEW s \in SUBSET T PROVE ProductOnSet(f, s) = G[s]
  <2> DEFINE H == [r \in SUBSET s |-> G[r]]
  <2>1. IsFiniteSet(s) /\ \A x \in s : f[x] \in Int
    BY FS_Subset
  <2>2. \A r \in SUBSET s : r \in SUBSET T /\ (r # {} => r \ {Pick(r)} \in SUBSET s)
    OBVIOUS
  <2>3. FoldedBy(H, f, Times, 1, s)
    BY <1>1, <2>2 DEF FoldedBy
  <2> HIDE DEF H
  <2>4. ProductOnSet(f, s) = H[s]
    BY <2>1, <2>3, ProductIsFold
  <2> QED
    BY <2>4 DEF H
<1>3. \A s \in SUBSET T : G[s] \in Int
  BY <1>1 DEF FoldedBy
<1>4. \A x \in T : G[T] = Times[<<f[x], G[T \ {x}]>>]
  <2>1. \A s \in SUBSET T : \A x \in s : G[s] = Times[<<f[x], G[s \ {x}]>>]
    BY <1>1, FoldAnyOrder
  <2> QED
    BY <2>1
<1>5. \A a, b \in Int : Times[<<a, b>>] = a * b
  BY DEF Times
<1>6. \A x \in T : G[T] = f[x] * G[T \ {x}]
  BY <1>3, <1>4, <1>5
<1>7. G[{}] = 1
  BY <1>1 DEF FoldedBy
<1>8. {} \in SUBSET T /\ T \in SUBSET T /\ \A x \in T : T \ {x} \in SUBSET T
  OBVIOUS
<1> QED
  BY <1>2, <1>3, <1>6, <1>7, <1>8

\* A sum in two parts.
LEMMA SumOfUnion ==
  ASSUME NEW A, IsFiniteSet(A), NEW B, IsFiniteSet(B), A \cap B = {},
         NEW f, \A x \in A \cup B : f[x] \in Int
  PROVE  SumFunctionOnSet(f, A \cup B) = SumFunctionOnSet(f, A) + SumFunctionOnSet(f, B)
<1> DEFINE Sum(s) == SumFunctionOnSet(f, s)
           Q == {s \in SUBSET B : Sum(A \cup s) = Sum(A) + Sum(s)}
<1>1. ASSUME NEW s \in SUBSET B
      PROVE  /\ Sum({}) = 0
             /\ Sum(s) \in Int
             /\ \A x \in s : f[x] \in Int /\ Sum(s) = f[x] + Sum(s \ {x})
  <2>1. IsFiniteSet(s) /\ \A x \in s : f[x] \in Int
    BY FS_Subset
  <2> QED
    BY <2>1, SumSteps
<1>2. ASSUME NEW s \in SUBSET B
      PROVE  /\ Sum(A \cup s) \in Int
             /\ \A x \in s : Sum(A \cup s) = f[x] + Sum(A \cup (s \ {x}))
  <2>1. IsFiniteSet(A \cup s) /\ \A x \in A \cup s : f[x] \in Int
    BY FS_Subset, FS_Union
  <2>2. \A x \in s : x \in A \cup s /\ (A \cup s) \ {x} = A \cup (s \ {x})
    OBVIOUS
  <2>3. Sum(A \cup s) \in Int /\ \A x \in A \cup s : Sum(A \cup s) = f[x] + Sum((A \cup s) \ {x})
    BY <2>1, SumSteps
  <2> QED
    BY <2>2, <2>3
<1>3. Sum(A) \in Int
  BY SumSteps
<1> HIDE DEF Sum
<1>4. ASSUME NEW s \in SUBSET B, \A x \in s : s \ {x} \in Q
      PROVE  s \in Q
  <2>1. CASE s = {}
    <3>1. A \cup s = A /\ Sum(s) = 0
      BY <2>1, <1>1
    <3>2. Sum(A \cup s) = Sum(A)
      BY <3>1, Zenon
    <3>3. Sum(A) + 0 = Sum(A)
      BY <1>3
    <3> QED
      BY <3>1, <3>2, <3>3
  <2>2. CASE s # {}
    <3>1. PICK x \in s : TRUE
      BY <2>2
    <3>2. Sum(A \cup (s \ {x})) = Sum(A) + Sum(s \ {x})
      BY <1>4, <3>1
    <3>3. Sum(A \cup s) = f[x] + Sum(A \cup (s \ {x})) /\ Sum(s) = f[x] + Sum(s \ {x})
      BY <1>1, <1>2, <3>1
    <3>4. f[x] \in Int /\ Sum(s \ {x}) \in Int
      BY <1>1, <3>1
    <3>5. Sum(A \cup s) = Sum(A) + Sum(s)
      BY <3>2, <3>3, <3>4, <1>3
    <3> QED
      BY <3>5
  <2> QED
    BY <2>1, <2>2
<1>5. \A s \in SUBSET B : s \in Q
  <2> HIDE DEF Q
  <2> QED
    BY <1>4, SubsetInduction
<1>6. Sum(A \cup B) = Sum(A) + Sum(B)
  BY <1>5
<1> QED
  BY <1>6 DEF Sum

\* A sum over other names for the same terms, all multiplied by a.
LEMMA SumRenamed ==
  ASSUME NEW A, IsFiniteSet(A), NEW f, \A x \in A : f[x] \in Int,
         NEW a \in Int, NEW h, NEW g,
         \A x, y \in A : h[x] = h[y] => x = y,
         \A x \in A : g[h[x]] = a * f[x]
  PROVE  SumFunctionOnSet(g, {h[x] : x \in A}) = a * SumFunctionOnSet(f, A)
<1> DEFINE Sum(s) == SumFunctionOnSet(f, s)
           Image(s) == {h[x] : x \in s}
           SumImage(s) == SumFunctionOnSet(g, Image(s))
           Q == {s \in SUBSET A : SumImage(s) = a * Sum(s)}
<1>1. ASSUME NEW s \in SUBSET A
      PROVE  /\ Sum({}) = 0
             /\ Sum(s) \in Int
             /\ \A x \in s : f[x] \in Int /\ Sum(s) = f[x] + Sum(s \ {x})
  <2>1. IsFiniteSet(s) /\ \A x \in s : f[x] \in Int
    BY FS_Subset
  <2> QED
    BY <2>1, SumSteps
<1>2. ASSUME NEW s \in SUBSET A
      PROVE  /\ SumImage({}) = 0
             /\ \A x \in s : SumImage(s) = a * f[x] + SumImage(s \ {x})
  <2>1. IsFiniteSet(Image(s))
    <3> DEFINE m == [x \in s |-> h[x]]
    <3>1. IsFiniteSet(s)
      BY FS_Subset
    <3>2. m \in Surjection(s, Image(s))
      BY DEF Surjection
    <3> HIDE DEF m, Image
    <3> QED
      BY <3>1, <3>2, FS_Surjection
  <2>2. \A y \in Image(s) : g[y] \in Int
    <3>1. \A b, c \in Int : b * c \in Int
      OBVIOUS
    <3> QED
      BY <3>1
  <2>3. \A x \in s : h[x] \in Image(s) /\ Image(s) \ {h[x]} = Image(s \ {x})
    OBVIOUS
  <2>4. /\ SumFunctionOnSet(g, {}) = 0
        /\ \A y \in Image(s) : SumFunctionOnSet(g, Image(s)) = g[y] + SumFunctionOnSet(g, Image(s) \ {y})
    <3> HIDE DEF Image
    <3> QED
      BY <2>1, <2>2, SumSteps
  <2>5. Image({}) = {}
    OBVIOUS
  <2> QED
    BY <2>3, <2>4, <2>5
<1> HIDE DEF Sum, SumImage, Image
<1>4. ASSUME NEW s \in SUBSET A, \A x \in s : s \ {x} \in Q
      PROVE  s \in Q
  <2>1. CASE s = {}
    <3>1. SumImage(s) = 0 /\ Sum(s) = 0 /\ a * 0 = 0
      BY <2>1, <1>1, <1>2
    <3> QED
      BY <3>1
  <2>2. CASE s # {}
    <3>1. PICK x \in s : TRUE
      BY <2>2
    <3>2. SumImage(s \ {x}) = a * Sum(s \ {x})
      BY <1>4, <3>1
    <3>3. SumImage(s) = a * f[x] + SumImage(s \ {x}) /\ Sum(s) = f[x] + Sum(s \ {x})
      BY <1>1, <1>2, <3>1
    <3>4. f[x] \in Int /\ Sum(s \ {x}) \in Int
      BY <1>1, <3>1
    <3>5. \A b, c \in Int : a * (b + c) = a * b + a * c
      OBVIOUS
    <3>6. SumImage(s) = a * Sum(s)
      BY <3>2, <3>3, <3>4, <3>5
    <3> QED
      BY <3>6
  <2> QED
    BY <2>1, <2>2
<1>5. \A s \in SUBSET A : s \in Q
  <2> HIDE DEF Q
  <2> QED
    BY <1>4, SubsetInduction
<1>6. SumImage(A) = a * Sum(A)
  BY <1>5
<1> QED
  BY <1>6 DEF Sum, SumImage, Image
=============================================================================
