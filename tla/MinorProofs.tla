---------------------------- MODULE MinorProofs -----------------------------
(***************************************************************************)
(* Leading minors of a tridiagonal matrix less v, and the signs they have. *)
(* Sturm.tla defines a minor as a sum over the ways to cover rows; here it is *)
(* shown to satisfy the recurrence of the loop, and the number of sign     *)
(* changes to grow with v.  Both are facts about the matrix, for any order, *)
(* and about no state of sturm but its arguments.                          *)
(***************************************************************************)
EXTENDS Sturm, FoldProofs

\* The arguments are a matrix of integers and an integer.
Given ==
  /\ n \in Nat
  /\ diag \in [0 .. n - 1 -> Int]
  /\ offd \in [0 .. n - 2 -> Int]
  /\ u \in Int

\* ProductSteps for the products of Sturm.
LEMMA ProductFacts ==
  ASSUME NEW T, IsFiniteSet(T), NEW f, \A x \in T : f[x] \in Int
  PROVE  /\ Product(f, {}) = 1
         /\ Product(f, T) \in Int
         /\ \A x \in T : Product(f, T) = f[x] * Product(f, T \ {x})
<1>1. \A S : Product(f, S) = ProductOnSet(f, S)
  BY DEF Product, ProductOnSet
<1> QED
  BY <1>1, ProductSteps

\* The terms are integers, and their factors may be taken out one by one.
LEMMA TermFacts ==
  ASSUME Given, NEW v \in Int, NEW M \in SUBSET (0 .. n - 2), NEW U \in SUBSET (0 .. n - 1)
  PROVE  /\ Term({}, {}, v) = 1
         /\ Term(M, U, v) \in Int
         /\ \A j \in M : Term(M, U, v) = (-offd[j] * offd[j]) * Term(M \ {j}, U, v)
         /\ \A j \in U : Term(M, U, v) = (diag[j] - v) * Term(M, U \ {j}, v)
<1>1. IsFiniteSet(M) /\ IsFiniteSet(U)
  <2>1. IsFiniteSet(0 .. n - 2) /\ IsFiniteSet(0 .. n - 1)
    BY FS_Interval DEF Given
  <2> QED
    BY <2>1, FS_Subset
<1>2. ASSUME NEW j \in 0 .. n - 2
      PROVE  OffTerms[j] = -offd[j] * offd[j] /\ OffTerms[j] \in Int
  <2>1. offd[j] \in Int /\ DOMAIN offd = 0 .. n - 2
    BY DEF Given
  <2>2. \A a \in Int : -a * a \in Int
    OBVIOUS
  <2> QED
    BY <2>1, <2>2 DEF OffTerms
<1>3. ASSUME NEW j \in 0 .. n - 1
      PROVE  DiagTerms(v)[j] = diag[j] - v /\ DiagTerms(v)[j] \in Int
  BY DEF Given, DiagTerms
<1>4. /\ Product(OffTerms, {}) = 1
      /\ Product(OffTerms, M) \in Int
      /\ \A j \in M : /\ Product(OffTerms, M) = OffTerms[j] * Product(OffTerms, M \ {j})
                      /\ Product(OffTerms, M \ {j}) \in Int
  <2>1. \A j \in M : IsFiniteSet(M \ {j})
    BY <1>1, FS_Subset
  <2> QED
    BY <1>1, <1>2, <2>1, ProductFacts
<1>5. /\ Product(DiagTerms(v), {}) = 1
      /\ Product(DiagTerms(v), U) \in Int
      /\ \A j \in U : /\ Product(DiagTerms(v), U) = DiagTerms(v)[j] * Product(DiagTerms(v), U \ {j})
                      /\ Product(DiagTerms(v), U \ {j}) \in Int
  <2>1. \A j \in U : IsFiniteSet(U \ {j})
    BY <1>1, FS_Subset
  <2> QED
    BY <1>1, <1>3, <2>1, ProductFacts
<1>6. \A a, b, c \in Int : (a * b) * c = a * (b * c) /\ b * (a * c) = a * (b * c)
  OBVIOUS
<1>7. \A a, b \in Int : a * b \in Int
  OBVIOUS
<1>8. Term({}, {}, v) = 1
  BY <1>4, <1>5 DEF Term
<1>9. Term(M, U, v) \in Int
  BY <1>4, <1>5, <1>7 DEF Term
<1>10. ASSUME NEW j \in M PROVE Term(M, U, v) = (-offd[j] * offd[j]) * Term(M \ {j}, U, v)
  BY <1>2, <1>4, <1>5, <1>6 DEF Term
<1>11. ASSUME NEW j \in U PROVE Term(M, U, v) = (diag[j] - v) * Term(M, U \ {j}, v)
  BY <1>3, <1>4, <1>5, <1>6 DEF Term
<1> QED
  BY <1>8, <1>9, <1>10, <1>11

\* How the first k rows are covered: row k - 1 is covered alone, or with row k - 2.
LEMMA PairingsRecurrence ==
  ASSUME NEW k \in Nat, k >= 2
  PROVE  LET Extended(M) == M \cup {k - 2}
         IN  /\ Pairings(k) = Pairings(k - 1) \cup {Extended(M) : M \in Pairings(k - 2)}
             /\ Pairings(k - 1) \cap {Extended(M) : M \in Pairings(k - 2)} = {}
             /\ \A M \in Pairings(k - 1) : k - 1 \in Single(k, M) /\ Single(k, M) \ {k - 1} = Single(k - 1, M)
             /\ \A M \in Pairings(k - 2) : /\ Single(k, Extended(M)) = Single(k - 2, M)
                                           /\ k - 2 \notin M
<1> DEFINE Extended(M) == M \cup {k - 2}
<1>1. \A M \in Pairings(k - 1) : M \in Pairings(k) /\ k - 2 \notin M
  BY DEF Pairings
<1>2. ASSUME NEW M \in Pairings(k - 2) PROVE Extended(M) \in Pairings(k) /\ k - 2 \notin M
  BY DEF Pairings
<1>3. ASSUME NEW M \in Pairings(k), k - 2 \notin M PROVE M \in Pairings(k - 1)
  BY <1>3 DEF Pairings
<1>4. ASSUME NEW M \in Pairings(k), k - 2 \in M
      PROVE  M \ {k - 2} \in Pairings(k - 2) /\ M = Extended(M \ {k - 2})
  <2>1. k - 3 \notin M
    BY <1>4 DEF Pairings
  <2>2. M \ {k - 2} \in Pairings(k - 2)
    BY <1>4, <2>1 DEF Pairings
  <2> QED
    BY <1>4, <2>2
<1>5. Pairings(k) = Pairings(k - 1) \cup {Extended(M) : M \in Pairings(k - 2)}
  <2> HIDE DEF Extended
  <2> QED
    BY <1>1, <1>2, <1>3, <1>4
<1>6. Pairings(k - 1) \cap {Extended(M) : M \in Pairings(k - 2)} = {}
  BY <1>1
<1>7. ASSUME NEW M \in Pairings(k - 1)
      PROVE k - 1 \in Single(k, M) /\ Single(k, M) \ {k - 1} = Single(k - 1, M)
  BY DEF Pairings, Single
<1>8. ASSUME NEW M \in Pairings(k - 2) PROVE Single(k, Extended(M)) = Single(k - 2, M)
  BY DEF Pairings, Single
<1> QED
  BY <1>2, <1>5, <1>6, <1>7, <1>8

\* What Det adds up.
Minors(k, v) == [M \in Pairings(k) |-> Term(M, Single(k, M), v)]

\* It is a finite number of integers.
LEMMA MinorTerms ==
  ASSUME Given, NEW v \in Int, NEW k \in 0 .. n
  PROVE  /\ IsFiniteSet(Pairings(k))
         /\ \A M \in Pairings(k) : M \in SUBSET (0 .. n - 2) /\ Single(k, M) \in SUBSET (0 .. n - 1)
         /\ \A M \in Pairings(k) : Minors(k, v)[M] = Term(M, Single(k, M), v) /\ Minors(k, v)[M] \in Int
<1>1. IsFiniteSet(Pairings(k))
  <2>1. IsFiniteSet(0 .. k - 2)
    BY FS_Interval DEF Given
  <2>2. IsFiniteSet(SUBSET (0 .. k - 2))
    BY <2>1, FS_SUBSET
  <2>3. Pairings(k) \subseteq SUBSET (0 .. k - 2)
    BY DEF Pairings
  <2> QED
    BY <2>2, <2>3, FS_Subset
<1>2. ASSUME NEW M \in Pairings(k)
      PROVE M \in SUBSET (0 .. n - 2) /\ Single(k, M) \in SUBSET (0 .. n - 1)
  BY DEF Pairings, Single, Given
<1>3. ASSUME NEW M \in Pairings(k)
      PROVE Minors(k, v)[M] = Term(M, Single(k, M), v) /\ Minors(k, v)[M] \in Int
  <2>1. Term(M, Single(k, M), v) \in Int
    BY <1>2, TermFacts
  <2> QED
    BY <2>1 DEF Minors
<1> QED
  BY <1>1, <1>2, <1>3

\* The minors of orders 0 and 1.
LEMMA FirstMinors ==
  ASSUME Given, NEW v \in Int
  PROVE  /\ Det(0, v) = 1
         /\ n > 0 => Det(1, v) = diag[0] - v
<1>0. n \in Nat
  BY DEF Given
<1>1. ASSUME NEW k \in {0, 1}, k <= n
      PROVE  Det(k, v) = Term({}, Single(k, {}), v)
  <2>1. Pairings(k) = {{}}
    BY DEF Pairings
  <2>2. k \in 0 .. n
    BY <1>0, <1>1
  <2>3. Det(k, v) = Minors(k, v)[{}] + SumFunctionOnSet(Minors(k, v), {{}} \ {{}}) /\ SumFunctionOnSet(Minors(k, v), {}) = 0
    <3>1. Det(k, v) = SumFunctionOnSet(Minors(k, v), {{}})
      BY <2>1 DEF Det, Minors
    <3>2. IsFiniteSet({{}}) /\ \A M \in {{}} : Minors(k, v)[M] \in Int
      BY <2>1, <2>2, MinorTerms
    <3> QED
      BY <3>1, <3>2, SumSteps
  <2>4. {{}} \ {{}} = {}
    OBVIOUS
  <2>5. SumFunctionOnSet(Minors(k, v), {{}} \ {{}}) = 0
    BY <2>3, <2>4, Zenon
  <2>6. Minors(k, v)[{}] = Term({}, Single(k, {}), v) /\ Minors(k, v)[{}] \in Int
    BY <2>1, <2>2, MinorTerms
  <2> QED
    BY <2>3, <2>5, <2>6
<1>2. Single(0, {}) = {} /\ Single(1, {}) = {0}
  BY DEF Single
<1>3. Det(0, v) = 1
  <2>1. Det(0, v) = Term({}, {}, v)
    BY <1>0, <1>1, <1>2
  <2>2. {} \in SUBSET (0 .. n - 1) /\ {} \in SUBSET (0 .. n - 2)
    OBVIOUS
  <2> QED
    BY <2>1, <2>2, TermFacts
<1>4. ASSUME n > 0 PROVE Det(1, v) = diag[0] - v
  <2>1. Det(1, v) = Term({}, {0}, v)
    BY <1>0, <1>1, <1>2, <1>4
  <2>2. {0} \in SUBSET (0 .. n - 1) /\ {} \in SUBSET (0 .. n - 2) /\ {0} \ {0} = {}
    BY <1>0, <1>4
  <2>3. Term({}, {0}, v) = (diag[0] - v) * Term({}, {0} \ {0}, v)
    BY <2>2, TermFacts
  <2>4. Term({}, {}, v) = 1
    BY <2>2, TermFacts
  <2>5. Term({}, {0} \ {0}, v) = 1
    BY <2>2, <2>4, Zenon
  <2>6. diag[0] - v \in Int
    BY <1>0, <1>4 DEF Given
  <2> QED
    BY <2>1, <2>3, <2>5, <2>6
<1> QED
  BY <1>3, <1>4

\* A sum over the ways to cover k rows, split by how the last row is covered.
LEMMA MinorRecurrence ==
  ASSUME Given, NEW v \in Int, NEW k \in 2 .. n
  PROVE  /\ Det(k, v) = (diag[k - 1] - v) * Det(k - 1, v) + (-offd[k - 2] * offd[k - 2]) * Det(k - 2, v)
         /\ Det(k, v) \in Int
<1> DEFINE d == diag[k - 1] - v
           e == -offd[k - 2] * offd[k - 2]
           h == [M \in Pairings(k - 2) |-> M \cup {k - 2}]
           id == [M \in Pairings(k - 1) |-> M]
           A == Pairings(k - 1)
           B == {h[M] : M \in Pairings(k - 2)}
           f == Minors(k, v)
<1>0. n \in Nat /\ k \in Nat /\ k >= 2 /\ k \in 0 .. n /\ k - 1 \in 0 .. n /\ k - 2 \in 0 .. n
  BY DEF Given
<1>1. d \in Int /\ e \in Int /\ k - 1 \in 0 .. n - 1 /\ k - 2 \in 0 .. n - 2
  <2>1. diag[k - 1] \in Int /\ offd[k - 2] \in Int /\ u \in Int
    BY <1>0 DEF Given
  <2>2. \A a \in Int : -a * a \in Int
    OBVIOUS
  <2> QED
    BY <1>0, <2>1, <2>2
<1>2. B = {M \cup {k - 2} : M \in Pairings(k - 2)}
  OBVIOUS
<1>3. Pairings(k) = A \cup B /\ A \cap B = {}
  BY <1>0, <1>2, PairingsRecurrence
<1>4. ASSUME NEW M \in A PROVE f[id[M]] = d * Minors(k - 1, v)[M]
  <2>1. M \in Pairings(k) /\ k - 1 \in Single(k, M) /\ Single(k, M) \ {k - 1} = Single(k - 1, M)
    BY <1>0, <1>3, PairingsRecurrence
  <2>2. M \in SUBSET (0 .. n - 2) /\ Single(k, M) \in SUBSET (0 .. n - 1)
    BY <1>0, <2>1, MinorTerms
  <2>3. Term(M, Single(k, M), v) = d * Term(M, Single(k, M) \ {k - 1}, v)
    BY <2>1, <2>2, TermFacts
  <2>4. f[M] = Term(M, Single(k, M), v) /\ Minors(k - 1, v)[M] = Term(M, Single(k - 1, M), v)
    BY <1>0, <2>1, MinorTerms
  <2>5. id[M] = M
    OBVIOUS
  <2> HIDE DEF f, d, id
  <2> QED
    BY <2>1, <2>3, <2>4, <2>5
<1>5. ASSUME NEW M \in Pairings(k - 2) PROVE f[h[M]] = e * Minors(k - 2, v)[M]
  <2>1. /\ h[M] = M \cup {k - 2}
        /\ h[M] \in Pairings(k) /\ k - 2 \in h[M] /\ h[M] \ {k - 2} = M
        /\ Single(k, h[M]) = Single(k - 2, M)
    BY <1>0, <1>2, <1>3, PairingsRecurrence
  <2> HIDE DEF h
  <2>2. h[M] \in SUBSET (0 .. n - 2) /\ Single(k, h[M]) \in SUBSET (0 .. n - 1)
    BY <1>0, <2>1, MinorTerms
  <2>3. Term(h[M], Single(k, h[M]), v) = e * Term(h[M] \ {k - 2}, Single(k, h[M]), v)
    <3>1. \A N \in SUBSET (0 .. n - 2), U \in SUBSET (0 .. n - 1) :
            \A j \in N : Term(N, U, v) = (-offd[j] * offd[j]) * Term(N \ {j}, U, v)
      BY TermFacts
    <3> QED
      BY <2>1, <2>2, <3>1
  <2>4. f[h[M]] = Term(h[M], Single(k, h[M]), v) /\ Minors(k - 2, v)[M] = Term(M, Single(k - 2, M), v)
    BY <1>0, <2>1, MinorTerms
  <2> HIDE DEF f, e
  <2>5. Term(h[M] \ {k - 2}, Single(k, h[M]), v) = Term(M, Single(k - 2, M), v)
    BY <2>1, Zenon
  <2> QED
    BY <2>3, <2>4, <2>5, Zenon
<1>6. IsFiniteSet(A) /\ IsFiniteSet(B) /\ IsFiniteSet(Pairings(k - 2))
  <2>1. IsFiniteSet(Pairings(k)) /\ B \subseteq Pairings(k)
    BY <1>0, <1>3, MinorTerms
  <2> QED
    BY <1>0, <2>1, MinorTerms, FS_Subset
<1>7. SumFunctionOnSet(f, A) = d * Det(k - 1, v) /\ Det(k - 1, v) \in Int
  <2>1. \A M \in A : Minors(k - 1, v)[M] \in Int
    BY <1>0, MinorTerms
  <2>2. \A M, N \in A : id[M] = id[N] => M = N
    OBVIOUS
  <2>3. {id[M] : M \in A} = A
    OBVIOUS
  <2> HIDE DEF f, d, id, A
  <2>4. SumFunctionOnSet(f, {id[M] : M \in A}) = d * SumFunctionOnSet(Minors(k - 1, v), A)
    BY <1>1, <1>4, <1>6, <2>1, <2>2, SumRenamed
  <2>5. Det(k - 1, v) = SumFunctionOnSet(Minors(k - 1, v), A)
    BY DEF Det, Minors, A
  <2>6. SumFunctionOnSet(Minors(k - 1, v), A) \in Int
    BY <1>6, <2>1, SumSteps
  <2> QED
    BY <2>3, <2>4, <2>5, <2>6
<1>8. SumFunctionOnSet(f, B) = e * Det(k - 2, v) /\ Det(k - 2, v) \in Int
  <2> DEFINE P == Pairings(k - 2)
  <2>1. \A M \in P : Minors(k - 2, v)[M] \in Int
    BY <1>0, MinorTerms
  <2>2. ASSUME NEW M \in P, NEW N \in P, h[M] = h[N] PROVE M = N
    <3>1. k - 2 \notin M /\ k - 2 \notin N
      BY <1>0, PairingsRecurrence
    <3>2. M \cup {k - 2} = N \cup {k - 2}
      BY <2>2
    <3> QED
      BY <3>1, <3>2
  <2>3. SumFunctionOnSet(f, B) = e * SumFunctionOnSet(Minors(k - 2, v), P)
    <3> HIDE DEF f, e, h
    <3> QED
      BY <1>1, <1>5, <1>6, <2>1, <2>2, SumRenamed
  <2>4. Det(k - 2, v) = SumFunctionOnSet(Minors(k - 2, v), P)
    BY DEF Det, Minors
  <2>5. SumFunctionOnSet(Minors(k - 2, v), P) \in Int
    BY <1>6, <2>1, SumSteps
  <2> HIDE DEF f, e, h, P, B
  <2> QED
    BY <2>3, <2>4, <2>5
<1>9. Det(k, v) = SumFunctionOnSet(f, A) + SumFunctionOnSet(f, B)
  <2>1. \A M \in A \cup B : f[M] \in Int
    BY <1>0, <1>3, MinorTerms
  <2>2. Det(k, v) = SumFunctionOnSet(f, A \cup B)
    BY <1>3 DEF Det, Minors
  <2> HIDE DEF f, A, B
  <2> QED
    BY <1>3, <1>6, <2>1, <2>2, SumOfUnion
<1>10. \A a, b \in Int : a * b \in Int /\ a + b \in Int
  OBVIOUS
<1> HIDE DEF f, A, B, d, e
<1>11. Det(k, v) = d * Det(k - 1, v) + e * Det(k - 2, v) /\ Det(k, v) \in Int
  BY <1>1, <1>7, <1>8, <1>9, <1>10
<1> QED
  BY <1>11 DEF d, e

\* The recurrence as the loop of sturm has it.
LEMMA NextMinor ==
  ASSUME Given, NEW v \in Int
  PROVE  /\ \A k \in 0 .. n : Det(k, v) \in Int
         /\ Det(0, v) = 1
         /\ n > 0 => Det(1, v) = diag[0] - v
         /\ \A k \in 1 .. n - 1 :
              Det(k + 1, v) = (diag[k] - v) * Det(k, v) - offd[k - 1] * offd[k - 1] * Det(k - 1, v)
<1>0. n \in Nat
  BY DEF Given
<1>1. ASSUME NEW k \in 0 .. n PROVE Det(k, v) \in Int
  <2>1. CASE k = 0
    BY <2>1, FirstMinors
  <2>2. CASE k = 1
    <3>1. diag[0] - v \in Int /\ n > 0
      BY <1>0, <2>2 DEF Given
    <3> QED
      BY <2>2, <3>1, FirstMinors
  <2>3. CASE k \in 2 .. n
    BY <2>3, MinorRecurrence
  <2> QED
    BY <1>0, <2>1, <2>2, <2>3
<1>2. ASSUME NEW k \in 1 .. n - 1
      PROVE  Det(k + 1, v) = (diag[k] - v) * Det(k, v) - offd[k - 1] * offd[k - 1] * Det(k - 1, v)
  <2>1. k + 1 \in 2 .. n /\ (k + 1) - 1 = k /\ (k + 1) - 2 = k - 1
    BY <1>0
  <2>2. Det(k + 1, v) = (diag[k] - v) * Det(k, v) + (-offd[k - 1] * offd[k - 1]) * Det(k - 1, v)
    BY <2>1, MinorRecurrence
  <2>3. diag[k] - v \in Int /\ offd[k - 1] \in Int /\ Det(k, v) \in Int /\ Det(k - 1, v) \in Int
    BY <1>0, <1>1 DEF Given
  <2>4. (diag[k] - v) * Det(k, v) \in Int
    BY <2>3
  <2>5. \A a, b, c \in Int : a - b * b * c = a + (-b * b) * c
    OBVIOUS
  <2> QED
    BY <2>2, <2>3, <2>4, <2>5
<1> QED
  BY <1>1, <1>2, FirstMinors
-----------------------------------------------------------------------------
(* Sign changes, and how they move with the point.                          *)

\* The sign changes up to the next minor.
LEMMA CountSigns ==
  ASSUME Given, NEW v \in Int
  PROVE  /\ SignChanges(0, v) = 0
         /\ \A k \in 0 .. n : SignChanges(k, v) \in Nat
         /\ \A k \in 0 .. n - 1 : SignChanges(k + 1, v) =
              IF SignChange(Det(k + 1, v), Det(k, v)) THEN SignChanges(k, v) + 1 ELSE SignChanges(k, v)
<1> DEFINE Changing(k) == {j \in 1 .. k : SignChange(Det(j, v), Det(j - 1, v))}
<1>0. n \in Nat
  BY DEF Given
<1>1. ASSUME NEW k \in 0 .. n PROVE IsFiniteSet(Changing(k)) /\ Cardinality(Changing(k)) \in Nat
  <2>1. IsFiniteSet(1 .. k) /\ Changing(k) \subseteq 1 .. k
    BY <1>0, FS_Interval
  <2> HIDE DEF Changing
  <2> QED
    BY <2>1, FS_Subset, FS_CardinalityType
<1>2. Cardinality(Changing(0)) = 0
  <2>1. Changing(0) = {}
    OBVIOUS
  <2> QED
    BY <2>1, FS_EmptySet
<1>3. ASSUME NEW k \in 0 .. n - 1
      PROVE  Cardinality(Changing(k + 1)) =
               IF SignChange(Det(k + 1, v), Det(k, v)) THEN Cardinality(Changing(k)) + 1 ELSE Cardinality(Changing(k))
  <2>0. (k + 1) - 1 = k /\ k \in Nat /\ k \in 0 .. n
    BY <1>0
  <2>1. CASE SignChange(Det(k + 1, v), Det(k, v))
    <3>1. Changing(k + 1) = Changing(k) \cup {k + 1} /\ k + 1 \notin Changing(k)
      BY <2>0, <2>1
    <3> HIDE DEF Changing
    <3> QED
      BY <1>1, <2>0, <2>1, <3>1, FS_AddElement
  <2>2. CASE ~SignChange(Det(k + 1, v), Det(k, v))
    <3>1. Changing(k + 1) = Changing(k)
      BY <2>0, <2>2
    <3> HIDE DEF Changing
    <3> QED
      BY <2>2, <3>1
  <2> QED
    BY <2>1, <2>2
<1>4. \A k : SignChanges(k, v) = Cardinality(Changing(k))
  BY DEF SignChanges
<1> HIDE DEF Changing
<1> QED
  BY <1>1, <1>2, <1>3, <1>4

\* The sign of a leading minor is that of -1 to the number of sign changes.
LEMMA SignFromCount ==
  ASSUME Given, NEW v \in Int
  PROVE  \A k \in 0 .. n : Det(k, v) < 0 <=> SignChanges(k, v) % 2 = 1
<1> DEFINE S == {k \in Nat : k <= n => (Det(k, v) < 0 <=> SignChanges(k, v) % 2 = 1)}
<1>0. n \in Nat
  BY DEF Given
<1>1. 0 \in S
  BY NextMinor, CountSigns
<1>2. ASSUME NEW k \in Nat, k \in S PROVE k + 1 \in S
  <2> SUFFICES ASSUME k + 1 <= n PROVE Det(k + 1, v) < 0 <=> SignChanges(k + 1, v) % 2 = 1
    OBVIOUS
  <2>1. k \in 0 .. n - 1 /\ k \in 0 .. n /\ k + 1 \in 0 .. n
    BY <1>0
  <2>2. Det(k, v) < 0 <=> SignChanges(k, v) % 2 = 1
    BY <1>2, <2>1
  <2>3. SignChanges(k + 1, v) =
          IF SignChange(Det(k + 1, v), Det(k, v)) THEN SignChanges(k, v) + 1 ELSE SignChanges(k, v)
    BY <2>1, CountSigns
  <2>4. SignChanges(k, v) \in Nat
    BY <2>1, CountSigns
  <2>5. \A a \in Nat : a % 2 = 1 <=> ~((a + 1) % 2 = 1)
    OBVIOUS
  <2> QED
    BY <2>2, <2>3, <2>4, <2>5 DEF SignChange
<1>3. \A k \in Nat : k \in S
  <2> HIDE DEF S
  <2> QED
    BY <1>1, <1>2, Induction
<1> QED
  BY <1>0, <1>3

\* x and y are the last two minors at one point, z and w at a later point, with
\* as many sign changes before them.  The later point has moved on: it has no
\* sign change here where the other has one, or the ratio of its last two is less.
Later(x, y, z, w) ==
  \/ SignChange(x, y) /\ ~SignChange(z, w)
  \/ (y < 0 <=> w < 0) /\ y * z < x * w

\* Signs of products.
LEMMA Signs ==
  \A a, b \in Int :
    /\ a * b \in Int
    /\ a >= 0 /\ b >= 0 => a * b >= 0
    /\ a >= 0 /\ b <= 0 => a * b <= 0
    /\ a <= 0 /\ b >= 0 => a * b <= 0
    /\ a <= 0 /\ b <= 0 => a * b >= 0
    /\ a > 0 /\ b > 0 => a * b > 0
    /\ a < 0 /\ b < 0 => a * b > 0
    /\ a * b = 0 => a = 0 \/ b = 0
  OBVIOUS

\* One more step of the recurrence at both points, where the diagonal element
\* less the point is p and q.
LEMMA LaterStep ==
  ASSUME NEW x \in Int, NEW y \in Int, NEW z \in Int, NEW w \in Int,
         NEW p \in Int, NEW q \in Int, q < p, NEW c \in Int, c > 0,
         x # 0 \/ y # 0, z # 0 \/ w # 0,
         (x < 0 <=> z < 0), Later(x, y, z, w),
         NEW X \in Int, NEW Z \in Int, X = p * x - c * y, Z = q * z - c * w
  PROVE  \/ SignChange(Z, z) /\ ~SignChange(X, x)
         \/ (SignChange(Z, z) <=> SignChange(X, x)) /\ Later(X, x, Z, z)
<1> DEFINE E == x * w - y * z
<1>1. /\ x * w \in Int /\ y * z \in Int /\ x * z \in Int
      /\ z * x = x * z /\ c * y \in Int /\ c * w \in Int
      /\ p * x \in Int /\ q * z \in Int
  BY Signs
<1>2. X * z - x * Z = (p - q) * (x * z) + c * E
  <2>1. \A a, b, d \in Int : (a - b) * d = a * d - b * d /\ d * (a - b) = d * a - d * b
    OBVIOUS
  <2>2. \A a, b, d \in Int : (a * b) * d = a * (b * d) /\ d * (a * b) = a * (d * b)
    OBVIOUS
  <2>3. X * z = p * (x * z) - c * (y * z)
    BY <1>1, <2>1, <2>2
  <2>4. x * Z = q * (x * z) - c * (x * w)
    BY <1>1, <2>1, <2>2
  <2>5. (p - q) * (x * z) = p * (x * z) - q * (x * z)
    BY <1>1, <2>1
  <2>6. c * E = c * (x * w) - c * (y * z)
    BY <1>1, <2>1
  <2>7. p * (x * z) \in Int /\ q * (x * z) \in Int /\ c * (x * w) \in Int /\ c * (y * z) \in Int
    BY <1>1, Signs
  <2> QED
    BY <2>3, <2>4, <2>5, <2>6, <2>7
<1>3. (p - q) * (x * z) >= 0
  <2>1. x * z >= 0
    BY Signs
  <2> QED
    BY <1>1, <2>1, Signs
<1>4. ASSUME E > 0 PROVE x * Z < X * z
  <2>1. c * E > 0
    BY <1>1, <1>4, Signs
  <2>2. (p - q) * (x * z) \in Int /\ c * E \in Int /\ X * z \in Int /\ x * Z \in Int
    <3>1. p - q \in Int /\ E \in Int
      BY <1>1
    <3> HIDE DEF E
    <3> QED
      BY <1>1, <3>1, Signs
  <2> HIDE DEF E
  <2> QED
    BY <1>2, <1>3, <2>1, <2>2
<1>5. E > 0 \/ (x = 0 /\ z = 0 /\ y < 0 /\ w > 0)
  <2>1. CASE SignChange(x, y) /\ ~SignChange(z, w)
    <3>1. CASE x < 0
      <4>1. w < 0 /\ y >= 0 /\ z < 0
        BY <2>1, <3>1 DEF SignChange
      <4>2. x * w > 0 /\ y * z <= 0
        BY <3>1, <4>1, Signs
      <4> QED
        BY <1>1, <4>2
    <3>2. CASE x >= 0
      <4>1. w >= 0 /\ y < 0 /\ z >= 0
        BY <2>1, <3>2 DEF SignChange
      <4>2. x * w >= 0 /\ y * z <= 0
        BY <3>2, <4>1, Signs
      <4>3. CASE x * w = 0 /\ y * z = 0
        <5>1. z = 0
          BY <4>1, <4>3, Signs
        <5>2. w > 0
          BY <4>1, <5>1
        <5>3. x = 0
          BY <4>3, <5>2, Signs
        <5> QED
          BY <4>1, <5>1, <5>2, <5>3
      <4> QED
        BY <1>1, <4>2, <4>3
    <3> QED
      BY <3>1, <3>2
  <2>2. CASE y * z < x * w
    BY <1>1, <2>2
  <2> QED
    BY <2>1, <2>2 DEF Later
<1>6. CASE x = 0 /\ z = 0 /\ y < 0 /\ w > 0
  <2>1. p * x = 0 /\ q * z = 0
    BY <1>6
  <2>2. c * y < 0 /\ c * w > 0
    <3>1. \A a, b \in Int : a > 0 /\ b < 0 => a * b < 0
      OBVIOUS
    <3> QED
      BY <1>6, <3>1, Signs
  <2>3. X > 0 /\ Z < 0
    BY <1>1, <2>1, <2>2
  <2> QED
    BY <1>6, <2>3 DEF SignChange
<1>7. CASE E > 0
  <2>1. x * Z < X * z
    BY <1>4, <1>7
  <2>2. ~(SignChange(X, x) /\ ~SignChange(Z, z))
    <3> SUFFICES ASSUME SignChange(X, x), ~SignChange(Z, z) PROVE FALSE
      OBVIOUS
    <3>1. CASE x < 0
      <4>1. X >= 0 /\ Z < 0 /\ z < 0
        BY <3>1 DEF SignChange
      <4>2. X * z <= 0 /\ x * Z > 0
        BY <3>1, <4>1, Signs
      <4> QED
        BY <2>1, <4>2, Signs
    <3>2. CASE x >= 0
      <4>1. X < 0 /\ Z >= 0 /\ z >= 0
        BY <3>2 DEF SignChange
      <4>2. X * z <= 0 /\ x * Z >= 0
        BY <3>2, <4>1, Signs
      <4> QED
        BY <2>1, <4>2, Signs
    <3> QED
      BY <3>1, <3>2
  <2>3. Later(X, x, Z, z)
    BY <2>1 DEF Later
  <2> QED
    BY <2>2, <2>3 DEF SignChange
<1> QED
  BY <1>5, <1>6, <1>7

\* Two leading minors in a row that are zero leave none after them that is not.
LEMMA ZerosStay ==
  ASSUME Given, NEW v \in Int, NEW k \in 1 .. n, Det(k, v) = 0, Det(k - 1, v) = 0
  PROVE  Det(n, v) = 0
<1> DEFINE S == {j \in Nat : k + j <= n => Det(k + j, v) = 0 /\ Det((k + j) - 1, v) = 0}
<1>0. n \in Nat /\ k \in Nat
  BY DEF Given
<1>1. 0 \in S
  BY <1>0
<1>2. ASSUME NEW j \in Nat, j \in S PROVE j + 1 \in S
  <2> SUFFICES ASSUME k + (j + 1) <= n
               PROVE  Det(k + (j + 1), v) = 0 /\ Det((k + (j + 1)) - 1, v) = 0
    OBVIOUS
  <2>1. PICK h \in 1 .. n - 1 : h = k + j /\ k + (j + 1) = h + 1 /\ (h + 1) - 1 = h
    BY <1>0
  <2>2. Det(h, v) = 0 /\ Det(h - 1, v) = 0
    BY <1>0, <1>2, <2>1
  <2>3. Det(h + 1, v) = (diag[h] - v) * Det(h, v) - offd[h - 1] * offd[h - 1] * Det(h - 1, v)
    BY NextMinor
  <2>4. diag[h] - v \in Int /\ offd[h - 1] \in Int
    BY <1>0 DEF Given
  <2>5. \A a, b \in Int : a * 0 - b * b * 0 = 0
    OBVIOUS
  <2> QED
    BY <2>1, <2>2, <2>3, <2>4, <2>5
<1>3. \A j \in Nat : j \in S
  <2> HIDE DEF S
  <2> QED
    BY <1>1, <1>2, Induction
<1>4. n - k \in S /\ n - k \in Nat /\ k + (n - k) = n
  BY <1>0, <1>3
<1> QED
  BY <1>4

\* As Sturm has it: no two leading minors in a row are zero.
LEMMA MinorsNotBothZero ==
  ASSUME Given, Unreduced, NEW v \in Int
  PROVE  \A k \in 1 .. n : Det(k, v) # 0 \/ Det(k - 1, v) # 0
<1> DEFINE S == {k \in Nat : k + 1 <= n => Det(k + 1, v) # 0 \/ Det(k, v) # 0}
<1>0. n \in Nat
  BY DEF Given
<1>1. 0 \in S
  BY NextMinor
<1>2. ASSUME NEW k \in Nat, k \in S PROVE k + 1 \in S
  <2> SUFFICES ASSUME (k + 1) + 1 <= n, Det(k + 1, v) = 0 PROVE Det((k + 1) + 1, v) # 0
    OBVIOUS
  <2> DEFINE j == k + 1
  <2>0. j \in 1 .. n - 1 /\ j - 1 = k /\ k \in 0 .. n /\ j \in 0 .. n
    BY <1>0
  <2>1. Det(k, v) # 0
    BY <1>0, <1>2
  <2>2. Det(j + 1, v) = (diag[j] - v) * Det(j, v) - offd[j - 1] * offd[j - 1] * Det(j - 1, v)
    BY <2>0, NextMinor
  <2>3. diag[j] - v \in Int /\ offd[j - 1] \in Int /\ offd[j - 1] # 0 /\ Det(k, v) \in Int
    <3>1. j \in 0 .. n - 1 /\ j - 1 \in 0 .. n - 2
      BY <1>0, <2>0
    <3> HIDE DEF j
    <3>2. diag[j] - v \in Int /\ offd[j - 1] \in Int /\ offd[j - 1] # 0
      BY <3>1 DEF Given, Unreduced
    <3> QED
      BY <2>0, <3>2, NextMinor
  <2>4. (diag[j] - v) * 0 = 0
    BY <2>3
  <2>5. \A a, b \in Int : a # 0 /\ b # 0 => a * a * b # 0 /\ a * a * b \in Int
    <3>1. \A a, b \in Int : a # 0 /\ b # 0 => a * b # 0 /\ a * b \in Int
      OBVIOUS
    <3> QED
      BY <3>1
  <2>6. offd[j - 1] * offd[j - 1] * Det(j - 1, v) # 0 /\ offd[j - 1] * offd[j - 1] * Det(j - 1, v) \in Int
    BY <2>0, <2>1, <2>3, <2>5
  <2> QED
    BY <2>2, <2>4, <2>6
<1>3. \A k \in Nat : k \in S
  <2> HIDE DEF S
  <2> QED
    BY <1>1, <1>2, Induction
<1>4. ASSUME NEW k \in 1 .. n PROVE Det(k, v) # 0 \/ Det(k - 1, v) # 0
  <2>1. k - 1 \in S /\ (k - 1) + 1 = k
    BY <1>0, <1>3
  <2> QED
    BY <1>0, <2>1
<1> QED
  BY <1>4

\* Up to order k the later point b has more sign changes, or as many and has
\* moved on.
Ahead(k, a, b) ==
  \/ SignChanges(k, a) < SignChanges(k, b)
  \/ /\ SignChanges(k, a) = SignChanges(k, b)
     /\ Later(Det(k, a), Det(k - 1, a), Det(k, b), Det(k - 1, b))

\* It is ahead at the first minor, and no row lets it fall back.
LEMMA StaysAhead ==
  ASSUME Given, Unreduced, NEW a \in Int, NEW b \in Int, a < b
  PROVE  \A k \in 1 .. n : Ahead(k, a, b)
<1> DEFINE S == {k \in Nat : k + 1 <= n => Ahead(k + 1, a, b)}
<1>0. n \in Nat
  BY DEF Given
<1>1. 0 \in S
  <2> SUFFICES ASSUME 1 <= n PROVE Ahead(1, a, b)
    BY DEF Ahead
  <2> DEFINE x == diag[0] - a
             z == diag[0] - b
  <2>1. x \in Int /\ z \in Int /\ z < x
    BY <1>0 DEF Given
  <2>2. /\ Det(1, a) = x /\ Det(0, a) = 1 /\ Det(1, b) = z /\ Det(0, b) = 1
        /\ SignChanges(0, a) = 0 /\ SignChanges(0, b) = 0
    BY <1>0, NextMinor, CountSigns
  <2>3. 0 \in 0 .. n - 1 /\ 0 + 1 = 1 /\ 1 - 1 = 0
    BY <1>0
  <2>4. /\ SignChanges(1, a) = IF SignChange(x, 1) THEN 1 ELSE 0
        /\ SignChanges(1, b) = IF SignChange(z, 1) THEN 1 ELSE 0
    BY <2>2, <2>3, CountSigns
  <2> HIDE DEF x, z
  <2>5. (1 < 0 <=> 1 < 0) /\ 1 * z < x * 1
    BY <2>1
  <2> QED
    BY <2>1, <2>2, <2>3, <2>4, <2>5 DEF Ahead, Later, SignChange
<1>2. ASSUME NEW k \in Nat, k \in S PROVE k + 1 \in S
  <2> DEFINE j == k + 1
             x == Det(j, a)
             y == Det(j - 1, a)
             z == Det(j, b)
             w == Det(j - 1, b)
             X == Det(j + 1, a)
             Z == Det(j + 1, b)
             p == diag[j] - a
             q == diag[j] - b
             c == offd[j - 1] * offd[j - 1]
             N == SignChanges(j, a)
             M == SignChanges(j, b)
  <2> SUFFICES ASSUME j + 1 <= n PROVE Ahead(j + 1, a, b)
    OBVIOUS
  <2>0. /\ j \in 1 .. n - 1 /\ j \in 0 .. n /\ j - 1 \in 0 .. n /\ j \in 0 .. n - 1 /\ j + 1 \in 0 .. n
        /\ (j + 1) - 1 = j /\ j \in 1 .. n
    BY <1>0
  <2>1. Ahead(j, a, b)
    BY <1>0, <1>2
  <2>2. /\ x \in Int /\ y \in Int /\ z \in Int /\ w \in Int /\ X \in Int /\ Z \in Int
    BY <2>0, NextMinor
  <2>3. X = p * x - c * y /\ Z = q * z - c * w
    BY <2>0, NextMinor
  <2>4. /\ p \in Int /\ q \in Int /\ q < p
        /\ c \in Int /\ c > 0
    <3>1. diag[j] \in Int /\ offd[j - 1] \in Int /\ offd[j - 1] # 0
      BY <2>0 DEF Given, Unreduced
    <3>2. \A d \in Int : d # 0 => d * d > 0
      OBVIOUS
    <3> QED
      BY <3>1, <3>2
  <2>5. (x # 0 \/ y # 0) /\ (z # 0 \/ w # 0)
    BY <2>0, MinorsNotBothZero
  <2>6. /\ N \in Nat /\ M \in Nat
        /\ SignChanges(j + 1, a) = IF SignChange(X, x) THEN N + 1 ELSE N
        /\ SignChanges(j + 1, b) = IF SignChange(Z, z) THEN M + 1 ELSE M
    BY <2>0, CountSigns
  <2>7. (x < 0 <=> N % 2 = 1) /\ (z < 0 <=> M % 2 = 1)
    BY <2>0, SignFromCount
  <2>8. N < M \/ (N = M /\ Later(x, y, z, w))
    BY <2>1 DEF Ahead
  <2>9. SUFFICES \/ SignChanges(j + 1, a) < SignChanges(j + 1, b)
                 \/ /\ SignChanges(j + 1, a) = SignChanges(j + 1, b)
                    /\ Later(X, x, Z, z)
    BY <2>0 DEF Ahead
  <2> HIDE DEF x, y, z, w, X, Z, p, q, c, N, M
  <2>10. CASE N = M /\ Later(x, y, z, w)
    <3>1. (x < 0 <=> z < 0)
      BY <2>7, <2>10
    <3>2. \/ SignChange(Z, z) /\ ~SignChange(X, x)
          \/ (SignChange(Z, z) <=> SignChange(X, x)) /\ Later(X, x, Z, z)
      BY <2>2, <2>3, <2>4, <2>5, <2>10, <3>1, LaterStep
    <3> QED
      BY <2>6, <2>10, <3>2
  <2>11. CASE M = N + 1
    <3>1. \A d \in Nat : d % 2 = 1 <=> ~((d + 1) % 2 = 1)
      OBVIOUS
    <3>2. (x < 0) # (z < 0)
      BY <2>6, <2>7, <2>11, <3>1
    <3>3. SignChange(X, x) /\ ~SignChange(Z, z) => Later(X, x, Z, z)
      BY DEF Later
    <3> QED
      BY <2>6, <2>11, <3>3
  <2>12. CASE M > N + 1
    BY <2>6, <2>12
  <2> QED
    BY <2>6, <2>8, <2>10, <2>11, <2>12
<1>3. \A k \in Nat : k \in S
  <2> HIDE DEF S
  <2> QED
    BY <1>1, <1>2, Induction
<1>4. ASSUME NEW k \in 1 .. n PROVE Ahead(k, a, b)
  <2>1. k - 1 \in S /\ (k - 1) + 1 = k
    BY <1>0, <1>3
  <2> QED
    BY <1>0, <2>1
<1> QED
  BY <1>4

\* The number of sign changes never falls as the point moves on.
LEMMA SignChangesGrow ==
  ASSUME Given, Unreduced, NEW a \in Int, NEW b \in Int, a < b
  PROVE  SignChanges(n, a) <= SignChanges(n, b)
<1>0. n \in Nat
  BY DEF Given
<1>1. CASE n = 0
  BY <1>0, <1>1, CountSigns
<1>2. CASE n > 0
  <2>1. Ahead(n, a, b) /\ SignChanges(n, a) \in Nat /\ SignChanges(n, b) \in Nat
    BY <1>0, <1>2, StaysAhead, CountSigns
  <2> QED
    BY <2>1 DEF Ahead
<1> QED
  BY <1>0, <1>1, <1>2

\* The determinant of T - v has another sign at each of the points than at the one
\* before.
Separates(p) ==
  /\ \A k \in 0 .. n - 1 : p[k] < p[k + 1]
  /\ \A k \in 0 .. n : Det(n, p[k]) < 0 <=> k % 2 = 1

\* At each of them there is one more sign change: not fewer, as the determinant
\* has another sign, and not more, as there are n in all.
LEMMA SeparatedCounts ==
  ASSUME Given, Unreduced, NEW p \in [0 .. n -> Int], Separates(p)
  PROVE  /\ \A k \in 0 .. n : SignChanges(n, p[k]) = k
         /\ \A k \in 0 .. n - 1, v \in Int :
              p[k] < v /\ v < p[k + 1] =>
                SignChanges(n, v) = IF Det(n, v) < 0 <=> Det(n, p[k]) < 0 THEN k ELSE k + 1
<1> DEFINE c(v) == SignChanges(n, v)
<1>0. n \in Nat /\ n \in 0 .. n
  BY DEF Given
<1>1. ASSUME NEW v \in Int PROVE c(v) \in 0 .. n /\ (Det(n, v) < 0 <=> c(v) % 2 = 1)
  <2> DEFINE J == {j \in 1 .. n : SignChange(Det(j, v), Det(j - 1, v))}
  <2>1. IsFiniteSet(1 .. n) /\ Cardinality(1 .. n) = n
    BY <1>0, FS_Interval
  <2>2. J \subseteq 1 .. n
    OBVIOUS
  <2> HIDE DEF J
  <2>3. Cardinality(J) <= n /\ Cardinality(J) \in Nat
    <3>1. IsFiniteSet(J) /\ Cardinality(J) <= Cardinality(1 .. n)
      BY <2>1, <2>2, FS_Subset
    <3> QED
      BY <2>1, <3>1, FS_CardinalityType
  <2>4. c(v) = Cardinality(J)
    BY DEF SignChanges, J
  <2> QED
    BY <1>0, <2>3, <2>4, SignFromCount
<1>2. \A v, w \in Int : v < w => c(v) <= c(w)
  BY SignChangesGrow
<1> HIDE DEF c
<1>3. ASSUME NEW k \in 0 .. n PROVE p[k] \in Int /\ c(p[k]) \in 0 .. n /\ (c(p[k]) % 2 = 1 <=> k % 2 = 1)
  BY <1>1 DEF Separates
<1>4. ASSUME NEW k \in 0 .. n - 1 PROVE c(p[k]) + 1 <= c(p[k + 1])
  <2>1. k \in 0 .. n /\ k + 1 \in 0 .. n
    BY <1>0
  <2>2. c(p[k]) <= c(p[k + 1])
    BY <1>2, <1>3, <2>1 DEF Separates
  <2>3. (k % 2 = 1) # ((k + 1) % 2 = 1)
    BY <1>0
  <2>4. c(p[k]) # c(p[k + 1])
    BY <1>3, <2>1, <2>3
  <2> QED
    BY <1>3, <2>1, <2>2, <2>4
<1> DEFINE Low == {k \in Nat : k <= n => k <= c(p[k])}
           High == {j \in Nat : j <= n => c(p[n - j]) <= n - j}
<1>5. \A k \in Nat : k \in Low
  <2>1. 0 \in Low
    BY <1>0, <1>3
  <2>2. ASSUME NEW k \in Nat, k \in Low PROVE k + 1 \in Low
    <3> SUFFICES ASSUME k + 1 <= n PROVE k + 1 <= c(p[k + 1])
      OBVIOUS
    <3>1. k \in 0 .. n - 1 /\ k \in 0 .. n /\ k + 1 \in 0 .. n
      BY <1>0
    <3>2. k <= c(p[k])
      BY <2>2, <3>1
    <3> QED
      <4>1. PICK x, y \in Int : x = c(p[k]) /\ y = c(p[k + 1])
        BY <1>3, <3>1
      <4>2. k <= x /\ x + 1 <= y
        BY <1>4, <3>1, <3>2, <4>1
      <4> QED
        BY <3>1, <4>1, <4>2
  <2> HIDE DEF Low
  <2> QED
    BY <2>1, <2>2, Induction
<1>6. \A j \in Nat : j \in High
  <2>1. 0 \in High
    BY <1>0, <1>3
  <2>2. ASSUME NEW j \in Nat, j \in High PROVE j + 1 \in High
    <3> SUFFICES ASSUME j + 1 <= n PROVE c(p[n - (j + 1)]) <= n - (j + 1)
      OBVIOUS
    <3> DEFINE k == n - (j + 1)
    <3>1. k \in 0 .. n - 1 /\ k \in 0 .. n /\ k + 1 \in 0 .. n /\ k + 1 = n - j
      BY <1>0
    <3>2. c(p[n - j]) <= n - j
      BY <1>0, <2>2, <3>1
    <3> HIDE DEF k
    <3>3. c(p[k]) + 1 <= k + 1
      <4>1. c(p[k + 1]) <= k + 1
        BY <3>1, <3>2
      <4> QED
        BY <1>0, <1>3, <1>4, <3>1, <4>1
    <3>4. c(p[k]) <= k
      <4>1. PICK x \in Int : x = c(p[k])
        BY <1>3, <3>1
      <4> QED
        BY <3>1, <3>3, <4>1
    <3> QED
      BY <3>4 DEF k
  <2> HIDE DEF High
  <2> QED
    BY <2>1, <2>2, Induction
<1>7. ASSUME NEW k \in 0 .. n PROVE c(p[k]) = k
  <2>1. k <= c(p[k])
    BY <1>5
  <2>2. c(p[n - (n - k)]) <= n - (n - k) /\ n - (n - k) = k
    <3>1. n - k \in High /\ n - k <= n /\ n - k \in Nat /\ n - (n - k) = k
      BY <1>0, <1>6
    <3> QED
      BY <3>1
  <2>3. c(p[k]) <= k
    BY <2>2
  <2> QED
    <3>1. PICK x \in Int : x = c(p[k])
      BY <1>3
    <3> QED
      BY <1>0, <2>1, <2>3, <3>1
<1>8. ASSUME NEW k \in 0 .. n - 1, NEW v \in Int, p[k] < v, v < p[k + 1]
      PROVE  c(v) = IF Det(n, v) < 0 <=> Det(n, p[k]) < 0 THEN k ELSE k + 1
  <2>1. k \in 0 .. n /\ k + 1 \in 0 .. n
    BY <1>0
  <2>2. k <= c(v) /\ c(v) <= k + 1
    BY <1>2, <1>3, <1>7, <1>8, <2>1
  <2>3. (Det(n, v) < 0 <=> c(v) % 2 = 1) /\ (Det(n, p[k]) < 0 <=> k % 2 = 1)
    BY <1>1, <2>1 DEF Separates
  <2>4. (k % 2 = 1) # ((k + 1) % 2 = 1)
    BY <1>0
  <2>5. c(v) \in {k, k + 1}
    <3>1. PICK x \in Int : x = c(v)
      BY <1>1
    <3> QED
      BY <1>0, <2>1, <2>2, <3>1
  <2> QED
    BY <2>3, <2>4, <2>5
<1> QED
  BY <1>7, <1>8 DEF c
=============================================================================
