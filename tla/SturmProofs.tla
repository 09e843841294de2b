----------------------------- MODULE SturmProofs -----------------------------
(***************************************************************************)
(* Proofs about sturm for matrices of every order with any integers in     *)
(* them.  MinorProofs has what they need of leading minors.  An eigenvalue *)
(* is where the determinant of T - u changes its sign; that there are n is  *)
(* a theorem of analysis, and no proof here needs it.                      *)
(***************************************************************************)
EXTENDS MinorProofs

CONSTANTS
  Scale, \* a denominator
  Cut    \* where a matrix may fall into two

\* The same matrix, times Scale: its points are those of the matrix times Scale, so
\* that p is a fraction p / Scale of the matrix.
Scaled == INSTANCE MinorProofs
  WITH diag <- [j \in DOMAIN diag |-> Scale * diag[j]],
       offd <- [j \in DOMAIN offd |-> Scale * offd[j]]

\* The block that the matrix leaves below row Cut.
Rest == INSTANCE MinorProofs
  WITH n <- n - Cut,
       diag <- [j \in 0 .. n - Cut - 1 |-> diag[Cut + j]],
       offd <- [j \in 0 .. n - Cut - 2 |-> offd[Cut + j]]

\* No more sign changes are counted than elements were looked at, and the loop
\* stays within the matrix.
Counted ==
  /\ Pm1_0 \in Int /\ Pm1_1 \in Int /\ nan \in BOOLEAN
  /\ i \in 0 .. n /\ isneg \in 0 .. i
  /\ pc \in {"start", "loop", "returned"}
  /\ pc = "loop" => i \in 1 .. n

\* Products of integers, one at a time.
LEMMA Products ==
  /\ \A x, y, z \in Int : (x - y) * z \in Int
  /\ \A x, y \in Int : x * x * y \in Int
<1>1. \A x, y \in Int : x * y \in Int /\ x - y \in Int
  OBVIOUS
<1>2. ASSUME NEW x \in Int, NEW y \in Int, NEW z \in Int PROVE (x - y) * z \in Int
  BY <1>1
<1>3. ASSUME NEW x \in Int, NEW y \in Int PROVE x * x * y \in Int
  BY <1>1
<1> QED
  BY <1>2, <1>3

LEMMA GivenInit == Init => Given
<1> SUFFICES ASSUME Init PROVE Given
  OBVIOUS
<1>1. n \in Nat /\ u \in Int
  BY SturmAssumption DEF Init
<1>2. diag \in [0 .. n - 1 -> Int]
  <2>1. diag \in [0 .. n - 1 -> Entries] /\ \A x \in Entries : x \in Int
    BY SturmAssumption DEF Init
  <2> QED
    BY <2>1
<1>3. offd \in [0 .. n - 2 -> Int]
  <2>1. offd \in [0 .. n - 2 -> Offs] /\ \A x \in Offs : x \in Int
    BY SturmAssumption DEF Init
  <2> QED
    BY <2>1
<1> QED
  BY <1>1, <1>2, <1>3 DEF Given

LEMMA GivenNext == Given /\ [Next]_vars => Given'
  BY DEF Given, Next, Start, Iterate, Return, vars, arguments

LEMMA CountedInit == Init => Counted
<1> SUFFICES ASSUME Init PROVE Counted
  OBVIOUS
<1>1. n \in Nat
  BY SturmAssumption DEF Init
<1>2. i = 0 /\ Pm1_0 = 0 /\ Pm1_1 = 0 /\ isneg = 0 /\ pc = "start"
  BY DEF Init
<1>3. nan \in BOOLEAN
  BY DEF Init
<1> QED
  BY <1>1, <1>2, <1>3 DEF Counted

LEMMA CountedNext == Given /\ Counted /\ [Next]_vars => Counted'
<1> SUFFICES ASSUME Given, Counted, [Next]_vars PROVE Counted'
  OBVIOUS
<1> USE DEF Given, Counted, arguments
<1>1. CASE Start
  <2>1. CASE n = 0
    BY <1>1, <2>1 DEF Start
  <2>2. CASE n # 0
    <3>1. 0 \in 0 .. n - 1 /\ diag[0] \in Int
      BY <2>2
    <3> QED
      BY <1>1, <2>2, <3>1 DEF Start
  <2> QED
    BY <2>1, <2>2
<1>2. CASE Iterate
  <2>1. diag[i] \in Int /\ offd[i - 1] \in Int
    BY <1>2 DEF Iterate
  <2>2. (diag[i] - u) * Pm1_0 \in Int /\ offd[i - 1] * offd[i - 1] * Pm1_1 \in Int
    BY <2>1, Products
  <2>3. Pm1_0' \in Int /\ Pm1_1' \in Int
    BY <1>2, <2>2 DEF Iterate
  <2>4. nan' \in BOOLEAN
    BY <1>2 DEF Iterate
  <2>5. isneg' \in {isneg, isneg + 1} /\ i' = i + 1 /\ i < n /\ i \in 1 .. n
    BY <1>2 DEF Iterate
  <2> QED
    BY <1>2, <2>3, <2>4, <2>5, SMTT(20) DEF Iterate
<1>3. CASE Return
  BY <1>3 DEF Return
<1>4. CASE UNCHANGED vars
  BY <1>4 DEF vars
<1> QED
  BY <1>1, <1>2, <1>3, <1>4 DEF Next

\* The loop reads no element that the matrix does not have, and what sturm
\* returns is between 0 and n, for every order.
THEOREM SturmTypes == Spec => []TypeOK
<1>1. Counted /\ Given => TypeOK
  BY DEF Counted, Given, TypeOK
<1> QED
  BY <1>1, GivenInit, GivenNext, CountedInit, CountedNext, PTL DEF Spec

\* Two consecutive terms are never both zero.
TermLeft == pc = "loop" /\ Unreduced => Pm1_0 # 0 \/ Pm1_1 # 0

LEMMA SquareNotZero ==
  ASSUME NEW x \in Int, NEW y \in Int, x # 0, y # 0
  PROVE  x * x * y # 0
<1>1. x * x # 0 /\ x * x \in Int
  OBVIOUS
<1>2. \A a, b \in Int : a # 0 /\ b # 0 => a * b # 0
  OBVIOUS
<1> QED
  BY <1>1, <1>2

\* On a matrix that does not fall into blocks, however large, the loop never
\* divides by zero.
THEOREM SturmNeverDividesByZero == Spec => []NeverDividesByZero
<1>1. Init => TermLeft /\ NeverDividesByZero
  BY DEF Init, TermLeft, NeverDividesByZero
<1>2. ASSUME Given, Counted, TermLeft, NeverDividesByZero, [Next]_vars
      PROVE  TermLeft' /\ NeverDividesByZero'
  <2>0. Unreduced' <=> Unreduced
    BY <1>2 DEF Next, Start, Iterate, Return, vars, arguments, Unreduced
  <2>1. CASE Start
    BY <1>2, <2>0, <2>1 DEF Start, TermLeft, NeverDividesByZero
  <2>2. CASE Iterate
    <3> SUFFICES ASSUME Unreduced
                 PROVE  (Pm1_0' # 0 \/ Pm1_1' # 0) /\ ~nan'
      BY <2>0 DEF TermLeft, NeverDividesByZero
    <3>1. Pm1_0 # 0 \/ Pm1_1 # 0
      BY <1>2, <2>2 DEF TermLeft, Iterate
    <3>2. ~nan'
      BY <1>2, <2>2, <3>1 DEF Iterate, NeverDividesByZero, Abs, Counted
    <3>3. offd[i - 1] \in Int /\ offd[i - 1] # 0 /\ diag[i] \in Int
      BY <1>2, <2>2 DEF Given, Counted, Iterate, Unreduced
    <3>4. ASSUME Pm1_0 = 0 PROVE Pm1_0' # 0
      <4>1. offd[i - 1] * offd[i - 1] * Pm1_1 # 0
        BY <1>2, <3>1, <3>3, <3>4, SquareNotZero DEF Counted
      <4>2. (diag[i] - u) * Pm1_0 = 0
        BY <1>2, <3>3, <3>4 DEF Given
      <4>3. Pm1_0' = (diag[i] - u) * Pm1_0 - offd[i - 1] * offd[i - 1] * Pm1_1
        BY <2>2 DEF Iterate
      <4>4. offd[i - 1] * offd[i - 1] * Pm1_1 \in Int
        BY <1>2, <3>3 DEF Counted
      <4> QED
        BY <4>1, <4>2, <4>3, <4>4
    <3>5. Pm1_1' = Pm1_0
      BY <2>2 DEF Iterate
    <3> QED
      BY <3>2, <3>4, <3>5
  <2>3. CASE Return \/ UNCHANGED vars
    BY <1>2, <2>0, <2>3 DEF Return, vars, TermLeft, NeverDividesByZero
  <2> QED
    BY <1>2, <2>1, <2>2, <2>3 DEF Next
<1> QED
  BY <1>1, <1>2, GivenInit, GivenNext, CountedInit, CountedNext, PTL DEF Spec
-----------------------------------------------------------------------------
(* What is computed, and what is counted.                                   *)

LEMMA ArgumentsStay == [Next]_vars => UNCHANGED arguments
  BY DEF Next, Start, Iterate, Return, vars, arguments

LEMMA DetPrime == UNCHANGED arguments => \A k, v : Det(k, v)' = Det(k, v)
<1> SUFFICES ASSUME UNCHANGED arguments, NEW k, NEW v PROVE Det(k, v)' = Det(k, v)
  OBVIOUS
<1>1. OffTerms' = OffTerms /\ DiagTerms(v)' = DiagTerms(v)
  BY DEF OffTerms, DiagTerms, arguments
<1>2. \A M, U : Term(M, U, v)' = Term(M, U, v)
  BY <1>1 DEF Term
<1> QED
  BY <1>2 DEF Det

LEMMA SignChangesPrime ==
  UNCHANGED arguments => \A k, v : SignChanges(k, v)' = SignChanges(k, v)
<1> SUFFICES ASSUME UNCHANGED arguments, NEW k, NEW v
             PROVE  SignChanges(k, v)' = SignChanges(k, v)
  OBVIOUS
<1>1. \A j : Det(j, v)' = Det(j, v)
  BY DetPrime
<1> QED
  BY <1>1 DEF SignChanges

\* The sign changes of the leading minors are what has been counted.
CountsSigns ==
  /\ pc # "start" /\ n > 0 /\ ~nan => isneg = SignChanges(i, u)
  /\ pc = "returned" => i = n

LEMMA MinorsNext ==
  Given /\ Counted /\ LeadingMinors /\ CountsSigns /\ [Next]_vars
    => LeadingMinors' /\ CountsSigns'
<1> SUFFICES ASSUME Given, Counted, LeadingMinors, CountsSigns, [Next]_vars
             PROVE  LeadingMinors' /\ CountsSigns'
  OBVIOUS
<1>0. UNCHANGED arguments /\ n \in Nat /\ n' = n /\ u' = u /\ u \in Int
  BY ArgumentsStay DEF arguments, Given
<1>1. \A k : Det(k, u)' = Det(k, u) /\ SignChanges(k, u)' = SignChanges(k, u)
  BY <1>0, DetPrime, SignChangesPrime
<1>2. CASE Start
  <2>1. CASE n = 0
    BY <1>0, <1>2, <2>1 DEF LeadingMinors, CountsSigns, Start, Counted
  <2>2. CASE n > 0
    <3>1. /\ pc' = "loop" /\ i' = 1 /\ i' - 1 = 0 /\ Pm1_1' = 1 /\ Pm1_0' = diag[0] - u
          /\ isneg' = IF diag[0] - u < 0 THEN 1 ELSE 0
      BY <1>2, <2>2 DEF Start
    <3>2. Det(0, u) = 1 /\ Det(1, u) = diag[0] - u
      BY <1>0, <2>2, NextMinor
    <3>3. isneg' = SignChanges(1, u)
      <4>1. 0 \in 0 .. n - 1 /\ 0 + 1 = 1
        BY <1>0, <2>2
      <4>2. SignChanges(1, u) = IF SignChange(Det(1, u), Det(0, u)) THEN 0 + 1 ELSE 0
        BY <1>0, <4>1, CountSigns
      <4>3. SignChange(Det(1, u), Det(0, u)) <=> diag[0] - u < 0
        BY <3>2 DEF SignChange
      <4> QED
        BY <3>1, <4>2, <4>3
    <3> QED
      BY <1>0, <1>1, <3>1, <3>2, <3>3 DEF LeadingMinors, CountsSigns
  <2> QED
    BY <1>0, <2>1, <2>2
<1>3. CASE Iterate
  <2>0. i' = i + 1 /\ i' - 1 = i /\ i \in 1 .. n - 1 /\ pc = "loop" /\ pc' = "loop"
    BY <1>0, <1>3 DEF Iterate, Counted
  <2> SUFFICES ASSUME ~nan'
               PROVE  /\ Pm1_0' = Det(i + 1, u) /\ Pm1_1' = Det(i, u)
                      /\ isneg' = SignChanges(i + 1, u)
    BY <1>0, <1>1, <2>0 DEF LeadingMinors, CountsSigns
  <2>1. ~nan
    BY <1>3 DEF Iterate
  <2>2. Pm1_0 = Det(i, u) /\ Pm1_1 = Det(i - 1, u) /\ isneg = SignChanges(i, u)
    BY <1>0, <2>0, <2>1 DEF LeadingMinors, CountsSigns
  <2>3. /\ Pm1_0' = (diag[i] - u) * Pm1_0 - offd[i - 1] * offd[i - 1] * Pm1_1
        /\ Pm1_1' = Pm1_0
        /\ isneg' = IF SignChange(Pm1_0', Pm1_1') THEN isneg + 1 ELSE isneg
    BY <1>3 DEF Iterate
  <2>4. Det(i + 1, u) = (diag[i] - u) * Det(i, u) - offd[i - 1] * offd[i - 1] * Det(i - 1, u)
    BY <1>0, <2>0, NextMinor
  <2>5. Pm1_0' = Det(i + 1, u) /\ Pm1_1' = Det(i, u)
    BY <2>2, <2>3, <2>4
  <2>6. SignChanges(i + 1, u) =
          IF SignChange(Det(i + 1, u), Det(i, u)) THEN SignChanges(i, u) + 1 ELSE SignChanges(i, u)
    <3>1. i \in 0 .. n - 1
      BY <2>0
    <3> QED
      BY <1>0, <3>1, CountSigns
  <2> QED
    BY <2>2, <2>3, <2>5, <2>6
<1>4. CASE Return
  <2>1. UNCHANGED <<Pm1_0, Pm1_1, nan, i, isneg>> /\ pc = "loop" /\ i = n
    BY <1>0, <1>4 DEF Return, Counted
  <2> QED
    BY <1>0, <1>1, <2>1 DEF LeadingMinors, CountsSigns
<1>5. CASE UNCHANGED vars
  <2>1. UNCHANGED <<Pm1_0, Pm1_1, nan, i, isneg, pc>>
    BY <1>5 DEF vars
  <2> QED
    BY <1>0, <1>1, <2>1 DEF LeadingMinors, CountsSigns
<1> QED
  BY <1>2, <1>3, <1>4, <1>5 DEF Next

LEMMA MinorsInit == Init => LeadingMinors /\ CountsSigns
  BY DEF Init, LeadingMinors, CountsSigns

\* The recurrence of the loop gives the leading minors of T - u, which the model
\* defines as sums over the ways to cover rows, for a matrix of any order.
THEOREM SturmHoldsLeadingMinors == Spec => []LeadingMinors
  BY GivenInit, GivenNext, CountedInit, CountedNext, MinorsInit, MinorsNext, PTL DEF Spec

\* As long as there is no division by zero, what sturm returns is the number of
\* sign changes among the leading minors of T - u, of all orders from 0 to n.
THEOREM SturmCountsSignChanges ==
  Spec => [](pc = "returned" /\ ~nan => isneg = SignChanges(n, u))
<1>1. Given /\ Counted /\ CountsSigns => (pc = "returned" /\ ~nan => isneg = SignChanges(n, u))
  <2> SUFFICES ASSUME Given, Counted, CountsSigns, pc = "returned", ~nan
               PROVE  isneg = SignChanges(n, u)
    OBVIOUS
  <2>1. n \in Nat /\ i = n /\ isneg \in 0 .. i
    BY DEF Given, Counted, CountsSigns
  <2>2. CASE n > 0
    BY <2>1, <2>2 DEF CountsSigns
  <2>3. CASE n = 0
    BY <2>1, <2>3, CountSigns DEF Given
  <2> QED
    BY <2>1, <2>2, <2>3
<1> QED
  BY <1>1, GivenInit, GivenNext, CountedInit, CountedNext, MinorsInit, MinorsNext, PTL DEF Spec

\* What sturm returns is odd just where the determinant of T - u, the product of
\* what the eigenvalues are more than u, is negative: where u is none of them, an
\* odd number is returned just if an odd number are less than u.
THEOREM SturmCountsParity ==
  Spec => [](pc = "returned" /\ ~nan => (isneg % 2 = 1 <=> Det(n, u) < 0))
<1>1. Given /\ (pc = "returned" /\ ~nan => isneg = SignChanges(n, u))
        => (pc = "returned" /\ ~nan => (isneg % 2 = 1 <=> Det(n, u) < 0))
  <2> SUFFICES ASSUME Given PROVE SignChanges(n, u) % 2 = 1 <=> Det(n, u) < 0
    OBVIOUS
  <2>1. n \in 0 .. n /\ u \in Int
    BY DEF Given
  <2> QED
    BY <2>1, SignFromCount
<1> QED
  BY <1>1, GivenInit, GivenNext, SturmCountsSignChanges, PTL DEF Spec

\* After a division by zero both terms stay zero, and are minors all the same.
ZerosMet ==
  nan => /\ pc # "start" /\ i \in 1 .. n
         /\ Pm1_0 = 0 /\ Pm1_1 = 0 /\ Det(i, u) = 0 /\ Det(i - 1, u) = 0

LEMMA ZerosMetNext ==
  Given /\ Counted /\ LeadingMinors /\ ZerosMet /\ [Next]_vars => ZerosMet'
<1> SUFFICES ASSUME Given, Counted, LeadingMinors, ZerosMet, [Next]_vars PROVE ZerosMet'
  OBVIOUS
<1>0. UNCHANGED arguments /\ n \in Nat /\ n' = n /\ u' = u /\ u \in Int
  BY ArgumentsStay DEF arguments, Given
<1>1. \A k : Det(k, u)' = Det(k, u)
  BY <1>0, DetPrime
<1>2. CASE Iterate
  <2> SUFFICES ASSUME nan' PROVE ZerosMet'
    BY DEF ZerosMet
  <2>0. /\ i' = i + 1 /\ i' - 1 = i /\ i \in 1 .. n - 1 /\ i' \in 1 .. n'
        /\ pc = "loop" /\ pc' = "loop"
    BY <1>0, <1>2 DEF Iterate, Counted
  <2>1. Pm1_0 = 0 /\ Pm1_1 = 0 /\ Det(i, u) = 0 /\ Det(i - 1, u) = 0
    <3>1. CASE nan
      BY <3>1 DEF ZerosMet
    <3>2. CASE ~nan
      <4>1. Pm1_0 = 0 /\ Pm1_1 = 0
        BY <1>2, <3>2 DEF Iterate, Abs, Counted
      <4> QED
        BY <1>0, <2>0, <3>2, <4>1 DEF LeadingMinors
    <3> QED
      BY <3>1, <3>2
  <2>2. diag[i] - u \in Int /\ offd[i - 1] \in Int
    BY <1>0, <2>0 DEF Given
  <2>3. (diag[i] - u) * 0 - offd[i - 1] * offd[i - 1] * 0 = 0
    <3>1. \A a, b \in Int : a * 0 - b * b * 0 = 0
      OBVIOUS
    <3> QED
      BY <2>2, <3>1
  <2>4. Pm1_0' = 0 /\ Pm1_1' = 0
    BY <1>2, <2>1, <2>3 DEF Iterate
  <2>5. Det(i + 1, u) = 0
    BY <1>0, <2>0, <2>1, <2>3, NextMinor
  <2> QED
    BY <1>0, <1>1, <2>0, <2>1, <2>4, <2>5 DEF ZerosMet
<1>3. CASE Start \/ Return \/ UNCHANGED vars
  <2>1. nan' = nan /\ (nan => pc' # "start" /\ UNCHANGED <<i, Pm1_0, Pm1_1>>)
    <3>1. CASE Start
      <4>1. ~nan
        BY <3>1 DEF Start, ZerosMet
      <4> QED
        BY <3>1, <4>1 DEF Start
    <3>2. CASE Return \/ UNCHANGED vars
      BY <3>2 DEF Return, vars, ZerosMet
    <3> QED
      BY <1>3, <3>1, <3>2
  <2> QED
    BY <1>0, <1>1, <2>1 DEF ZerosMet
<1> QED
  BY <1>2, <1>3 DEF Next

\* On any matrix, sturm divides by zero only where u is an eigenvalue: where two
\* terms in a row are zero, the determinant of T - u is.
THEOREM SturmDividesByZeroAtEigenvalues == Spec => [](nan => Det(n, u) = 0)
<1>1. Init => ZerosMet
  BY DEF Init, ZerosMet
<1>2. Given /\ ZerosMet => (nan => Det(n, u) = 0)
  <2> SUFFICES ASSUME Given, ZerosMet, nan PROVE Det(n, u) = 0
    OBVIOUS
  <2>1. i \in 1 .. n /\ Det(i, u) = 0 /\ Det(i - 1, u) = 0 /\ u \in Int
    BY DEF ZerosMet, Given
  <2> QED
    BY <2>1, ZerosStay
<1> QED
  BY <1>1, <1>2, GivenInit, GivenNext, CountedInit, CountedNext, ZerosMetNext,
     SturmHoldsLeadingMinors, PTL DEF Spec

\* Of two points on the same matrix, of any order, which does not fall into
\* blocks, sturm never returns less at the greater one.
THEOREM SturmGrowsWithU == Spec => []GrowsWithU
<1>1. Given /\ NeverDividesByZero /\ (pc = "returned" /\ ~nan => isneg = SignChanges(n, u)) => GrowsWithU
  <2> SUFFICES ASSUME Given, NeverDividesByZero, Unreduced, pc = "returned",
                      ~nan => isneg = SignChanges(n, u), NEW v \in Entries
               PROVE  /\ u < v => isneg <= SignChanges(n, v)
                      /\ v < u => SignChanges(n, v) <= isneg
    BY DEF GrowsWithU
  <2>1. isneg = SignChanges(n, u)
    BY DEF NeverDividesByZero
  <2>2. v \in Int /\ u \in Int
    BY SturmAssumption DEF Given
  <2> QED
    BY <2>1, <2>2, SignChangesGrow
<1> QED
  BY <1>1, GivenInit, GivenNext, SturmNeverDividesByZero, SturmCountsSignChanges, PTL DEF Spec

-----------------------------------------------------------------------------
(* How many eigenvalues are counted.                                        *)

LEMMA ScaledGiven ==
  ASSUME Scale \in Nat \ {0}, Given
  PROVE  Scaled!Given /\ (Unreduced => Scaled!Unreduced)
<1>1. DOMAIN diag = 0 .. n - 1 /\ DOMAIN offd = 0 .. n - 2
  BY DEF Given
<1>2. Scaled!Given
  BY <1>1 DEF Given, Scaled!Given
<1>3. Unreduced => Scaled!Unreduced
  BY <1>1 DEF Given, Unreduced, Scaled!Unreduced
<1> QED
  BY <1>2, <1>3

LEMMA ScaledStep ==
  \A c, s, d, v, o, x, y \in Int :
    (c * d - c * v) * ((c * s) * x) - (c * o) * (c * o) * (s * y)
      = (c * (c * s)) * ((d - v) * x - o * o * y)
  OBVIOUS

\* Leading minors of a multiple of the matrix are multiples of its minors.
LEMMA ScaledMinors ==
  ASSUME Scale \in Nat \ {0}, Given, NEW v \in Int
  PROVE  \A k \in 0 .. n : \E s \in Nat \ {0} :
           Scaled!Det(k, Scale * v) = s * Det(k, v)
<1> DEFINE D(k) == Det(k, v)
           E(k) == Scaled!Det(k, Scale * v)
           S == {k \in Nat : k + 1 <= n =>
                   \E s \in Nat \ {0} : E(k) = s * D(k) /\ E(k + 1) = (Scale * s) * D(k + 1)}
<1>0. n \in Nat /\ Scale * v \in Int
  BY DEF Given
<1>1. /\ \A k \in 0 .. n : D(k) \in Int
      /\ D(0) = 1 /\ (n > 0 => D(1) = diag[0] - v)
      /\ \A k \in 1 .. n - 1 :
           D(k + 1) = (diag[k] - v) * D(k) - offd[k - 1] * offd[k - 1] * D(k - 1)
  BY NextMinor
<1>2. /\ E(0) = 1 /\ (n > 0 => E(1) = Scale * diag[0] - Scale * v)
      /\ \A k \in 1 .. n - 1 :
           E(k + 1) = (Scale * diag[k] - Scale * v) * E(k)
                        - (Scale * offd[k - 1]) * (Scale * offd[k - 1]) * E(k - 1)
  <2>1. Scaled!Given
    BY ScaledGiven
  <2> DEFINE a == [j \in DOMAIN diag |-> Scale * diag[j]]
             b == [j \in DOMAIN offd |-> Scale * offd[j]]
  <2>2. /\ \A k \in 0 .. n - 1 : a[k] = Scale * diag[k]
        /\ \A k \in 1 .. n - 1 : b[k - 1] = Scale * offd[k - 1]
    BY <1>0 DEF Given
  <2>3. /\ E(0) = 1 /\ (n > 0 => E(1) = a[0] - Scale * v)
        /\ \A k \in 1 .. n - 1 :
             E(k + 1) = (a[k] - Scale * v) * E(k) - b[k - 1] * b[k - 1] * E(k - 1)
    BY <1>0, <2>1, SturmAssumption, Scaled!NextMinor
  <2> HIDE DEF a, b, E
  <2> QED
    BY <1>0, <2>2, <2>3
<1> HIDE DEF D, E
<1>3. 0 \in S
  <2> SUFFICES ASSUME 1 <= n PROVE E(0) = 1 * D(0) /\ E(1) = (Scale * 1) * D(1)
    OBVIOUS
  <2>1. diag[0] \in Int /\ n > 0
    BY <1>0 DEF Given
  <2>2. \A c, d, w \in Int : c * d - c * w = (c * 1) * (d - w)
    OBVIOUS
  <2>3. Scale * diag[0] - Scale * v = (Scale * 1) * (diag[0] - v)
    BY <2>1, <2>2
  <2>4. E(1) = (Scale * 1) * D(1)
    BY <1>1, <1>2, <2>1, <2>3
  <2> QED
    BY <1>1, <1>2, <2>4
<1>4. ASSUME NEW k \in Nat, k \in S PROVE k + 1 \in S
  <2> SUFFICES ASSUME (k + 1) + 1 <= n
               PROVE  \E s \in Nat \ {0} : /\ E(k + 1) = s * D(k + 1)
                                           /\ E((k + 1) + 1) = (Scale * s) * D((k + 1) + 1)
    OBVIOUS
  <2>1. PICK s \in Nat \ {0} : E(k) = s * D(k) /\ E(k + 1) = (Scale * s) * D(k + 1)
    BY <1>0, <1>4
  <2>2. PICK h \in 1 .. n - 1 : h = k + 1 /\ h - 1 = k
    BY <1>0
  <2>3. /\ diag[h] \in Int /\ offd[h - 1] \in Int
        /\ D(h) \in Int /\ D(h - 1) \in Int
    <3>1. h \in 0 .. n - 1 /\ h - 1 \in 0 .. n - 2 /\ h \in 0 .. n /\ h - 1 \in 0 .. n
      BY <1>0
    <3> QED
      BY <1>1, <3>1 DEF Given
  <2>4. E(h + 1) = (Scale * (Scale * s)) * D(h + 1)
    <3>1. E(h + 1) = (Scale * diag[h] - Scale * v) * ((Scale * s) * D(h))
                       - (Scale * offd[h - 1]) * (Scale * offd[h - 1]) * (s * D(h - 1))
      BY <1>2, <2>1, <2>2
    <3>2. D(h + 1) = (diag[h] - v) * D(h) - offd[h - 1] * offd[h - 1] * D(h - 1)
      BY <1>1
    <3> QED
      BY <2>3, <3>1, <3>2, ScaledStep
  <2>5. Scale * s \in Nat \ {0}
    OBVIOUS
  <2> QED
    BY <2>1, <2>2, <2>4, <2>5
<1>5. \A k \in Nat : k \in S
  <2> HIDE DEF S
  <2> QED
    BY <1>3, <1>4, Induction
<1>6. ASSUME NEW k \in 0 .. n PROVE \E s \in Nat \ {0} : E(k) = s * D(k)
  <2>1. CASE k = 0
    <3>1. E(k) = 1 * D(k) /\ 1 \in Nat \ {0}
      BY <1>1, <1>2, <2>1
    <3> QED
      BY <3>1
  <2>2. CASE k > 0
    <3>1. k - 1 \in S /\ (k - 1) + 1 = k /\ k - 1 \in Nat
      BY <1>0, <1>5, <2>2
    <3>2. PICK s \in Nat \ {0} : E(k) = (Scale * s) * D(k)
      BY <1>0, <3>1
    <3>3. Scale * s \in Nat \ {0}
      OBVIOUS
    <3> QED
      BY <3>2, <3>3
  <2> QED
    BY <1>0, <2>1, <2>2
<1> QED
  BY <1>6 DEF D, E

\* So they have the same signs, and change them as often.
LEMMA ScaledSigns ==
  ASSUME Scale \in Nat \ {0}, Given, NEW v \in Int
  PROVE  /\ Scaled!SignChanges(n, Scale * v) = SignChanges(n, v)
         /\ Scaled!Det(n, Scale * v) < 0 <=> Det(n, v) < 0
<1>0. n \in Nat
  BY DEF Given
<1>1. ASSUME NEW k \in 0 .. n PROVE Scaled!Det(k, Scale * v) < 0 <=> Det(k, v) < 0
  <2>1. PICK s \in Nat \ {0} : Scaled!Det(k, Scale * v) = s * Det(k, v)
    BY ScaledMinors
  <2>2. Det(k, v) \in Int
    BY NextMinor
  <2>3. \A a \in Nat \ {0}, b \in Int : a * b < 0 <=> b < 0
    OBVIOUS
  <2> QED
    BY <2>1, <2>2, <2>3
<1> DEFINE C(k) == SignChanges(k, v)
           B(k) == Scaled!SignChanges(k, Scale * v)
           S == {k \in Nat : k <= n => B(k) = C(k)}
<1>2. /\ C(0) = 0 /\ B(0) = 0
      /\ \A k \in 0 .. n - 1 :
           /\ C(k + 1) = IF SignChange(Det(k + 1, v), Det(k, v)) THEN C(k) + 1 ELSE C(k)
           /\ B(k + 1) = IF SignChange(Det(k + 1, v), Det(k, v)) THEN B(k) + 1 ELSE B(k)
  <2>1. Scale * v \in Int /\ Scaled!Given
    BY ScaledGiven
  <2>2. /\ B(0) = 0
        /\ \A k \in 0 .. n - 1 : B(k + 1) =
             IF Scaled!SignChange(Scaled!Det(k + 1, Scale * v), Scaled!Det(k, Scale * v))
             THEN B(k) + 1 ELSE B(k)
    BY <2>1, SturmAssumption, Scaled!CountSigns
  <2>3. ASSUME NEW k \in 0 .. n - 1
        PROVE  Scaled!SignChange(Scaled!Det(k + 1, Scale * v), Scaled!Det(k, Scale * v))
                 <=> SignChange(Det(k + 1, v), Det(k, v))
    <3>1. k \in 0 .. n /\ k + 1 \in 0 .. n
      BY <1>0
    <3> QED
      BY <1>1, <3>1 DEF SignChange, Scaled!SignChange
  <2> HIDE DEF B
  <2> QED
    BY <2>2, <2>3, CountSigns
<1>3. B(n) = C(n)
  <2> HIDE DEF B, C
  <2>1. 0 \in S
    BY <1>2
  <2>2. ASSUME NEW k \in Nat, k \in S PROVE k + 1 \in S
    <3> SUFFICES ASSUME k + 1 <= n PROVE B(k + 1) = C(k + 1)
      OBVIOUS
    <3>1. k \in 0 .. n - 1 /\ B(k) = C(k)
      BY <1>0, <2>2
    <3> QED
      BY <1>2, <3>1
  <2>3. \A k \in Nat : k \in S
    <3> HIDE DEF S
    <3> QED
      BY <2>1, <2>2, Induction
  <2> QED
    BY <1>0, <2>3
<1>4. n \in 0 .. n
  BY <1>0
<1> QED
  BY <1>1, <1>3, <1>4

\* Where u is at, or between, the fractions p / Scale that separate eigenvalues.
CountsSeparated ==
  pc = "returned" /\ Unreduced =>
    \A p \in [0 .. n -> Int] : Scaled!Separates(p) =>
      /\ \A k \in 0 .. n : Scale * u = p[k] => isneg = k
      /\ \A k \in 0 .. n - 1 : p[k] < Scale * u /\ Scale * u < p[k + 1] =>
           isneg = IF Det(n, u) < 0 <=> Scaled!Det(n, p[k]) < 0 THEN k ELSE k + 1

\* The count is exact, for a matrix of any order that does not fall into blocks.
\* It has n eigenvalues, all different; let p be n + 1 fractions (over Scale) with
\* an eigenvalue between any two.  Then k eigenvalues are less than p[k].  From
\* there on the sign of the determinant decides whether one more is less than u,
\* and sturm counts it just then.
THEOREM SturmCountsSeparated == Scale \in Nat \ {0} => (Spec => []CountsSeparated)
<1> SUFFICES ASSUME Scale \in Nat \ {0} PROVE Spec => []CountsSeparated
  OBVIOUS
<1>1. Given /\ NeverDividesByZero /\ (pc = "returned" /\ ~nan => isneg = SignChanges(n, u))
        => CountsSeparated
  <2> SUFFICES ASSUME Given, NeverDividesByZero, pc = "returned", Unreduced,
                      ~nan => isneg = SignChanges(n, u),
                      NEW p \in [0 .. n -> Int], Scaled!Separates(p)
               PROVE  /\ \A k \in 0 .. n : Scale * u = p[k] => isneg = k
                      /\ \A k \in 0 .. n - 1 : p[k] < Scale * u /\ Scale * u < p[k + 1] =>
                           isneg = IF Det(n, u) < 0 <=> Scaled!Det(n, p[k]) < 0 THEN k ELSE k + 1
    BY DEF CountsSeparated
  <2>1. u \in Int /\ Scale * u \in Int /\ n \in Nat
    BY DEF Given
  <2>2. isneg = Scaled!SignChanges(n, Scale * u)
    BY <2>1, ScaledSigns DEF NeverDividesByZero
  <2>3. Scaled!Det(n, Scale * u) < 0 <=> Det(n, u) < 0
    BY <2>1, ScaledSigns
  <2>4. Scaled!Given /\ Scaled!Unreduced
    BY ScaledGiven
  <2>5. /\ \A k \in 0 .. n : Scaled!SignChanges(n, p[k]) = k
        /\ \A k \in 0 .. n - 1, v \in Int :
             p[k] < v /\ v < p[k + 1] =>
               Scaled!SignChanges(n, v) =
                 IF Scaled!Det(n, v) < 0 <=> Scaled!Det(n, p[k]) < 0 THEN k ELSE k + 1
    BY <2>1, <2>4, SturmAssumption, Scaled!SeparatedCounts
  <2> QED
    BY <2>1, <2>2, <2>3, <2>5
<1> QED
  BY <1>1, GivenInit, GivenNext, SturmNeverDividesByZero, SturmCountsSignChanges, PTL DEF Spec
-----------------------------------------------------------------------------
(* Matrices that fall into blocks.                                          *)

\* Row Cut is the first of a block.
Falls == Cut \in 1 .. n - 1 /\ offd[Cut - 1] = 0

LEMMA RestGiven ==
  ASSUME Given, Falls
  PROVE  /\ Rest!Given /\ n \in Nat /\ Cut \in Nat \ {0} /\ n - Cut \in Nat \ {0}
         /\ \A k \in 0 .. n - Cut : Cut + k \in 0 .. n
<1>1. n \in Nat /\ Cut \in Nat \ {0} /\ n - Cut \in Nat \ {0}
  BY DEF Given, Falls
<1>2. /\ \A j \in 0 .. n - Cut - 1 : Cut + j \in 0 .. n - 1
      /\ \A j \in 0 .. n - Cut - 2 : Cut + j \in 0 .. n - 2
      /\ \A k \in 0 .. n - Cut : Cut + k \in 0 .. n
  BY <1>1
<1>3. Rest!Given
  BY <1>1, <1>2 DEF Given, Rest!Given
<1> QED
  BY <1>1, <1>2, <1>3

\* The minors below the cut are those of the block, times the minor above it.
LEMMA RestMinors ==
  ASSUME Given, Falls, NEW v \in Int
  PROVE  \A k \in 0 .. n - Cut : Det(Cut + k, v) = Det(Cut, v) * Rest!Det(k, v)
<1> DEFINE D(k) == Det(k, v)
           R(k) == Rest!Det(k, v)
           S == {k \in Nat : k + 1 <= n - Cut =>
                   /\ D(Cut + k) = D(Cut) * R(k)
                   /\ D(Cut + (k + 1)) = D(Cut) * R(k + 1)}
<1>0. /\ n \in Nat /\ Cut \in Nat \ {0} /\ n - Cut \in Nat \ {0} /\ offd[Cut - 1] = 0
      /\ Cut \in 1 .. n - 1
  BY RestGiven DEF Falls
<1>1. /\ \A k \in 0 .. n : D(k) \in Int
      /\ \A k \in 1 .. n - 1 :
           D(k + 1) = (diag[k] - v) * D(k) - offd[k - 1] * offd[k - 1] * D(k - 1)
  BY NextMinor
<1>2. /\ \A k \in 0 .. n - Cut : R(k) \in Int
      /\ R(0) = 1 /\ R(1) = diag[Cut] - v
      /\ \A k \in 1 .. n - Cut - 1 :
           R(k + 1) = (diag[Cut + k] - v) * R(k)
                        - offd[Cut + (k - 1)] * offd[Cut + (k - 1)] * R(k - 1)
  <2> DEFINE a == [j \in 0 .. n - Cut - 1 |-> diag[Cut + j]]
             b == [j \in 0 .. n - Cut - 2 |-> offd[Cut + j]]
  <2>1. Rest!Given
    BY RestGiven
  <2>2. /\ a[0] = diag[Cut]
        /\ \A k \in 1 .. n - Cut - 1 : a[k] = diag[Cut + k] /\ b[k - 1] = offd[Cut + (k - 1)]
    BY <1>0
  <2>3. /\ \A k \in 0 .. n - Cut : R(k) \in Int
        /\ R(0) = 1 /\ (n - Cut > 0 => R(1) = a[0] - v)
        /\ \A k \in 1 .. n - Cut - 1 :
             R(k + 1) = (a[k] - v) * R(k) - b[k - 1] * b[k - 1] * R(k - 1)
    BY <2>1, SturmAssumption, Rest!NextMinor
  <2> HIDE DEF a, b, R
  <2> QED
    BY <1>0, <2>2, <2>3
<1> HIDE DEF D, R
<1>3. D(Cut) \in Int
  BY <1>0, <1>1
<1>4. 0 \in S
  <2> SUFFICES D(Cut + 0) = D(Cut) * R(0) /\ D(Cut + 1) = D(Cut) * R(1)
    OBVIOUS
  <2>1. diag[Cut] \in Int /\ Cut + 0 = Cut
    BY <1>0 DEF Given
  <2>2. D(Cut + 1) = (diag[Cut] - v) * D(Cut) - 0 * 0 * D(Cut - 1) /\ D(Cut - 1) \in Int
    BY <1>0, <1>1
  <2>3. \A x, y, z \in Int : x * y - 0 * 0 * z = y * x /\ y * 1 = y
    OBVIOUS
  <2> QED
    BY <1>2, <1>3, <2>1, <2>2, <2>3
<1>5. ASSUME NEW k \in Nat, k \in S PROVE k + 1 \in S
  <2> SUFFICES ASSUME (k + 1) + 1 <= n - Cut
               PROVE  /\ D(Cut + (k + 1)) = D(Cut) * R(k + 1)
                      /\ D(Cut + ((k + 1) + 1)) = D(Cut) * R((k + 1) + 1)
    OBVIOUS
  <2>1. D(Cut + k) = D(Cut) * R(k) /\ D(Cut + (k + 1)) = D(Cut) * R(k + 1)
    BY <1>0, <1>5
  <2>2. PICK h \in 1 .. n - Cut - 1 : h = k + 1 /\ h - 1 = k
    BY <1>0
  <2>3. PICK g \in 1 .. n - 1 : g = Cut + h /\ g - 1 = Cut + (h - 1) /\ g + 1 = Cut + (h + 1)
    BY <1>0
  <2>4. diag[g] \in Int /\ offd[g - 1] \in Int /\ R(h) \in Int /\ R(h - 1) \in Int
    <3>1. /\ g \in 0 .. n - 1 /\ g - 1 \in 0 .. n - 2
          /\ h \in 0 .. n - Cut /\ h - 1 \in 0 .. n - Cut
      BY <1>0
    <3> QED
      BY <1>2, <3>1 DEF Given
  <2>5. D(g + 1) = (diag[g] - v) * (D(Cut) * R(h)) - offd[g - 1] * offd[g - 1] * (D(Cut) * R(h - 1))
    BY <1>1, <2>1, <2>2, <2>3
  <2>6. R(h + 1) = (diag[g] - v) * R(h) - offd[g - 1] * offd[g - 1] * R(h - 1)
    BY <1>2, <2>3
  <2>7. \A c, d, o, x, y \in Int : (d - v) * (c * x) - o * o * (c * y) = c * ((d - v) * x - o * o * y)
    OBVIOUS
  <2>8. D(g + 1) = D(Cut) * R(h + 1)
    BY <1>3, <2>4, <2>5, <2>6, <2>7
  <2> QED
    BY <2>1, <2>2, <2>3, <2>8
<1>6. \A k \in Nat : k \in S
  <2> HIDE DEF S
  <2> QED
    BY <1>4, <1>5, Induction
<1>7. ASSUME NEW k \in 0 .. n - Cut PROVE D(Cut + k) = D(Cut) * R(k)
  <2>1. CASE k = n - Cut
    <3>1. k - 1 \in S /\ k - 1 \in Nat /\ (k - 1) + 1 = k
      BY <1>0, <1>6, <2>1
    <3> QED
      BY <2>1, <3>1
  <2>2. CASE k < n - Cut
    <3>1. k \in S /\ k \in Nat /\ k + 1 <= n - Cut
      BY <1>0, <1>6, <2>2
    <3> QED
      BY <3>1
  <2> QED
    BY <1>0, <2>1, <2>2
<1> QED
  BY <1>7 DEF D, R

\* Within the block, zeros are alone, and a sign changes across them.
LEMMA RestZeros ==
  ASSUME Given, Falls, NEW v \in Int, Rest!Det(n - Cut, v) # 0
  PROVE  /\ \A k \in 0 .. n - Cut : Rest!Det(k, v) \in Int
         /\ Rest!Det(0, v) = 1
         /\ \A k \in 1 .. n - Cut - 1 : Rest!Det(k, v) = 0 =>
              /\ Rest!Det(k + 1, v) # 0 /\ Rest!Det(k - 1, v) # 0
              /\ Rest!Det(k + 1, v) < 0 <=> Rest!Det(k - 1, v) > 0
<1> DEFINE R(k) == Rest!Det(k, v)
           a == [j \in 0 .. n - Cut - 1 |-> diag[Cut + j]]
           b == [j \in 0 .. n - Cut - 2 |-> offd[Cut + j]]
<1>0. n - Cut \in Nat \ {0} /\ Rest!Given
  BY RestGiven
<1>1. /\ \A k \in 0 .. n - Cut : R(k) \in Int
      /\ R(0) = 1
      /\ \A k \in 1 .. n - Cut - 1 :
           R(k + 1) = (a[k] - v) * R(k) - b[k - 1] * b[k - 1] * R(k - 1)
  BY <1>0, SturmAssumption, Rest!NextMinor
<1>2. \A k \in 1 .. n - Cut : R(k) # 0 \/ R(k - 1) # 0
  BY <1>0, SturmAssumption, Rest!ZerosStay
<1>3. /\ a \in [0 .. n - Cut - 1 -> Int] /\ b \in [0 .. n - Cut - 2 -> Int]
  BY <1>0 DEF Rest!Given
<1> HIDE DEF R, a, b
<1>4. ASSUME NEW k \in 1 .. n - Cut - 1, R(k) = 0
      PROVE  R(k + 1) # 0 /\ R(k - 1) # 0 /\ (R(k + 1) < 0 <=> R(k - 1) > 0)
  <2>0. k \in 1 .. n - Cut /\ k + 1 \in 1 .. n - Cut /\ (k + 1) - 1 = k /\ k - 1 \in 0 .. n - Cut
    BY <1>0
  <2>1. R(k + 1) # 0 /\ R(k - 1) # 0 /\ R(k - 1) \in Int
    BY <1>1, <1>2, <1>4, <2>0
  <2>2. a[k] \in Int /\ b[k - 1] \in Int
    BY <1>0, <1>3
  <2>3. R(k + 1) = (a[k] - v) * 0 - b[k - 1] * b[k - 1] * R(k - 1)
    BY <1>1, <1>4
  <2>4. \A w, x, y \in Int :
          LET z == w * 0 - x * x * y IN z # 0 => (z < 0 <=> y > 0)
    <3> SUFFICES ASSUME NEW w \in Int, NEW x \in Int, NEW y \in Int,
                        w * 0 - x * x * y # 0
                 PROVE  w * 0 - x * x * y < 0 <=> y > 0
      OBVIOUS
    <3>1. w * 0 = 0 /\ x * x \in Int /\ x * x >= 0 /\ (x * x) * y \in Int
      BY Signs
    <3>2. x * x > 0
      BY <3>1
    <3>3. (x * x) * y > 0 <=> y > 0
      BY <3>1, <3>2, Signs
    <3> QED
      BY <3>1, <3>3
  <2> QED
    BY <2>1, <2>2, <2>3, <2>4
<1> QED
  BY <1>1, <1>4 DEF R

\* The sign changes of the whole are those above the cut and those of the block.
LEMMA RestChanges ==
  ASSUME Given, Falls, NEW v \in Int, Det(n, v) # 0
  PROVE  SignChanges(n, v) = SignChanges(Cut, v) + Rest!SignChanges(n - Cut, v)
<1> DEFINE d == Det(Cut, v)
           R(k) == Rest!Det(k, v)
           B(k) == Rest!SignChanges(k, v)
           C(k) == SignChanges(k, v)
           Off(k) == IF d > 0 \/ R(k) # 0 THEN 0 ELSE IF R(k - 1) > 0 THEN 1 ELSE -1
           S == {k \in Nat : k <= n - Cut => C(Cut + k) = C(Cut) + B(k) + Off(k)}
<1>0. /\ n \in Nat /\ Cut \in Nat \ {0} /\ n - Cut \in Nat \ {0} /\ Rest!Given
      /\ \A k \in 0 .. n - Cut : Cut + k \in 0 .. n
      /\ Cut + (n - Cut) = n
  BY RestGiven
<1>1. d \in Int /\ d # 0 /\ R(n - Cut) # 0
  <2>1. d \in Int /\ Det(n, v) = d * R(n - Cut) /\ R(n - Cut) \in Int
    <3>1. Cut \in 0 .. n /\ n - Cut \in 0 .. n - Cut
      BY <1>0
    <3>2. d \in Int
      BY <3>1, NextMinor
    <3>3. \A k \in 0 .. n - Cut : R(k) \in Int
      BY <1>0, SturmAssumption, Rest!NextMinor
    <3>4. Det(Cut + (n - Cut), v) = d * R(n - Cut)
      BY <3>1, RestMinors
    <3> HIDE DEF d, R
    <3> QED
      BY <1>0, <3>1, <3>2, <3>3, <3>4
  <2>2. \A x, y \in Int : x * y # 0 => x # 0 /\ y # 0
    OBVIOUS
  <2> QED
    BY <2>1, <2>2
<1>2. /\ \A k \in 0 .. n - Cut : R(k) \in Int
      /\ R(0) = 1
      /\ \A k \in 1 .. n - Cut - 1 : R(k) = 0 =>
           R(k + 1) # 0 /\ R(k - 1) # 0 /\ (R(k + 1) < 0 <=> R(k - 1) > 0)
  BY <1>1, RestZeros
<1>3. /\ B(0) = 0
      /\ \A k \in 0 .. n - Cut : B(k) \in Nat
      /\ \A k \in 0 .. n - Cut - 1 :
           B(k + 1) = IF (R(k + 1) < 0) # (R(k) < 0) THEN B(k) + 1 ELSE B(k)
  <2>1. /\ B(0) = 0
        /\ \A k \in 0 .. n - Cut : B(k) \in Nat
        /\ \A k \in 0 .. n - Cut - 1 :
             B(k + 1) = IF Rest!SignChange(R(k + 1), R(k)) THEN B(k) + 1 ELSE B(k)
    BY <1>0, SturmAssumption, Rest!CountSigns
  <2> HIDE DEF B, R
  <2> QED
    BY <2>1 DEF Rest!SignChange
<1>4. /\ C(Cut) \in Nat
      /\ \A k \in 0 .. n - Cut - 1 :
           C(Cut + (k + 1)) =
             IF (d * R(k + 1) < 0) # (d * R(k) < 0) THEN C(Cut + k) + 1 ELSE C(Cut + k)
  <2>1. C(Cut) \in Nat
    BY <1>0, CountSigns
  <2>2. ASSUME NEW k \in 0 .. n - Cut - 1
        PROVE  C(Cut + (k + 1)) =
                 IF (d * R(k + 1) < 0) # (d * R(k) < 0) THEN C(Cut + k) + 1 ELSE C(Cut + k)
    <3>1. /\ Cut + k \in 0 .. n - 1 /\ Cut + (k + 1) = (Cut + k) + 1
          /\ k \in 0 .. n - Cut /\ k + 1 \in 0 .. n - Cut
      BY <1>0
    <3>2. Det(Cut + k, v) = d * R(k) /\ Det(Cut + (k + 1), v) = d * R(k + 1)
      BY <3>1, RestMinors
    <3>3. C((Cut + k) + 1) =
            IF SignChange(Det((Cut + k) + 1, v), Det(Cut + k, v)) THEN C(Cut + k) + 1 ELSE C(Cut + k)
      BY <3>1, CountSigns
    <3> HIDE DEF C, R, d
    <3> QED
      BY <3>1, <3>2, <3>3 DEF SignChange
  <2> QED
    BY <2>1, <2>2
<1>5. \A x \in Int : /\ d > 0 => (d * x < 0 <=> x < 0)
                     /\ d < 0 => (d * x < 0 <=> x > 0)
  <2>1. \A x, y \in Int : /\ y > 0 => (y * x < 0 <=> x < 0)
                          /\ y < 0 => (y * x < 0 <=> x > 0)
    OBVIOUS
  <2> QED
    BY <1>1, <2>1
<1> HIDE DEF d, R, B, C
<1>6. 0 \in S
  <2>1. Cut + 0 = Cut /\ Off(0) = 0
    BY <1>0, <1>2
  <2> QED
    BY <1>3, <1>4, <2>1
<1>7. ASSUME NEW k \in Nat, k \in S PROVE k + 1 \in S
  <2> SUFFICES ASSUME k + 1 <= n - Cut PROVE C(Cut + (k + 1)) = C(Cut) + B(k + 1) + Off(k + 1)
    OBVIOUS
  <2>0. /\ k \in 0 .. n - Cut - 1 /\ k \in 0 .. n - Cut /\ k + 1 \in 0 .. n - Cut
        /\ (k + 1) - 1 = k
    BY <1>0
  <2>1. PICK x, y, c, e \in Int : /\ x = R(k) /\ y = R(k + 1)
                                  /\ c = C(Cut) /\ e = B(k)
    BY <1>2, <1>3, <1>4, <2>0
  <2>2. C(Cut + k) = c + e + Off(k)
    BY <1>0, <1>7, <2>0, <2>1
  <2>3. B(k + 1) = IF (y < 0) # (x < 0) THEN e + 1 ELSE e
    BY <1>3, <2>0, <2>1
  <2>4. C(Cut + (k + 1)) =
          IF (d * y < 0) # (d * x < 0) THEN C(Cut + k) + 1 ELSE C(Cut + k)
    BY <1>4, <2>0, <2>1
  <2>5. Off(k + 1) = IF d > 0 \/ y # 0 THEN 0 ELSE IF x > 0 THEN 1 ELSE -1
    BY <2>0, <2>1
  <2>6. CASE d > 0
    <3>1. Off(k) = 0 /\ Off(k + 1) = 0
      BY <2>6
    <3> HIDE DEF Off
    <3> QED
      BY <1>5, <2>1, <2>2, <2>3, <2>4, <2>6, <3>1
  <2>7. CASE d < 0 /\ x # 0
    <3>1. Off(k) = 0
      BY <2>1, <2>7
    <3>2. d * y < 0 <=> y > 0
      BY <1>5, <2>1, <2>7
    <3>3. d * x < 0 <=> x > 0
      BY <1>5, <2>1, <2>7
    <3>4. ~(d > 0)
      BY <1>1, <2>7
    <3> HIDE DEF Off
    <3> QED
      BY <2>1, <2>2, <2>3, <2>4, <2>5, <2>7, <3>1, <3>2, <3>3, <3>4
  <2>8. CASE d < 0 /\ x = 0
    <3>0. k # 0
      <4>1. R(0) = 1 /\ R(k) = 0
        BY <1>2, <2>1, <2>8
      <4>2. k = 0 => R(k) = R(0)
        BY Zenon
      <4> QED
        BY <4>1, <4>2
    <3>1. k \in 1 .. n - Cut - 1 /\ k - 1 \in 0 .. n - Cut
      BY <1>0, <2>0, <3>0
    <3>2. PICK z \in Int : z = R(k - 1)
      BY <1>2, <3>1
    <3>3. y # 0 /\ z # 0 /\ (y < 0 <=> z > 0)
      BY <1>2, <2>1, <2>8, <3>1, <3>2
    <3>4. ~(d > 0)
      BY <1>1, <2>8
    <3>5. Off(k) = IF z > 0 THEN 1 ELSE -1
      BY <2>1, <2>8, <3>2, <3>4
    <3>6. d * y < 0 <=> y > 0
      BY <1>5, <2>1, <2>8
    <3>7. ~(d * x < 0)
      BY <1>5, <2>1, <2>8
    <3> HIDE DEF Off
    <3> QED
      BY <2>1, <2>2, <2>3, <2>4, <2>5, <2>8, <3>2, <3>3, <3>4, <3>5, <3>6, <3>7
  <2> QED
    BY <1>1, <2>6, <2>7, <2>8
<1>8. \A k \in Nat : k \in S
  <2> HIDE DEF S
  <2> QED
    BY <1>6, <1>7, Induction
<1>9. Off(n - Cut) = 0
  BY <1>1
<1>10. C(Cut + (n - Cut)) = C(Cut) + B(n - Cut) + Off(n - Cut)
  <2>1. n - Cut \in S /\ n - Cut \in Nat /\ n - Cut <= n - Cut
    BY <1>0, <1>8
  <2> HIDE DEF Off
  <2> QED
    BY <2>1
<1>11. C(Cut) \in Int /\ B(n - Cut) \in Int
  BY <1>0, <1>3, <1>4
<1> QED
  BY <1>0, <1>9, <1>10, <1>11 DEF B, C

\* Above the cut there may be more blocks.
CountsBlocks ==
  pc = "returned" /\ Falls /\ Det(n, u) # 0 =>
    isneg = SignChanges(Cut, u) + Rest!SignChanges(n - Cut, u)

\* Where a matrix falls into blocks, sturm counts for the whole what it counts for
\* the rows above the cut and for the block below by themselves, unless u is an
\* eigenvalue.
THEOREM SturmCountsBlocks == Spec => []CountsBlocks
<1>1. Given /\ (nan => Det(n, u) = 0) /\ (pc = "returned" /\ ~nan => isneg = SignChanges(n, u))
        => CountsBlocks
  <2> SUFFICES ASSUME Given, nan => Det(n, u) = 0,
                      pc = "returned" /\ ~nan => isneg = SignChanges(n, u),
                      pc = "returned", Falls, Det(n, u) # 0
               PROVE  isneg = SignChanges(Cut, u) + Rest!SignChanges(n - Cut, u)
    BY DEF CountsBlocks
  <2>1. u \in Int
    BY DEF Given
  <2> QED
    BY <2>1, RestChanges
<1> QED
  BY <1>1, GivenInit, GivenNext, SturmDividesByZeroAtEigenvalues, SturmCountsSignChanges,
     PTL DEF Spec
-----------------------------------------------------------------------------
(* The ends of the interval.                                                *)

\* The step of the recurrence, where the diagonal element outweighs what is
\* beside it: a above and r below.
LEMMA Dominated ==
  ASSUME NEW d \in Int, NEW a \in Nat, NEW r \in Nat, NEW x \in Nat, NEW y \in Nat,
         d >= a + r, a * y <= x
  PROVE  /\ d * x - a * a * y \in Int
         /\ d * x - a * a * y >= r * x
         /\ r * x \in Nat
<1>1. \A b, c \in Nat : b * c \in Nat
  OBVIOUS
<1>2. \A b, c \in Int, z \in Nat : b <= c => z * b <= z * c
  OBVIOUS
<1>3. d * x >= (a + r) * x
  <2>1. x * (a + r) <= x * d
    BY <1>2
  <2> QED
    BY <2>1
<1>4. (a + r) * x = a * x + r * x
  OBVIOUS
<1>5. a * a * y <= a * x
  <2>1. a * (a * y) <= a * x
    BY <1>1, <1>2
  <2>2. a * (a * y) = a * a * y
    OBVIOUS
  <2> QED
    BY <2>1, <2>2
<1>6. d * x \in Int /\ a * a * y \in Int /\ a * x \in Nat /\ r * x \in Nat
      /\ (a + r) * x \in Int
  BY <1>1
<1> QED
  BY <1>3, <1>4, <1>5, <1>6

\* All discs are at or above u, or all are below.
Below == \A j \in 0 .. n - 1 : u <= diag[j] - Radius(j)
Above == \A j \in 0 .. n - 1 : u > diag[j] + Radius(j)

\* At the lower end the terms stay positive or zero, and do not shrink more than
\* the next element off the diagonal allows.
LowerEnd ==
  Below =>
    /\ isneg = 0
    /\ pc = "loop" =>
         /\ Pm1_0 >= 0 /\ Pm1_1 >= 0
         /\ i < n => Abs(offd[i - 1]) * Pm1_1 <= Pm1_0

\* At the upper end every term has another sign than the one before.
UpperEnd ==
  Above =>
    /\ pc = "start" => isneg = 0 /\ ~nan
    /\ pc = "returned" => isneg = n
    /\ pc = "loop" =>
         /\ isneg = i /\ ~nan
         /\ (Pm1_0 > 0 /\ Pm1_1 < 0) \/ (Pm1_0 < 0 /\ Pm1_1 > 0)
         /\ i < n => Abs(offd[i - 1]) * Abs(Pm1_1) <= Abs(Pm1_0)

LEMMA AbsNat ==
  ASSUME NEW x \in Int
  PROVE  Abs(x) \in Nat /\ Abs(x) * Abs(x) = x * x
<1>1. CASE x < 0
  BY <1>1 DEF Abs
<1>2. CASE x >= 0
  BY <1>2 DEF Abs
<1> QED
  BY <1>1, <1>2

\* The radii of the first disc and of the disc of the next row.
LEMMA Radii ==
  ASSUME Given, n > 0
  PROVE  /\ Radius(0) = IF n > 1 THEN Abs(offd[0]) ELSE 0
         /\ \A j \in 1 .. n - 1 :
              /\ diag[j] \in Int /\ offd[j - 1] \in Int
              /\ j + 1 < n => offd[j] \in Int
              /\ Radius(j) = Abs(offd[j - 1]) + IF j + 1 < n THEN Abs(offd[j]) ELSE 0
<1>1. n \in Nat
  BY DEF Given
<1>2. ASSUME NEW j \in 0 .. n - 2 PROVE offd[j] \in Int /\ Abs(offd[j]) \in Nat
  BY <1>2, AbsNat DEF Given
<1>3. Radius(0) = IF n > 1 THEN Abs(offd[0]) ELSE 0
  <2>1. Radius(0) = 0 + IF 0 < n - 1 THEN Abs(offd[0]) ELSE 0
    BY DEF Radius
  <2> QED
    BY <1>1, <1>2, <2>1
<1>4. ASSUME NEW j \in 1 .. n - 1
      PROVE  /\ diag[j] \in Int /\ offd[j - 1] \in Int
             /\ j + 1 < n => offd[j] \in Int
             /\ Radius(j) = Abs(offd[j - 1]) + IF j + 1 < n THEN Abs(offd[j]) ELSE 0
  <2>1. diag[j] \in Int
    BY <1>4 DEF Given
  <2>2. offd[j - 1] \in Int /\ (j + 1 < n => offd[j] \in Int)
    BY <1>1, <1>2
  <2>3. j > 0 /\ (j < n - 1 <=> j + 1 < n)
    BY <1>1
  <2> QED
    BY <2>1, <2>2, <2>3 DEF Radius
<1> QED
  BY <1>3, <1>4

\* The disc of the row that the loop comes to.
LEMMA NextRadius ==
  ASSUME Given, Iterate, Counted
  PROVE  \E r \in Nat :
           /\ Radius(i) = Abs(offd[i - 1]) + r
           /\ i + 1 < n => r = Abs(offd[i])
<1>1. i \in 1 .. n - 1 /\ n > 0 /\ n \in Nat
  BY DEF Given, Iterate, Counted
<1>2. CASE i + 1 < n
  <2>1. Abs(offd[i]) \in Nat
    BY <1>1, <1>2, Radii, AbsNat
  <2> QED
    BY <1>1, <1>2, <2>1, Radii
<1>3. CASE ~(i + 1 < n)
  BY <1>1, <1>3, Radii
<1> QED
  BY <1>2, <1>3

LEMMA EndsKept ==
  ASSUME Given, [Next]_vars
  PROVE  /\ Below' <=> Below
         /\ Above' <=> Above
  BY DEF Given, Next, Start, Iterate, Return, vars, arguments, Below, Above, Radius

LEMMA LowerNext ==
  ASSUME Given, Counted, LowerEnd, [Next]_vars
  PROVE  LowerEnd'
<1> SUFFICES ASSUME Below
             PROVE  /\ isneg' = 0
                    /\ pc' = "loop" =>
                         /\ Pm1_0' >= 0 /\ Pm1_1' >= 0
                         /\ i' < n => Abs(offd[i' - 1]) * Pm1_1' <= Pm1_0'
  BY EndsKept DEF LowerEnd, Next, Start, Iterate, Return, vars, arguments
<1>1. CASE Start
  <2>1. CASE n = 0
    BY <1>1, <2>1 DEF Start, LowerEnd
  <2>2. CASE n # 0
    <3>1. n > 0 /\ 0 \in 0 .. n - 1 /\ diag[0] \in Int /\ u \in Int
      BY <2>2 DEF Given
    <3>2. u <= diag[0] - Radius(0)
      BY <3>1 DEF Below
    <3>3. n > 1 => offd[0] \in Int
      BY <3>1 DEF Given
    <3>4. /\ Radius(0) \in Nat
          /\ n > 1 => Radius(0) = Abs(offd[0]) /\ Abs(offd[0]) \in Nat
      BY <3>1, <3>3, Radii, AbsNat
    <3>5. Pm1_1' = 1 /\ Pm1_0' = diag[0] - u /\ i' = 1
          /\ isneg' = (IF Pm1_0' < 0 THEN 1 ELSE 0)
      BY <1>1, <2>2 DEF Start
    <3>6. Pm1_0' >= Radius(0) /\ Pm1_0' >= 0
      BY <3>1, <3>2, <3>4, <3>5
    <3>7. 1 < n => Abs(offd[1 - 1]) * 1 <= Pm1_0'
      BY <3>4, <3>6
    <3> QED
      BY <3>1, <3>5, <3>6, <3>7
  <2> QED
    BY <2>1, <2>2
<1>2. CASE Iterate
  <2> DEFINE a == Abs(offd[i - 1])
             d == diag[i] - u
  <2>1. PICK r \in Nat : Radius(i) = a + r /\ (i + 1 < n => r = Abs(offd[i]))
    BY <1>2, NextRadius
  <2>2. i \in 1 .. n - 1 /\ n > 0 /\ n \in Nat /\ i < n /\ pc = "loop"
    BY <1>2 DEF Given, Iterate, Counted
  <2>3. a \in Nat /\ a * a = offd[i - 1] * offd[i - 1] /\ diag[i] \in Int /\ u \in Int
    BY <2>2, Radii, AbsNat DEF Given
  <2>4. d \in Int /\ d >= a + r
    <3>1. u <= diag[i] - (a + r)
      BY <2>1, <2>2 DEF Below
    <3> QED
      BY <2>3, <3>1
  <2>5. Pm1_0 \in Nat /\ Pm1_1 \in Nat /\ a * Pm1_1 <= Pm1_0 /\ isneg = 0
    BY <2>2 DEF LowerEnd, Counted
  <2>6. Pm1_0' = d * Pm1_0 - a * a * Pm1_1 /\ Pm1_1' = Pm1_0 /\ i' = i + 1
    BY <1>2, <2>3 DEF Iterate
  <2> HIDE DEF a, d
  <2>7. Pm1_0' >= r * Pm1_0 /\ r * Pm1_0 \in Nat /\ Pm1_0' \in Int
    BY <2>3, <2>4, <2>5, <2>6, Dominated
  <2>8. Pm1_0' >= 0 /\ Pm1_1' >= 0
    BY <2>5, <2>6, <2>7
  <2>9. isneg' = 0
    BY <1>2, <2>5, <2>8 DEF Iterate, SignChange
  <2>10. i' < n => Abs(offd[i' - 1]) * Pm1_1' <= Pm1_0'
    <3>1. i' - 1 = i
      BY <2>2, <2>6
    <3> QED
      BY <2>1, <2>2, <2>6, <2>7, <3>1
  <2> QED
    BY <2>8, <2>9, <2>10
<1>3. CASE Return
  BY <1>3 DEF Return, LowerEnd
<1>4. CASE UNCHANGED vars
  BY <1>4 DEF vars, arguments, LowerEnd
<1> QED
  BY <1>1, <1>2, <1>3, <1>4 DEF Next

LEMMA UpperNext ==
  ASSUME Given, Counted, UpperEnd, [Next]_vars
  PROVE  UpperEnd'
<1> DEFINE Alternates(x, y) == (x > 0 /\ y < 0) \/ (x < 0 /\ y > 0)
<1> SUFFICES ASSUME Above
             PROVE  /\ pc' = "start" => isneg' = 0 /\ ~nan'
                    /\ pc' = "returned" => isneg' = n
                    /\ pc' = "loop" =>
                         /\ isneg' = i' /\ ~nan'
                         /\ Alternates(Pm1_0', Pm1_1')
                         /\ i' < n => Abs(offd[i' - 1]) * Abs(Pm1_1') <= Abs(Pm1_0')
  BY EndsKept DEF UpperEnd, Next, Start, Iterate, Return, vars, arguments
<1>1. CASE Start
  <2>1. CASE n = 0
    BY <1>1, <2>1 DEF Start, UpperEnd
  <2>2. CASE n # 0
    <3>1. n > 0 /\ 0 \in 0 .. n - 1 /\ diag[0] \in Int /\ u \in Int
      BY <2>2 DEF Given
    <3>2. u > diag[0] + Radius(0)
      BY <3>1 DEF Above
    <3>3. n > 1 => offd[0] \in Int
      BY <3>1 DEF Given
    <3>4. /\ Radius(0) \in Nat
          /\ n > 1 => Radius(0) = Abs(offd[0]) /\ Abs(offd[0]) \in Nat
      BY <3>1, <3>3, Radii, AbsNat
    <3>5. Pm1_1' = 1 /\ Pm1_0' = diag[0] - u /\ i' = 1 /\ nan' = nan /\ pc' = "loop"
          /\ isneg' = (IF Pm1_0' < 0 THEN 1 ELSE 0)
      BY <1>1, <2>2 DEF Start
    <3>6. Pm1_0' < 0 /\ Abs(Pm1_0') >= Radius(0) /\ Abs(Pm1_1') = 1
      BY <3>1, <3>2, <3>4, <3>5 DEF Abs
    <3>7. 1 < n => Abs(offd[1 - 1]) * 1 <= Abs(Pm1_0')
      BY <3>1, <3>4, <3>5, <3>6
    <3>8. ~nan'
      BY <1>1, <3>5 DEF Start, UpperEnd
    <3> QED
      BY <3>1, <3>5, <3>6, <3>7, <3>8
  <2> QED
    BY <2>1, <2>2
<1>2. CASE Iterate
  <2> DEFINE a == Abs(offd[i - 1])
             d == u - diag[i]
             x == Abs(Pm1_0)
             y == Abs(Pm1_1)
             next == d * x - a * a * y
  <2>1. PICK r \in Nat : Radius(i) = a + r /\ (i + 1 < n => r = Abs(offd[i]))
    BY <1>2, NextRadius
  <2>2. i \in 1 .. n - 1 /\ n > 0 /\ n \in Nat /\ i < n /\ pc = "loop"
    BY <1>2 DEF Given, Iterate, Counted
  <2>3. a \in Nat /\ a * a = offd[i - 1] * offd[i - 1] /\ diag[i] \in Int /\ u \in Int
    BY <2>2, Radii, AbsNat DEF Given
  <2>4. d \in Int /\ d >= a + (r + 1)
    <3>1. u > diag[i] + (a + r)
      BY <2>1, <2>2 DEF Above
    <3> QED
      BY <2>3, <3>1
  <2>5. /\ isneg = i /\ ~nan /\ Alternates(Pm1_0, Pm1_1) /\ a * y <= x
        /\ Pm1_0 \in Int /\ Pm1_1 \in Int
    BY <2>2 DEF UpperEnd, Counted
  <2>6. x \in Nat /\ x > 0 /\ y \in Nat /\ y > 0
    BY <2>5 DEF Abs
  <2>7. /\ Pm1_0' = (-d) * Pm1_0 - a * a * Pm1_1 /\ Pm1_1' = Pm1_0 /\ i' = i + 1
        /\ pc' = "loop"
    <3>1. diag[i] - u = -d
      BY <2>3
    <3> QED
      BY <1>2, <2>3, <3>1 DEF Iterate
  <2>8. next \in Int /\ next >= (r + 1) * x
    <3> HIDE DEF a, d, x, y
    <3> QED
      BY <2>3, <2>4, <2>5, <2>6, Dominated
  <2>9. next >= r * x + x /\ r * x \in Nat
    <3> HIDE DEF a, d, x, y, next
    <3>1. (r + 1) * x = r * x + x /\ r * x \in Nat
      BY <2>6
    <3> QED
      BY <2>6, <2>8, <3>1
  <2>10. next > 0 /\ r * x <= next
    <3> HIDE DEF a, d, x, y, next
    <3> QED
      BY <2>6, <2>8, <2>9
  <2>11. \/ Pm1_0 > 0 /\ Pm1_1 < 0 /\ Pm1_0' = -next
         \/ Pm1_0 < 0 /\ Pm1_1 > 0 /\ Pm1_0' = next
    <3>1. ASSUME Pm1_0 > 0, Pm1_1 < 0 PROVE Pm1_0' = -next
      <4>1. x = Pm1_0 /\ y = -Pm1_1
        BY <2>5, <3>1 DEF Abs
      <4> HIDE DEF a, d, x, y
      <4> QED
        BY <2>3, <2>4, <2>5, <2>7, <4>1
    <3>2. ASSUME Pm1_0 < 0, Pm1_1 > 0 PROVE Pm1_0' = next
      <4>1. x = -Pm1_0 /\ y = Pm1_1
        BY <2>5, <3>2 DEF Abs
      <4> HIDE DEF a, d, x, y
      <4> QED
        BY <2>3, <2>4, <2>5, <2>7, <4>1
    <3> QED
      BY <2>5, <3>1, <3>2
  <2> HIDE DEF next
  <2>12. Alternates(Pm1_0', Pm1_1') /\ Abs(Pm1_0') = next /\ Abs(Pm1_1') = x
    BY <2>7, <2>8, <2>10, <2>11 DEF Abs
  <2>13. ~nan'
    <3>1. nan' = (nan \/ (IF x > y THEN x ELSE y) = 0)
      BY <1>2 DEF Iterate
    <3>2. (IF x > y THEN x ELSE y) # 0
      BY <2>6
    <3> QED
      BY <2>5, <3>1, <3>2, Zenon
  <2>14. isneg' = i + 1
    BY <1>2, <2>5, <2>12, <2>13 DEF Iterate, SignChange
  <2>15. i' < n => Abs(offd[i' - 1]) * Abs(Pm1_1') <= Abs(Pm1_0')
    <3>1. i' - 1 = i
      BY <2>2, <2>7
    <3> HIDE DEF a, d, x, y
    <3> QED
      BY <2>1, <2>2, <2>7, <2>10, <2>12, <3>1
  <2> QED
    BY <2>7, <2>12, <2>13, <2>14, <2>15
<1>3. CASE Return
  BY <1>3 DEF Return, UpperEnd, Counted, Given
<1>4. CASE UNCHANGED vars
  BY <1>4 DEF vars, arguments, UpperEnd
<1> QED
  BY <1>1, <1>2, <1>3, <1>4 DEF Next

\* Whatever the order of the matrix and the integers in it, sturm counts no
\* eigenvalue at the lower end of an interval that has all of Gershgorin's
\* discs, and n at the upper end: bisection may start there.
THEOREM SturmCountsAllBetweenEnds == Spec => []AllBetweenEnds
<1>1. Init => LowerEnd /\ UpperEnd
  BY DEF Init, LowerEnd, UpperEnd
<1>2. LowerEnd /\ UpperEnd => AllBetweenEnds
  BY DEF LowerEnd, UpperEnd, Below, Above, AllBetweenEnds
<1> QED
  BY <1>1, <1>2, GivenInit, GivenNext, CountedInit, CountedNext, LowerNext, UpperNext,
     PTL DEF Spec
=============================================================================
