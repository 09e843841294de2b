-------------------------------- MODULE Sturm --------------------------------
(***************************************************************************)
(* lapack::sturm (src/sturm.cc): how many eigenvalues of a symmetric       *)
(* tridiagonal matrix are less than u, from the sign changes of a Sturm    *)
(* sequence.  It is the one routine of the library that computes something *)
(* itself.                                                                 *)
(*                                                                         *)
(* Numbers are integers, without rounding.  Scaling multiplies Pm1_0 and   *)
(* Pm1_1 by the same positive s, which no later test of a sign can tell,   *)
(* so s is left out, but for upsilon / 0: then both become NaN, and every  *)
(* comparison with them is false from there on.                            *)
(***************************************************************************)
EXTENDS Integers, FiniteSets, Functions, FiniteSetsExt

CONSTANTS
  MaxN,    \* bound on the order of the matrix
  Entries, \* the elements of its diagonal and the points u
  Offs     \* the elements off its diagonal

ASSUME SturmAssumption == MaxN \in Nat /\ Entries \subseteq Int /\ Offs \subseteq Int

VARIABLES
  n, diag, offd, u, \* the arguments
  i,                \* the loop counter
  Pm1_0, Pm1_1,     \* P[i-1]
  nan,              \* both are NaN
  isneg,            \* sign changes so far
  pc

arguments == <<n, diag, offd, u>>
vars == <<arguments, i, Pm1_0, Pm1_1, nan, isneg, pc>>

Abs(x) == IF x < 0 THEN -x ELSE x

-----------------------------------------------------------------------------
Init ==
  /\ n \in 0 .. MaxN
  /\ diag \in [0 .. n - 1 -> Entries]
  /\ offd \in [0 .. n - 2 -> Offs]
  /\ u \in Entries
  /\ i = 0 /\ Pm1_0 = 0 /\ Pm1_1 = 0 /\ nan = FALSE /\ isneg = 0
  /\ pc = "start"

\* Mutant: n = 0 is not told apart, and what lies in diag[0] is read.
StartUnchecked ==
  /\ pc = "start"
  /\ pc' = "loop"
  /\ Pm1_1' = 1
  /\ Pm1_0' = (IF n = 0 THEN 0 ELSE diag[0]) - u
  /\ isneg' = IF Pm1_0' < 0 THEN 1 ELSE 0
  /\ i' = 1
  /\ UNCHANGED <<arguments, nan>>

\* if (n == 0) return 0, or the first element of the sequence.
Start ==
  /\ pc = "start"
  /\ IF n = 0
     THEN /\ pc' = "returned"
          /\ UNCHANGED <<i, Pm1_0, Pm1_1, isneg>>
     ELSE /\ pc' = "loop"
          /\ Pm1_1' = 1
          /\ Pm1_0' = diag[0] - u
          /\ isneg' = IF Pm1_0' < 0 THEN 1 ELSE 0
          /\ i' = 1
  /\ UNCHANGED <<arguments, nan>>

\* Mutant: a zero counts as negative.
SignChangeAtZero(x, y) == (x <= 0) # (y <= 0)

\* (Pm1_0 < 0 && Pm1_1 >= 0) || (Pm1_0 >= 0 && Pm1_1 < 0)
SignChange(x, y) == (x < 0) # (y < 0)

\* Mutant: the off-diagonal element of the next row.
IterateOneAhead ==
  /\ pc = "loop"
  /\ i < n
  /\ LET w == IF Abs(Pm1_0) > Abs(Pm1_1) THEN Abs(Pm1_0) ELSE Abs(Pm1_1)
         off == IF i < n - 1 THEN offd[i] ELSE offd[i-1]
     IN  /\ Pm1_0' = (diag[i] - u) * Pm1_0 - off * off * Pm1_1
         /\ Pm1_1' = Pm1_0
         /\ nan' = (nan \/ w = 0)
         /\ isneg' = IF ~nan' /\ SignChange(Pm1_0', Pm1_1') THEN isneg + 1 ELSE isneg
  /\ i' = i + 1
  /\ UNCHANGED <<arguments, pc>>

\* Mutant: the square is added.
IterateAdding ==
  /\ pc = "loop"
  /\ i < n
  /\ LET w == IF Abs(Pm1_0) > Abs(Pm1_1) THEN Abs(Pm1_0) ELSE Abs(Pm1_1)
     IN  /\ Pm1_0' = (diag[i] - u) * Pm1_0 + offd[i-1] * offd[i-1] * Pm1_1
         /\ Pm1_1' = Pm1_0
         /\ nan' = (nan \/ w = 0)
         /\ isneg' = IF ~nan' /\ SignChange(Pm1_0', Pm1_1') THEN isneg + 1 ELSE isneg
  /\ i' = i + 1
  /\ UNCHANGED <<arguments, pc>>

\* Mutant: the scale is taken from the newer of the two values alone.
IterateNewest ==
  /\ pc = "loop"
  /\ i < n
  /\ LET w == Abs(Pm1_0)
     IN  /\ Pm1_0' = (diag[i] - u) * Pm1_0 - offd[i-1] * offd[i-1] * Pm1_1
         /\ Pm1_1' = Pm1_0
         /\ nan' = (nan \/ w = 0)
         /\ isneg' = IF ~nan' /\ SignChange(Pm1_0', Pm1_1') THEN isneg + 1 ELSE isneg
  /\ i' = i + 1
  /\ UNCHANGED <<arguments, pc>>

\* The body of the loop: w, P[i], scaling, and the sign test.
Iterate ==
  /\ pc = "loop"
  /\ i < n
  /\ LET w == IF Abs(Pm1_0) > Abs(Pm1_1) THEN Abs(Pm1_0) ELSE Abs(Pm1_1)
     IN  /\ Pm1_0' = (diag[i] - u) * Pm1_0 - offd[i-1] * offd[i-1] * Pm1_1
         /\ Pm1_1' = Pm1_0
         /\ nan' = (nan \/ w = 0)
         /\ isneg' = IF ~nan' /\ SignChange(Pm1_0', Pm1_1') THEN isneg + 1 ELSE isneg
  /\ i' = i + 1
  /\ UNCHANGED <<arguments, pc>>

\* return isneg;
Return ==
  /\ pc = "loop"
  /\ i >= n
  /\ pc' = "returned"
  /\ UNCHANGED <<arguments, i, Pm1_0, Pm1_1, nan, isneg>>

Next == Start \/ Iterate \/ Return

Spec == Init /\ [][Next]_vars /\ WF_vars(Next)

-----------------------------------------------------------------------------
(* The eigenvalues less than u, without a Sturm sequence.  T - u has as many *)
(* negative eigenvalues as the coefficients of its characteristic polynomial *)
(* have sign changes (Descartes' rule, exact as all its roots are real), and *)
(* these are sums of principal minors.  A minor of a tridiagonal matrix is a *)
(* sum over the ways to cover its rows by single rows and pairs of           *)
(* neighbours.                                                               *)

Pairings(k) == {M \in SUBSET (0 .. k - 2) : \A j \in M : j + 1 \notin M}
Single(k, M) == {j \in 0 .. k - 1 : j \notin M /\ j - 1 \notin M}

OffTerms == [j \in DOMAIN offd |-> -offd[j] * offd[j]]
DiagTerms(v) == [j \in DOMAIN diag |-> diag[j] - v]

Product(f, S) == FoldFunctionOnSet(LAMBDA x, y : x * y, 1, f, S)

Term(M, U, v) == Product(OffTerms, M) * Product(DiagTerms(v), U)

\* The sum of the minors of order j.
MinorSum(j) ==
  LET covers == {c \in Pairings(n) \X SUBSET (0 .. n - 1) :
                   /\ c[2] \subseteq Single(n, c[1])
                   /\ 2 * Cardinality(c[1]) + Cardinality(c[2]) = j}
  IN  SumFunctionOnSet([c \in covers |-> Term(c[1], c[2], u)], covers)

\* The leading minor of T - v of order k: all of the first k rows are covered.
Det(k, v) ==
  SumFunctionOnSet([M \in Pairings(k) |-> Term(M, Single(k, M), v)], Pairings(k))

\* The sign changes among the leading minors of orders 0 to k.
SignChanges(k, v) == Cardinality({j \in 1 .. k : SignChange(Det(j, v), Det(j - 1, v))})

EigenvaluesBelow ==
  LET e == [j \in 0 .. n |-> MinorSum(j)]
  IN  Cardinality({c \in (0 .. n) \X (0 .. n) :
        /\ c[1] < c[2]
        /\ e[c[1]] * e[c[2]] < 0
        /\ \A j \in c[1] + 1 .. c[2] - 1 : e[j] = 0})

\* How often u is an eigenvalue: the order of the root 0.
EigenvaluesAt == n - Max({j \in 0 .. n : MinorSum(j) # 0})

-----------------------------------------------------------------------------
TypeOK ==
  /\ i \in 0 .. n
  /\ Pm1_0 \in Int /\ Pm1_1 \in Int
  /\ nan \in BOOLEAN
  /\ isneg \in 0 .. n
  /\ pc \in {"start", "loop", "returned"}

\* The matrix does not fall into blocks.
Unreduced == \A j \in DOMAIN offd : offd[j] # 0

\* Both of the values that the scale is taken from are zero only where the
\* matrix falls into blocks: nowhere else does the loop divide by zero, however
\* many terms of the sequence are zero.
NeverDividesByZero == Unreduced => ~nan

\* Until the NaN, the loop holds the last two leading minors of T - u: "the
\* classic recurrence" of the comment, which scaling must not disturb.
LeadingMinors ==
  pc # "start" /\ n > 0 /\ ~nan => Pm1_0 = Det(i, u) /\ Pm1_1 = Det(i - 1, u)

\* Bisection calls sturm at points that are no eigenvalues: there the result is
\* exact, also where the sequence goes through zero on the way.
ExactBetween ==
  pc = "returned" /\ EigenvaluesAt = 0 => isneg = EigenvaluesBelow

\* Bisection compares the results at several points of one matrix: the result
\* never falls as u grows, also from or to an eigenvalue of the matrix or of a
\* leading block, where a term is zero.
GrowsWithU ==
  pc = "returned" /\ Unreduced =>
    \A v \in Entries : /\ u < v => isneg <= SignChanges(n, v)
                       /\ v < u => SignChanges(n, v) <= isneg

\* "This routine returns the number of sign changes, which is the count of
\* eigenvalues strictly less than u."  (Above the routine.)
StrictlyLess == pc = "returned" => isneg = EigenvaluesBelow

\* What it returns instead at an eigenvalue, if the matrix does not fall into
\* blocks: the sequence ends with a zero, which counts as positive like its
\* first term, so that the sign changes are even in number.  Every second
\* eigenvalue is counted as less than itself.
EvenAtEigenvalues ==
  pc = "returned" /\ Unreduced /\ EigenvaluesAt > 0 =>
    isneg = EigenvaluesBelow + (EigenvaluesBelow % 2)

\* How far the eigenvalues of Gershgorin's disc j may be from diag[j].
Radius(j) ==
  (IF j > 0 THEN Abs(offd[j-1]) ELSE 0) + (IF j < n - 1 THEN Abs(offd[j]) ELSE 0)

\* Bisection starts from an interval that has all of Gershgorin's discs.  No
\* eigenvalue is counted at its lower end and all are at its upper end, also
\* where the matrix falls into blocks and terms are zero.
AllBetweenEnds ==
  pc = "returned" =>
    /\ (\A j \in 0 .. n - 1 : u <= diag[j] - Radius(j)) => isneg = 0
    /\ (\A j \in 0 .. n - 1 : u > diag[j] + Radius(j)) => isneg = n
=============================================================================
