----------------------------- MODULE RoutinesLU -----------------------------
(***************************************************************************)
(* Plans of the wrappers of LU factorizations of general, band and         *)
(* tridiagonal matrices, of their solvers, and of pivoted Cholesky: one    *)
(* definition per file of src/src, named after it, for all its overloads.  *)
(***************************************************************************)
EXTENDS HostPlan

gbcon(d) == Plain(d, {"n", "kl", "ku", "ldab"}, 2*d.n, [ipiv |-> In(d.n)])

gbrfs(d) ==
  Plain(d, {"n", "kl", "ku", "nrhs", "ldab", "ldafb", "ldb", "ldx"}, 2*d.n,
        [ipiv |-> In(d.n)])

gbsv(d) ==
  Plain(d, {"n", "kl", "ku", "nrhs", "ldab", "ldb"}, 0,
        [ipiv |-> Out(d.n, d.n)])

gbsvx(d) ==
  Plain(d, {"n", "kl", "ku", "nrhs", "ldab", "ldafb", "ldb", "ldx"}, 2*d.n,
        [ipiv |-> InOut(d.n)])

gbtrf(d) ==
  LET mn == Least(d.m, d.n)
  IN  Plain(d, {"m", "n", "kl", "ku", "ldab"}, 0, [ipiv |-> Out(mn, mn)])

gbtrs(d) ==
  Plain(d, {"n", "kl", "ku", "nrhs", "ldab", "ldb"}, 0, [ipiv |-> In(d.n)])

gerfs(d) ==
  Plain(d, {"n", "nrhs", "lda", "ldaf", "ldb", "ldx"}, 2*d.n,
        [ipiv |-> In(d.n)])

\* The copy is never empty, so that n = -1 reaches LAPACK.
gesv(d) ==
  Plain(d, {"n", "nrhs", "lda", "ldb"}, 0, [ipiv |-> Out(d.n, Most(1, d.n))])

\* Mixed precision with iterative refinement.
gesvIter(d) ==
  Plain(d, {"n", "nrhs", "lda", "ldb", "ldx"},
        Least(d.n*d.nrhs, d.n*(d.n + d.nrhs)),
        [ipiv |-> Out(d.n, Most(1, d.n)), iter |-> Scalar])

\* Mutants: the pivots are not copied back; only part of them is.
gesvxKeepingPivots(d) ==
  Plain(d, {"n", "nrhs", "lda", "ldaf", "ldb", "ldx"}, 2*d.n,
        [ipiv |-> [InOut(d.n) EXCEPT !.out = Always(0)]])
gesvxShort(d) ==
  Plain(d, {"n", "nrhs", "lda", "ldaf", "ldb", "ldx"}, 2*d.n,
        [ipiv |-> [InOut(d.n) EXCEPT !.local = 1]])

gesvx(d) ==
  Plain(d, {"n", "nrhs", "lda", "ldaf", "ldb", "ldx"}, 2*d.n,
        [ipiv |-> InOut(d.n)])

getf2(d) ==
  LET mn == Least(d.m, d.n)
  IN  Plain(d, {"m", "n", "lda"}, 0, [ipiv |-> Out(mn, Most(1, mn))])

getrf(d) ==
  LET mn == Least(d.m, d.n)
  IN  Plain(d, {"m", "n", "lda"}, 0, [ipiv |-> Out(mn, Most(1, mn))])

getrf2(d) ==
  LET mn == Least(d.m, d.n)
  IN  Plain(d, {"m", "n", "lda"}, 0, [ipiv |-> Out(mn, Most(1, mn))])

\* The std::complex<double> overload has no max( 1, ... ).
zgetrf2(d) ==
  LET mn == Least(d.m, d.n)
  IN  Plain(d, {"m", "n", "lda"}, 0, [ipiv |-> Out(mn, mn)])

getri(d) ==
  Queried(d, {"n", "lda"}, 0, [ipiv |-> [In(d.n) EXCEPT !.local = Most(1, d.n)]])

\* Mutants: a local copy of n cells, of which n = -1 are too few; and one that
\* reads a cell that an empty ipiv does not have.
getrsOfLengthN(d) ==
  Plain(d, {"n", "nrhs", "lda", "ldb"}, 0, [ipiv |-> In(d.n)])
getrsReadingOne(d) ==
  Plain(d, {"n", "nrhs", "lda", "ldb"}, 0, [ipiv |-> [In(d.n) EXCEPT
          !.local = Most(1, d.n), !.in = Most(1, d.n)]])

getrs(d) ==
  Plain(d, {"n", "nrhs", "lda", "ldb"}, 0,
        [ipiv |-> [In(d.n) EXCEPT !.local = Most(1, d.n)]])

gtcon(d) == Plain(d, {"n"}, 2*d.n, [ipiv |-> In(d.n)])

gtrfs(d) ==
  Plain(d, {"n", "nrhs", "ldb", "ldx"}, 2*d.n, [ipiv |-> In(d.n)])

gtsvx(d) ==
  Plain(d, {"n", "nrhs", "ldb", "ldx"}, 2*d.n, [ipiv |-> InOut(d.n)])

gttrf(d) == Plain(d, {"n"}, 0, [ipiv |-> Out(d.n, d.n)])

gttrs(d) == Plain(d, {"n", "nrhs", "ldb"}, 0, [ipiv |-> In(d.n)])

\* k1+(k2-k1)*abs(incx).  With a negative incx they are applied in reverse order.
Interchanges(d) ==
  d.k1 + (d.k2 - d.k1) * (IF d.incx < 0 THEN -d.incx ELSE d.incx)
laswp(d) ==
  EitherSign(Unchecked(Plain(d, {"n", "lda", "k1", "k2", "incx"}, 0,
                             [ipiv |-> In(Interchanges(d))])), {"incx"})

\* Mutant: *rank = rank_ is missing.
pstrfKeepingRank(d) ==
  Plain(d, {"n", "lda"}, 2*d.n,
        [piv |-> Out(d.n, d.n), rank |-> [Scalar EXCEPT !.out = Always(0)]])

pstrf(d) ==
  Plain(d, {"n", "lda"}, 2*d.n, [piv |-> Out(d.n, d.n), rank |-> Scalar])
=============================================================================
