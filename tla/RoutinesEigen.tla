---------------------------- MODULE RoutinesEigen ----------------------------
(***************************************************************************)
(* Plans of the eigenvalue wrappers that hand back integer arrays, counts  *)
(* or split-complex eigenvalues: selected eigenvalues of Hermitian and     *)
(* symmetric problems, tridiagonal solvers, Schur forms and their          *)
(* reordering.  One definition per file of src/src, for all its overloads; *)
(* where real and complex overloads differ, the real one, which does more. *)
(***************************************************************************)
EXTENDS HostPlan

\* range = All finds every eigenvalue, any other range some of them.
Hits(d) ==
  LET n == Least(NonNeg(d.n), MaxCount)
  IN  IF d.all THEN {n} ELSE 0 .. n

\* il and iu count for range = Index only.
IndexRange == {"il", "iu"}

-----------------------------------------------------------------------------
(* Expert drivers: count m or nfound, and ifail.                            *)

\* The count by its name, and the array of that name.
With(count, name, array) ==
  [a \in {count, name} |-> IF a = name THEN array ELSE Scalar]

\* Without and with a workspace query.
Vx(d, names, count) ==
  EitherSign(
    Finding(Plain(d, names, 5*d.n, With(count, "ifail", IfVec(d.vec, d.n))),
            Hits(d)),
    IndexRange)
QueriedVx(d, names, count) == [Vx(d, names, count) EXCEPT !.query = "one"]

\* Q is looked at with vectors only.
Band == {"n", "kd", "ldab", "ldq", "il", "iu", "ldz"}
UnreadQ(p) == EitherSign(p, IndexRange \cup {"ldq"})
hbevx(d) == UnreadQ(Vx(d, Band, "m"))
sbevx(d) == UnreadQ(Vx(d, Band, "m"))
hbevx_2stage(d) == UnreadQ(QueriedVx(d, Band, "m"))
sbevx_2stage(d) == UnreadQ(QueriedVx(d, Band, "m"))

BandPencil == {"n", "ka", "kb", "ldab", "ldbb", "ldq", "il", "iu", "ldz"}
hbgvx(d) == Vx(d, BandPencil, "m")
sbgvx(d) == Vx(d, BandPencil, "m")

Packed == {"n", "il", "iu", "ldz"}
hpevx(d) == Vx(d, Packed, "m")
spevx(d) == Vx(d, Packed, "m")
hpgvx(d) == Vx(d, Packed \cup {"itype"}, "m")
spgvx(d) == Vx(d, Packed \cup {"itype"}, "m")
stevx(d) == Vx(d, Packed, "m")

Full == {"n", "lda", "il", "iu", "ldz"}
heevx(d) == QueriedVx(d, Full, "nfound")
heevx_2stage(d) == QueriedVx(d, Full, "nfound")
syevx(d) == QueriedVx(d, Full, "nfound")
hegvx(d) == QueriedVx(d, Full \cup {"itype", "ldb"}, "m")
sygvx(d) == QueriedVx(d, Full \cup {"itype", "ldb"}, "m")

\* This one does not read *nfound.
syevx_2stage(d) ==
  [QueriedVx(d, Full, "nfound") EXCEPT !.ints["nfound"] = OutScalar]

-----------------------------------------------------------------------------
(* Relatively robust representations: count and isuppz.  LAPACK reports the *)
(* support of tridiagonal eigenvectors always, of others only for range =   *)
(* All (or Index that amounts to it).                                       *)

Vr(d, names, count, isuppz) ==
  EitherSign(
    Finding(Queried(d, names, 0, With(count, "isuppz", isuppz)),
            Hits(d)),
    IndexRange)

heevr(d) == Vr(d, Full, "nfound", Support(d.vec /\ d.all, d.n))
heevr_2stage(d) == Vr(d, Full, "nfound", Support(d.vec /\ d.all, d.n))

syevr(d) ==
  [Vr(d, Full, "nfound", Support(d.vec /\ d.all, d.n))
     EXCEPT !.ints["nfound"] = OutScalar]
syevr_2stage(d) ==
  [Vr(d, Full, "nfound", Support(d.vec /\ d.all, d.n))
     EXCEPT !.ints["nfound"] = OutScalar]

\* Here std::copy( &isuppz_[0], &isuppz_[m_], isuppz ) stops after m cells.
FirstM(filled, n) ==
  [Support(filled, n) EXCEPT !.out = [f \in Counts |-> f]]

stegr(d) == Vr(d, Packed, "m", FirstM(d.vec, d.n))
stevr(d) == Vr(d, Packed, "m", FirstM(d.vec /\ d.all, d.n))
stemr(d) ==
  [Vr(d, Packed \cup {"nzc"}, "m", FirstM(d.vec, d.n)) EXCEPT
     !.ints = [m |-> Scalar, isuppz |-> FirstM(d.vec, d.n), tryrac |-> Scalar],
     !.signed = @ \cup {"nzc"}]

stein(d) ==
  Plain(d, {"n", "m", "ldz"}, 5*d.n,
        [iblock |-> In(d.n), isplit |-> In(d.n), ifail |-> Out(d.m, d.m)])

-----------------------------------------------------------------------------
(* Schur forms and nonsymmetric eigenvalues.                                *)

W(d) == [W |-> Split(d.n)]
Alpha(d) == [alpha |-> Split(d.n)]
SdimW(d) == [sdim |-> Scalar, W |-> Split(d.n)]
SdimAlpha(d) == [sdim |-> Scalar, alpha |-> Split(d.n)]

gees(d) == Queried(d, {"n", "lda", "ldvs"}, d.n, SdimW(d))
geesx(d) == Queried(d, {"n", "lda", "ldvs"}, d.n, SdimW(d))

\* Mutant: W is merged before info is looked at.
geevEager(d) ==
  Queried(d, {"n", "lda", "ldvl", "ldvr"}, 0,
          [W |-> [Split(d.n) EXCEPT !.eager = TRUE]])

geev(d) == Queried(d, {"n", "lda", "ldvl", "ldvr"}, 0, W(d))

Pencil == {"n", "lda", "ldb", "ldvsl", "ldvsr"}
gges(d) == Queried(d, Pencil, d.n, SdimAlpha(d))
gges3(d) == Queried(d, Pencil, d.n, SdimAlpha(d))

\* The double overload merges through std::complex<float>.
ggesx(d) ==
  Queried(d, Pencil, d.n,
          [sdim |-> Scalar,
           alpha |-> IF d.double THEN SplitFloat(d.n) ELSE Split(d.n)])

ggev(d) == Queried(d, {"n", "lda", "ldb", "ldvl", "ldvr"}, 0, Alpha(d))
ggev3(d) == Queried(d, {"n", "lda", "ldb", "ldvl", "ldvr"}, 0, Alpha(d))
hgeqz(d) ==
  Queried(d, {"n", "ilo", "ihi", "ldh", "ldt", "ldq", "ldz"}, 0, Alpha(d))

\* The double overload merges through std::complex<float>.
hseqr(d) ==
  Queried(d, {"n", "ilo", "ihi", "ldh", "ldz"}, 0,
          [W |-> IF d.double THEN SplitFloat(d.n) ELSE Split(d.n)])

gebal(d) == Plain(d, {"n", "lda"}, 0, [ilo |-> Scalar, ihi |-> Scalar])
ggbal(d) ==
  Plain(d, {"n", "lda", "ldb"}, 0, [ilo |-> Scalar, ihi |-> Scalar])

\* The real overloads hand the updated select back.
trevc(d) ==
  Plain(d, {"n", "ldt", "ldvl", "ldvr", "mm"}, 3*d.n,
        [m |-> Scalar, select |-> [InOut(d.n) EXCEPT !.always = TRUE]])
trevc3(d) ==
  Queried(d, {"n", "ldt", "ldvl", "ldvr", "mm"}, 0,
          [m |-> Scalar, select |-> [InOut(d.n) EXCEPT !.always = TRUE]])

trexc(d) ==
  Plain(d, {"n", "ldt", "ldq"}, d.n, [ifst |-> Scalar, ilst |-> Scalar])
trsen(d) ==
  Queried(d, {"n", "ldt", "ldq"}, 0,
          [m |-> Scalar, select |-> Flags(d.n), W |-> Split(d.n)])
tgexc(d) ==
  Queried(d, {"n", "lda", "ldb", "ldq", "ldz"}, 0,
          [ifst |-> Scalar, ilst |-> Scalar])

\* The query is believed to be one short, and alpha is merged from vectors of
\* length n before info is looked at.
tgsen(d) ==
  [Queried(d, {"ijob", "n", "lda", "ldb", "ldq", "ldz"}, 0,
           [sdim |-> Scalar,
            alpha |-> [Split(d.n) EXCEPT !.local = d.n, !.eager = TRUE]])
     EXCEPT !.query = "plus"]

tgsja(d) ==
  Plain(d, {"m", "p", "n", "k", "l", "lda", "ldb", "ldu", "ldv", "ldq"},
        2*d.n, [ncycle |-> Scalar])
=============================================================================
