--------------------------- MODULE RoutinesGeneral ----------------------------
(***************************************************************************)
(* Plans of the wrappers of singular value decompositions, of Hessenberg   *)
(* reductions, of scaling and condition estimates of general matrices, and *)
(* of refinement with extra precision: one definition per file of src/src. *)
(***************************************************************************)
EXTENDS HostPlan

\* Refinement with error bounds: as many, with as many parameters, as asked.
Rfsx(d, names, work) ==
  LET counts == {"n_err_bnds", "nparams"}
  IN  EitherSign(Plain(d, names \cup counts, work, [ipiv |-> In(d.n)]),
                 counts)

\* IQ is not written: "disabled for now, due to complicated dimension".
bdsdc(d) == Plain(d, {"n", "ldu", "ldvt"}, 8*d.n, <<>>)

bdsqr(d) ==
  Plain(d, {"n", "ncvt", "nru", "ncc", "ldvt", "ldu", "ldc"}, 4*d.n, <<>>)

gbbrd(d) ==
  EitherSign(Plain(d, {"m", "n", "ncc", "kl", "ku", "ldab", "ldq", "ldpt",
                       "ldc"}, Most(d.m, d.n), <<>>), {"ldq", "ldpt", "ldc"})

gbequ(d) == Plain(d, {"m", "n", "kl", "ku", "ldab"}, 0, <<>>)
gbequb(d) == Plain(d, {"m", "n", "kl", "ku", "ldab"}, 0, <<>>)

gbrfsx(d) ==
  Rfsx(d, {"n", "kl", "ku", "nrhs", "ldab", "ldafb", "ldb", "ldx"}, d.n)

gebak(d) == Plain(d, {"n", "ilo", "ihi", "m", "ldv"}, 0, <<>>)
gebrd(d) == Queried(d, {"m", "n", "lda"}, 0, <<>>)
gecon(d) == Plain(d, {"n", "lda"}, d.n, <<>>)
geequ(d) == Plain(d, {"m", "n", "lda"}, 0, <<>>)
geequb(d) == Plain(d, {"m", "n", "lda"}, 0, <<>>)
gehrd(d) == Queried(d, {"n", "ilo", "ihi", "lda"}, 0, <<>>)

gerfsx(d) == Rfsx(d, {"n", "nrhs", "lda", "ldaf", "ldb", "ldx"}, d.n)

gesdd(d) ==
  Queried(d, {"m", "n", "lda", "ldu", "ldvt"}, 8*Least(d.m, d.n), <<>>)

gesvd(d) ==
  Queried(d, {"m", "n", "lda", "ldu", "ldvt"}, 5*Least(d.m, d.n), <<>>)

ggbak(d) == Plain(d, {"n", "ilo", "ihi", "m", "ldv"}, 0, <<>>)
gghrd(d) == Plain(d, {"n", "ilo", "ihi", "lda", "ldb", "ldq", "ldz"}, 0, <<>>)

herfsx(d) == Rfsx(d, {"n", "nrhs", "lda", "ldaf", "ldb", "ldx"}, 2*d.n)

symv(d) ==
  Unchecked(RejectedIf(
    d.n < 0 \/ d.lda < d.n \/ d.incx = 0 \/ d.incy = 0,
    Plain(d, {"n", "lda", "incx", "incy"}, 0, <<>>)))

syr(d) ==
  Unchecked(RejectedIf(
    d.n < 0 \/ d.lda < d.n \/ d.incx = 0,
    Plain(d, {"n", "lda", "incx"}, 0, <<>>)))

syrfsx(d) == Rfsx(d, {"n", "nrhs", "lda", "ldaf", "ldb", "ldx"}, d.n)

\* The complex overloads; the real ones have work for m + n + 6.
tgsyl(d) ==
  Queried(d, {"ijob", "m", "n", "lda", "ldb", "ldc", "ldd", "lde", "ldf"},
          d.m + d.n + 2, <<>>)
===============================================================================
