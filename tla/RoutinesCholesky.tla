--------------------------- MODULE RoutinesCholesky ---------------------------
(***************************************************************************)
(* Plans of the wrappers of Cholesky factorizations and their solvers, in  *)
(* every storage format, of triangular solvers and inverses, and of the    *)
(* conversions between formats: one definition per file of src/src.        *)
(***************************************************************************)
EXTENDS HostPlan

gtsv(d) == Plain(d, {"n", "nrhs", "ldb"}, 0, <<>>)
pbcon(d) == Plain(d, {"n", "kd", "ldab"}, d.n, <<>>)
pbequ(d) == Plain(d, {"n", "kd", "ldab"}, 0, <<>>)

pbrfs(d) ==
  Plain(d, {"n", "kd", "nrhs", "ldab", "ldafb", "ldb", "ldx"}, d.n, <<>>)

pbstf(d) == Plain(d, {"n", "kd", "ldab"}, 0, <<>>)
pbsv(d) == Plain(d, {"n", "kd", "nrhs", "ldab", "ldb"}, 0, <<>>)

pbsvx(d) ==
  Plain(d, {"n", "kd", "nrhs", "ldab", "ldafb", "ldb", "ldx"}, d.n, <<>>)

pbtrf(d) == Plain(d, {"n", "kd", "ldab"}, 0, <<>>)
pbtrs(d) == Plain(d, {"n", "kd", "nrhs", "ldab", "ldb"}, 0, <<>>)
pftrf(d) == Plain(d, {"n"}, 0, <<>>)
pftri(d) == Plain(d, {"n"}, 0, <<>>)
pftrs(d) == Plain(d, {"n", "nrhs", "ldb"}, 0, <<>>)
pocon(d) == Plain(d, {"n", "lda"}, d.n, <<>>)
poequ(d) == Plain(d, {"n", "lda"}, 0, <<>>)
poequb(d) == Plain(d, {"n", "lda"}, 0, <<>>)
porfs(d) == Plain(d, {"n", "nrhs", "lda", "ldaf", "ldb", "ldx"}, d.n, <<>>)

porfsx(d) ==
  EitherSign(Plain(d, {"n", "nrhs", "lda", "ldaf", "ldb", "ldx", "n_err_bnds",
                       "nparams"}, d.n, <<>>), {"n_err_bnds", "nparams"})

posv(d) == Plain(d, {"n", "nrhs", "lda", "ldb"}, 0, <<>>)

\* Mixed precision with iterative refinement.
posvIter(d) ==
  Plain(d, {"n", "nrhs", "lda", "ldb", "ldx"},
        Least(d.n*d.nrhs, d.n*(d.n + d.nrhs)), [iter |-> Scalar])

posvx(d) == Plain(d, {"n", "nrhs", "lda", "ldaf", "ldb", "ldx"}, d.n, <<>>)
potf2(d) == Plain(d, {"n", "lda"}, 0, <<>>)
potrf(d) == Plain(d, {"n", "lda"}, 0, <<>>)
potrf2(d) == Plain(d, {"n", "lda"}, 0, <<>>)
potri(d) == Plain(d, {"n", "lda"}, 0, <<>>)
potrs(d) == Plain(d, {"n", "nrhs", "lda", "ldb"}, 0, <<>>)

ppcon(d) == Plain(d, {"n"}, d.n, <<>>)
ppequ(d) == Plain(d, {"n"}, 0, <<>>)
pprfs(d) == Plain(d, {"n", "nrhs", "ldb", "ldx"}, d.n, <<>>)
ppsv(d) == Plain(d, {"n", "nrhs", "ldb"}, 0, <<>>)
ppsvx(d) == Plain(d, {"n", "nrhs", "ldb", "ldx"}, d.n, <<>>)
pptrf(d) == Plain(d, {"n"}, 0, <<>>)
pptri(d) == Plain(d, {"n"}, 0, <<>>)
pptrs(d) == Plain(d, {"n", "nrhs", "ldb"}, 0, <<>>)
ptcon(d) == Plain(d, {"n"}, d.n, <<>>)
ptrfs(d) == Plain(d, {"n", "nrhs", "ldb", "ldx"}, 2*d.n, <<>>)
ptsv(d) == Plain(d, {"n", "nrhs", "ldb"}, 0, <<>>)
ptsvx(d) == Plain(d, {"n", "nrhs", "ldb", "ldx"}, 2*d.n, <<>>)
pttrf(d) == Plain(d, {"n"}, 0, <<>>)
pttrs(d) == Plain(d, {"n", "nrhs", "ldb"}, 0, <<>>)
tbcon(d) == Plain(d, {"n", "kd", "ldab"}, d.n, <<>>)
tbrfs(d) == Plain(d, {"n", "kd", "nrhs", "ldab", "ldb", "ldx"}, d.n, <<>>)
tbtrs(d) == Plain(d, {"n", "kd", "nrhs", "ldab", "ldb"}, 0, <<>>)
tfsm(d) == Unchecked(Plain(d, {"m", "n", "ldb"}, 0, <<>>))
tftri(d) == Plain(d, {"n"}, 0, <<>>)
tfttp(d) == Plain(d, {"n"}, 0, <<>>)
tfttr(d) == Plain(d, {"n", "lda"}, 0, <<>>)
tpcon(d) == Plain(d, {"n"}, d.n, <<>>)
tprfs(d) == Plain(d, {"n", "nrhs", "ldb", "ldx"}, d.n, <<>>)
tptri(d) == Plain(d, {"n"}, 0, <<>>)
tptrs(d) == Plain(d, {"n", "nrhs", "ldb"}, 0, <<>>)
tpttf(d) == Plain(d, {"n"}, 0, <<>>)
tpttr(d) == Plain(d, {"n", "lda"}, 0, <<>>)
trcon(d) == Plain(d, {"n", "lda"}, d.n, <<>>)
trrfs(d) == Plain(d, {"n", "nrhs", "lda", "ldb", "ldx"}, d.n, <<>>)
trtri(d) == Plain(d, {"n", "lda"}, 0, <<>>)
trtrs(d) == Plain(d, {"n", "nrhs", "lda", "ldb"}, 0, <<>>)
trttf(d) == Plain(d, {"n", "lda"}, 0, <<>>)
trttp(d) == Plain(d, {"n", "lda"}, 0, <<>>)
===============================================================================
