------------------------- MODULE RoutinesIndefinite -------------------------
(***************************************************************************)
(* Plans of the wrappers of Hermitian and symmetric indefinite             *)
(* factorizations, full and packed: Bunch-Kaufman, rook, Aasen.  One       *)
(* definition per file of src/src, for all its overloads.                  *)
(***************************************************************************)
EXTENDS HostPlan

\* The shapes these files share.  Factor and solve, factor, and invert want
\* their workspace from a query; the others have none or compute it.
Sv(d) == Queried(d, {"n", "nrhs", "lda", "ldb"}, 0, [ipiv |-> Out(d.n, d.n)])
Trf(d) == Queried(d, {"n", "lda"}, 0, [ipiv |-> Out(d.n, d.n)])
Tri(d) == Queried(d, {"n", "lda"}, 0, [ipiv |-> In(d.n)])
Trs(d, work) ==
  Plain(d, {"n", "nrhs", "lda", "ldb"}, work, [ipiv |-> In(d.n)])
Con(d) == Plain(d, {"n", "lda"}, 2*d.n, [ipiv |-> In(d.n)])
Rfs(d) ==
  Plain(d, {"n", "nrhs", "lda", "ldaf", "ldb", "ldx"}, d.n, [ipiv |-> In(d.n)])
Svx(d) ==
  Queried(d, {"n", "nrhs", "lda", "ldaf", "ldb", "ldx"}, d.n,
          [ipiv |-> InOut(d.n)])

\* Packed storage: no leading dimension of the matrix, no query.
PackedSv(d) == Plain(d, {"n", "nrhs", "ldb"}, 0, [ipiv |-> Out(d.n, d.n)])
PackedSvx(d) ==
  Plain(d, {"n", "nrhs", "ldb", "ldx"}, d.n, [ipiv |-> InOut(d.n)])
PackedRfs(d) ==
  Plain(d, {"n", "nrhs", "ldb", "ldx"}, d.n, [ipiv |-> In(d.n)])

TrsAasen(d) == Deriving(Trs(d, 0), "lwork", Most(1, 3*d.n - 2))

-----------------------------------------------------------------------------
hesv(d) == Sv(d)
hesv_aa(d) == Sv(d)
hesv_rk(d) == Sv(d)
hesv_rook(d) == Sv(d)
sysv(d) == Sv(d)
sysv_rk(d) == Sv(d)
sysv_rook(d) == Sv(d)

\* With MKL, sytrf_aa and sytrs_aa are asked instead of sysv_aa.
sysv_aa(d) == [Sv(d) EXCEPT !.query = IF d.mkl THEN "two" ELSE "one"]

hetrf(d) == Trf(d)
hetrf_aa(d) == Trf(d)
hetrf_rk(d) == Trf(d)
hetrf_rook(d) == Trf(d)
sytrf(d) == Trf(d)
sytrf_aa(d) == Trf(d)
sytrf_rk(d) == Trf(d)
sytrf_rook(d) == Trf(d)

hetri2(d) == Tri(d)
hetri_rk(d) == Tri(d)
sytri2(d) == Tri(d)
sytri_rk(d) == Tri(d)
hetri(d) == Plain(d, {"n", "lda"}, d.n, [ipiv |-> In(d.n)])
sytri(d) == Plain(d, {"n", "lda"}, d.n, [ipiv |-> In(d.n)])

hetrs(d) == Trs(d, 0)
hetrs2(d) == Trs(d, d.n)
hetrs_aa(d) == TrsAasen(d)
hetrs_rk(d) == Trs(d, 0)
hetrs_rook(d) == Trs(d, 0)
sytrs(d) == Trs(d, 0)
sytrs2(d) == Trs(d, d.n)
sytrs_aa(d) == TrsAasen(d)
sytrs_rk(d) == Trs(d, 0)
sytrs_rook(d) == Trs(d, 0)

hecon(d) == Con(d)
hecon_rk(d) == Con(d)
sycon(d) == Con(d)
sycon_rk(d) == Con(d)
herfs(d) == Rfs(d)
syrfs(d) == Rfs(d)
hesvx(d) == Svx(d)
sysvx(d) == Svx(d)

hpsv(d) == PackedSv(d)
spsv(d) == PackedSv(d)
hpsvx(d) == PackedSvx(d)
spsvx(d) == PackedSvx(d)
hprfs(d) == PackedRfs(d)
sprfs(d) == PackedRfs(d)
hptrf(d) == Plain(d, {"n"}, 0, [ipiv |-> Out(d.n, d.n)])
sptrf(d) == Plain(d, {"n"}, 0, [ipiv |-> Out(d.n, d.n)])
hptri(d) == Plain(d, {"n"}, d.n, [ipiv |-> In(d.n)])
sptri(d) == Plain(d, {"n"}, d.n, [ipiv |-> In(d.n)])
hptrs(d) == Plain(d, {"n", "nrhs", "ldb"}, 0, [ipiv |-> In(d.n)])
sptrs(d) == Plain(d, {"n", "nrhs", "ldb"}, 0, [ipiv |-> In(d.n)])
hpcon(d) == Plain(d, {"n"}, 2*d.n, [ipiv |-> In(d.n)])
spcon(d) == Plain(d, {"n"}, 2*d.n, [ipiv |-> In(d.n)])
=============================================================================
