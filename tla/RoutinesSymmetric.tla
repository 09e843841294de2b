-------------------------- MODULE RoutinesSymmetric ---------------------------
(***************************************************************************)
(* Plans of the wrappers of symmetric and Hermitian eigensolvers that find *)
(* all eigenvalues, of their reductions to tridiagonal and to standard     *)
(* form, and of rank-k updates: one definition per file of src/src.        *)
(***************************************************************************)
EXTENDS HostPlan

disna(d) == Plain(d, {"m", "n"}, 0, <<>>)
hbev(d) == Plain(d, {"n", "kd", "ldab", "ldz"}, d.n, <<>>)
hbev_2stage(d) == Queried(d, {"n", "kd", "ldab", "ldz"}, 0, <<>>)
hbevd(d) == Queried(d, {"n", "kd", "ldab", "ldz"}, 0, <<>>)
hbevd_2stage(d) == Queried(d, {"n", "kd", "ldab", "ldz"}, 0, <<>>)
hbgst(d) == Plain(d, {"n", "ka", "kb", "ldab", "ldbb", "ldx"}, d.n, <<>>)
hbgv(d) == Plain(d, {"n", "ka", "kb", "ldab", "ldbb", "ldz"}, d.n, <<>>)
hbgvd(d) == Queried(d, {"n", "ka", "kb", "ldab", "ldbb", "ldz"}, 0, <<>>)

hbtrd(d) ==
  EitherSign(Plain(d, {"n", "kd", "ldab", "ldq"}, d.n, <<>>), {"ldq"})

heequb(d) == Plain(d, {"n", "lda"}, 2*d.n, <<>>)
heev(d) == Queried(d, {"n", "lda"}, 0, <<>>)
heev_2stage(d) == Queried(d, {"n", "lda"}, 0, <<>>)
heevd(d) == Queried(d, {"n", "lda"}, 0, <<>>)
heevd_2stage(d) == Queried(d, {"n", "lda"}, 0, <<>>)
hegst(d) == Plain(d, {"itype", "n", "lda", "ldb"}, 0, <<>>)
hegv(d) == Queried(d, {"itype", "n", "lda", "ldb"}, 0, <<>>)
hegv_2stage(d) == Queried(d, {"itype", "n", "lda", "ldb"}, 0, <<>>)
hegvd(d) == Queried(d, {"itype", "n", "lda", "ldb"}, 0, <<>>)
heswapr(d) == Unchecked(Plain(d, {"n", "lda", "i1", "i2"}, 0, <<>>))
hetrd(d) == Queried(d, {"n", "lda"}, 0, <<>>)

hetrd_2stage(d) ==
  EitherSign(Queried(d, {"n", "lda", "lhous2"}, 0, <<>>), {"lhous2"})

hfrk(d) == Unchecked(Plain(d, {"n", "k", "lda"}, 0, <<>>))
hpev(d) == Plain(d, {"n", "ldz"}, 0, <<>>)

hpevd(d) == Queried(d, {"n", "ldz"}, 0, <<>>)
hpgst(d) == Plain(d, {"itype", "n"}, 0, <<>>)
hpgv(d) == Plain(d, {"itype", "n", "ldz"}, 0, <<>>)
hpgvd(d) == Queried(d, {"itype", "n", "ldz"}, 0, <<>>)
hptrd(d) == Plain(d, {"n"}, 0, <<>>)

\* lapack_int i_ = (lapack_int) i + 1;  // change to 1-based
\* LAPACK looks at neither integer before it works.
laed4(d) == Unchecked(Deriving(Plain(d, {"n", "i"}, 0, <<>>), "i_", d.i + 1))

pteqr(d) == Plain(d, {"n", "ldz"}, 4*d.n, <<>>)
sbev(d) == Plain(d, {"n", "kd", "ldab", "ldz"}, 0, <<>>)
sbev_2stage(d) == Queried(d, {"n", "kd", "ldab", "ldz"}, 0, <<>>)
sbevd(d) == Queried(d, {"n", "kd", "ldab", "ldz"}, 0, <<>>)
sbevd_2stage(d) == Queried(d, {"n", "kd", "ldab", "ldz"}, 0, <<>>)
sbgst(d) == Plain(d, {"n", "ka", "kb", "ldab", "ldbb", "ldx"}, 2*d.n, <<>>)
sbgv(d) == Plain(d, {"n", "ka", "kb", "ldab", "ldbb", "ldz"}, 3*d.n, <<>>)
sbgvd(d) == Queried(d, {"n", "ka", "kb", "ldab", "ldbb", "ldz"}, 0, <<>>)

sbtrd(d) ==
  EitherSign(Plain(d, {"n", "kd", "ldab", "ldq"}, d.n, <<>>), {"ldq"})

sfrk(d) == Unchecked(Plain(d, {"n", "k", "lda"}, 0, <<>>))
spev(d) == Plain(d, {"n", "ldz"}, 3*d.n, <<>>)
spevd(d) == Queried(d, {"n", "ldz"}, 0, <<>>)
spgst(d) == Plain(d, {"itype", "n"}, 0, <<>>)
spgv(d) == Plain(d, {"itype", "n", "ldz"}, 3*d.n, <<>>)
spgvd(d) == Queried(d, {"itype", "n", "ldz"}, 0, <<>>)
sptrd(d) == Plain(d, {"n"}, 0, <<>>)
stedc(d) == Queried(d, {"n", "ldz"}, 0, <<>>)
steqr(d) == Plain(d, {"n", "ldz"}, 0, <<>>)
sterf(d) == Plain(d, {"n"}, 0, <<>>)
stev(d) == Plain(d, {"n", "ldz"}, 0, <<>>)
stevd(d) == Queried(d, {"n", "ldz"}, 0, <<>>)
syequb(d) == Plain(d, {"n", "lda"}, 2*d.n, <<>>)
syev(d) == Queried(d, {"n", "lda"}, 0, <<>>)
syev_2stage(d) == Queried(d, {"n", "lda"}, 0, <<>>)
syevd(d) == Queried(d, {"n", "lda"}, 0, <<>>)
syevd_2stage(d) == Queried(d, {"n", "lda"}, 0, <<>>)
sygst(d) == Plain(d, {"itype", "n", "lda", "ldb"}, 0, <<>>)
sygv(d) == Queried(d, {"itype", "n", "lda", "ldb"}, 0, <<>>)
sygv_2stage(d) == Queried(d, {"itype", "n", "lda", "ldb"}, 0, <<>>)
sygvd(d) == Queried(d, {"itype", "n", "lda", "ldb"}, 0, <<>>)
syswapr(d) == Unchecked(Plain(d, {"n", "lda", "i1", "i2"}, 0, <<>>))
sytrd(d) == Queried(d, {"n", "lda"}, 0, <<>>)

sytrd_2stage(d) ==
  EitherSign(Queried(d, {"n", "lda", "lhous2"}, 0, <<>>), {"lhous2"})
===============================================================================
