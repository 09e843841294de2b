-------------------------- MODULE RoutinesOrthogonal --------------------------
(***************************************************************************)
(* Plans of the wrappers of QR, LQ, QL and RQ factorizations, of the       *)
(* routines that form or apply their orthogonal factors, of Householder    *)
(* reflectors and of the CS decomposition: one definition per file of      *)
(* src/src.                                                                *)
(***************************************************************************)
EXTENDS HostPlan

\* The dimension of C along which a factor applied from side does not act.
Opposite(d) == IF d.left THEN d.n ELSE d.m

bbcsd(d) ==
  LET factors == {"ldu1", "ldu2", "ldv1t", "ldv2t"}
  IN  EitherSign(Queried(d, {"m", "p", "q"} \cup factors, 0, <<>>), factors)

gelq(d) ==
  EitherSign(Queried(d, {"m", "n", "lda", "tsize"}, 0, <<>>), {"tsize"})

gelq2(d) == Plain(d, {"m", "n", "lda"}, d.m, <<>>)
gelqf(d) == Queried(d, {"m", "n", "lda"}, 0, <<>>)
gemlq(d) == Queried(d, {"m", "n", "k", "lda", "tsize", "ldc"}, 0, <<>>)
gemqr(d) == Queried(d, {"m", "n", "k", "lda", "tsize", "ldc"}, 0, <<>>)

\* lapack_int lwork_ = real( left ? n*nb : m*nb ), which std::vector is told and
\* LAPACK is not: it uses that many elements as they come.
gemqrt(d) ==
  NarrowingWork(Plain(d, {"m", "n", "k", "nb", "ldv", "ldt", "ldc"},
                      Opposite(d)*d.nb, <<>>))

geql2(d) == Plain(d, {"m", "n", "lda"}, d.n, <<>>)
geqlf(d) == Queried(d, {"m", "n", "lda"}, 0, <<>>)

geqr(d) ==
  EitherSign(Queried(d, {"m", "n", "lda", "tsize"}, 0, <<>>), {"tsize"})

geqr2(d) == Plain(d, {"m", "n", "lda"}, d.n, <<>>)
geqrf(d) == Queried(d, {"m", "n", "lda"}, 0, <<>>)
geqrfp(d) == Queried(d, {"m", "n", "lda"}, 0, <<>>)
geqrt(d) == Plain(d, {"m", "n", "nb", "lda", "ldt"}, d.nb*d.n, <<>>)
geqrt2(d) == Plain(d, {"m", "n", "lda", "ldt"}, 0, <<>>)
geqrt3(d) == Plain(d, {"m", "n", "lda", "ldt"}, 0, <<>>)
gerq2(d) == Plain(d, {"m", "n", "lda"}, d.m, <<>>)
gerqf(d) == Queried(d, {"m", "n", "lda"}, 0, <<>>)
ggglm(d) == Queried(d, {"n", "m", "p", "lda", "ldb"}, 0, <<>>)
gglse(d) == Queried(d, {"m", "n", "p", "lda", "ldb"}, 0, <<>>)
ggqrf(d) == Queried(d, {"n", "m", "p", "lda", "ldb"}, 0, <<>>)
ggrqf(d) == Queried(d, {"m", "p", "n", "lda", "ldb"}, 0, <<>>)
larf(d) == Unchecked(Plain(d, {"m", "n", "incv", "ldc"}, Opposite(d), <<>>))

larfb(d) ==
  Unchecked(Deriving(Plain(d, {"m", "n", "k", "ldv", "ldt", "ldc"},
                           Opposite(d)*d.k, <<>>),
                     "ldwork", Opposite(d)))

larfg(d) == Unchecked(Plain(d, {"n", "incx"}, 0, <<>>))
larfgp(d) == Unchecked(Plain(d, {"n", "incx"}, 0, <<>>))
larft(d) == Unchecked(Plain(d, {"n", "k", "ldv", "ldt"}, 0, <<>>))
larfx(d) == Unchecked(Plain(d, {"m", "n", "ldc"}, Opposite(d), <<>>))
larfy(d) == Unchecked(Plain(d, {"n", "incv", "ldc"}, d.n, <<>>))
opgtr(d) == Plain(d, {"n", "ldq"}, d.n - 1, <<>>)
opmtr(d) == Plain(d, {"m", "n", "ldc"}, Opposite(d), <<>>)

orcsd2by1(d) ==
  LET factors == {"ldu1", "ldu2", "ldv1t"}
      r == Least(Least(d.p, d.m - d.p), Least(d.q, d.m - d.q))
  IN  EitherSign(Queried(d, {"m", "p", "q", "ldx11", "ldx21"} \cup factors,
                         d.m - r, <<>>), factors)

orgbr(d) == Queried(d, {"m", "n", "k", "lda"}, 0, <<>>)
orghr(d) == Queried(d, {"n", "ilo", "ihi", "lda"}, 0, <<>>)
orglq(d) == Queried(d, {"m", "n", "k", "lda"}, 0, <<>>)
orgql(d) == Queried(d, {"m", "n", "k", "lda"}, 0, <<>>)
orgqr(d) == Queried(d, {"m", "n", "k", "lda"}, 0, <<>>)
orgrq(d) == Queried(d, {"m", "n", "k", "lda"}, 0, <<>>)
orgtr(d) == Queried(d, {"n", "lda"}, 0, <<>>)

orhr_col(d) ==
  RejectedIf(d.m < d.n, Plain(d, {"m", "n", "nb", "lda", "ldt"}, 0, <<>>))

ormbr(d) == Queried(d, {"m", "n", "k", "lda", "ldc"}, 0, <<>>)
ormhr(d) == Queried(d, {"m", "n", "ilo", "ihi", "lda", "ldc"}, 0, <<>>)
ormlq(d) == Queried(d, {"m", "n", "k", "lda", "ldc"}, 0, <<>>)
ormql(d) == Queried(d, {"m", "n", "k", "lda", "ldc"}, 0, <<>>)
ormqr(d) == Queried(d, {"m", "n", "k", "lda", "ldc"}, 0, <<>>)
ormrq(d) == Queried(d, {"m", "n", "k", "lda", "ldc"}, 0, <<>>)
ormrz(d) == Queried(d, {"m", "n", "k", "l", "lda", "ldc"}, 0, <<>>)
ormtr(d) == Queried(d, {"m", "n", "lda", "ldc"}, 0, <<>>)

tplqt(d) ==
  Plain(d, {"m", "n", "l", "mb", "lda", "ldb", "ldt"}, d.mb*d.m, <<>>)

tplqt2(d) == Plain(d, {"m", "n", "l", "lda", "ldb", "ldt"}, 0, <<>>)

tpmlqt(d) ==
  Plain(d, {"m", "n", "k", "l", "mb", "ldv", "ldt", "lda", "ldb"},
        Opposite(d)*d.mb, <<>>)

tpmqrt(d) ==
  Plain(d, {"m", "n", "k", "l", "nb", "ldv", "ldt", "lda", "ldb"},
        Opposite(d)*d.nb, <<>>)

tpqrt(d) ==
  Plain(d, {"m", "n", "l", "nb", "lda", "ldb", "ldt"}, d.nb*d.n, <<>>)

tpqrt2(d) == Plain(d, {"m", "n", "l", "lda", "ldb", "ldt"}, 0, <<>>)

tprfb(d) ==
  Unchecked(Deriving(Plain(d, {"m", "n", "k", "l", "ldv", "ldt", "lda", "ldb"},
                           Opposite(d)*d.k, <<>>),
                     "ldwork", IF d.left THEN d.k ELSE d.m))

tzrzf(d) == Queried(d, {"m", "n", "lda"}, 0, <<>>)
ungbr(d) == Queried(d, {"m", "n", "k", "lda"}, 0, <<>>)
unghr(d) == Queried(d, {"n", "ilo", "ihi", "lda"}, 0, <<>>)
unglq(d) == Queried(d, {"m", "n", "k", "lda"}, 0, <<>>)
ungql(d) == Queried(d, {"m", "n", "k", "lda"}, 0, <<>>)
ungqr(d) == Queried(d, {"m", "n", "k", "lda"}, 0, <<>>)
ungrq(d) == Queried(d, {"m", "n", "k", "lda"}, 0, <<>>)
ungtr(d) == Queried(d, {"n", "lda"}, 0, <<>>)

unhr_col(d) ==
  RejectedIf(d.m < d.n, Plain(d, {"m", "n", "nb", "lda", "ldt"}, 0, <<>>))

unmbr(d) == Queried(d, {"m", "n", "k", "lda", "ldc"}, 0, <<>>)
unmhr(d) == Queried(d, {"m", "n", "ilo", "ihi", "lda", "ldc"}, 0, <<>>)
unmlq(d) == Queried(d, {"m", "n", "k", "lda", "ldc"}, 0, <<>>)
unmql(d) == Queried(d, {"m", "n", "k", "lda", "ldc"}, 0, <<>>)
unmqr(d) == Queried(d, {"m", "n", "k", "lda", "ldc"}, 0, <<>>)
unmrq(d) == Queried(d, {"m", "n", "k", "lda", "ldc"}, 0, <<>>)
unmrz(d) == Queried(d, {"m", "n", "k", "l", "lda", "ldc"}, 0, <<>>)
unmtr(d) == Queried(d, {"m", "n", "lda", "ldc"}, 0, <<>>)
upgtr(d) == Plain(d, {"n", "ldq"}, d.n - 1, <<>>)
upmtr(d) == Plain(d, {"m", "n", "ldc"}, Most(1, Opposite(d)), <<>>)
===============================================================================
