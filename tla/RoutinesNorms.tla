---------------------------- MODULE RoutinesNorms -----------------------------
(***************************************************************************)
(* Plans of the wrappers of norms, copies and conversions of matrices: one *)
(* definition per file of src/src.                                         *)
(***************************************************************************)
EXTENDS HostPlan

\* LAPACK checks no argument, and reports overflow only.
AnySign(p) == EitherSign(p, DOMAIN p.args)

lacgv(d) == Unchecked(Plain(d, {"n", "incx"}, 0, <<>>))
lacp2(d) == Unchecked(Plain(d, {"m", "n", "lda", "ldb"}, 0, <<>>))
lacpy(d) == Unchecked(Plain(d, {"m", "n", "lda", "ldb"}, 0, <<>>))
lag2c(d) == AnySign(Plain(d, {"m", "n", "lda", "ldsa"}, 0, <<>>))
lag2d(d) == AnySign(Plain(d, {"m", "n", "ldsa", "lda"}, 0, <<>>))
lag2s(d) == AnySign(Plain(d, {"m", "n", "lda", "ldsa"}, 0, <<>>))
lag2z(d) == AnySign(Plain(d, {"m", "n", "ldsa", "lda"}, 0, <<>>))
langb(d) == Unchecked(Plain(d, {"n", "kl", "ku", "ldab"}, 0, <<>>))
lange(d) == Unchecked(Plain(d, {"m", "n", "lda"}, 0, <<>>))
langt(d) == Unchecked(Plain(d, {"n"}, 0, <<>>))
lanhb(d) == Unchecked(Plain(d, {"n", "kd", "ldab"}, 0, <<>>))
lanhe(d) == Unchecked(Plain(d, {"n", "lda"}, 0, <<>>))
lanhp(d) == Unchecked(Plain(d, {"n"}, 0, <<>>))
lanhs(d) == Unchecked(Plain(d, {"n", "lda"}, 0, <<>>))
lanht(d) == Unchecked(Plain(d, {"n"}, 0, <<>>))
lansb(d) == Unchecked(Plain(d, {"n", "kd", "ldab"}, 0, <<>>))
lansp(d) == Unchecked(Plain(d, {"n"}, 0, <<>>))
lanst(d) == Unchecked(Plain(d, {"n"}, 0, <<>>))
lansy(d) == Unchecked(Plain(d, {"n", "lda"}, 0, <<>>))
lantb(d) == Unchecked(Plain(d, {"n", "k", "ldab"}, 0, <<>>))
lantp(d) == Unchecked(Plain(d, {"n"}, 0, <<>>))

\* "Safeguard m, n": once lda was held against the caller's m, a lower trapezoid
\* is made no wider than it is tall, and any other no taller than it is wide.
\* What is left is checked for overflow and given to LAPACK.
lantr(d) ==
  LET least == Least(d.m, d.n)
      safe == IF d.lower THEN [d EXCEPT !.n = least] ELSE [d EXCEPT !.m = least]
  IN  Unchecked(RejectedIf(d.lda < d.m, Plain(safe, {"m", "n", "lda"}, 0, <<>>)))

\* These pass floating-point scalars only.
lapy2(d) == Unchecked(Plain(d, {}, 0, <<>>))
lapy3(d) == Unchecked(Plain(d, {}, 0, <<>>))
lartg(d) == Unchecked(Plain(d, {}, 0, <<>>))
lartgp(d) == Unchecked(Plain(d, {}, 0, <<>>))
lartgs(d) == Unchecked(Plain(d, {}, 0, <<>>))

lascl(d) ==
  EitherSign(Plain(d, {"kl", "ku", "m", "n", "lda"}, 0, <<>>), {"kl", "ku"})

laset(d) == Unchecked(Plain(d, {"m", "n", "lda"}, 0, <<>>))
lassq(d) == Unchecked(Plain(d, {"n", "incx"}, 0, <<>>))
lauum(d) == Plain(d, {"n", "lda"}, 0, <<>>)
===============================================================================
