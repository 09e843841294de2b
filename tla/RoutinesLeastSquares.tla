------------------------ MODULE RoutinesLeastSquares ------------------------
(***************************************************************************)
(* Plans of the least squares, pivoted QR, generalized SVD and test matrix *)
(* wrappers that hand integers back, of the column permutations, and of    *)
(* getsls with its two queries.  One definition per file of src/src.       *)
(***************************************************************************)
EXTENDS HostPlan

Ls == {"m", "n", "nrhs", "lda", "ldb"}

gels(d) == Queried(d, Ls, 0, <<>>)
gelsd(d) == Queried(d, Ls, 0, [rank |-> Scalar])
gelss(d) == Queried(d, Ls, 5*Least(d.m, d.n), [rank |-> Scalar])
gelsy(d) == Queried(d, Ls, 2*d.n, [jpvt |-> InOut(d.n), rank |-> Scalar])

\* Asks for the best and for the shortest workspace: the best may be shorter.
getsls(d) == [Queried(d, Ls, 0, <<>>) EXCEPT !.query = "two"]

geqp3(d) == Queried(d, {"m", "n", "lda"}, 2*d.n, [jpvt |-> InOut(d.n)])

Kl == [k |-> Scalar, l |-> Scalar]
Gsvd == {"m", "n", "p", "lda", "ldb", "ldu", "ldv", "ldq"}
ggsvd3(d) == Queried(d, Gsvd, d.n, Kl)
ggsvp3(d) == Queried(d, Gsvd, d.n, Kl)

Nfound == [nfound |-> Scalar]
gesvdx(d) ==
  EitherSign(Queried(d, {"m", "n", "lda", "il", "iu", "ldu", "ldvt"},
                     12*Least(d.m, d.n), Nfound), {"il", "iu"})
bdsvdx(d) ==
  EitherSign(Plain(d, {"n", "il", "iu", "ldz"}, 12*d.n, Nfound), {"il", "iu"})

-----------------------------------------------------------------------------
(* Random matrices: a seed of four integers goes in and comes back.         *)

Iseed == [iseed |-> InOut(4)]

lagge(d) == Plain(d, {"m", "n", "kl", "ku", "lda"}, d.m + d.n, Iseed)

laghe(d) == Plain(d, {"n", "k", "lda"}, 2*d.n, Iseed)
lagsy(d) == Plain(d, {"n", "k", "lda"}, 2*d.n, Iseed)
larnv(d) == Unchecked(Plain(d, {"idist", "n"}, 0, Iseed))

\* LAPACK marks visited entries of K and restores them.
lapmr(d) == Unchecked(Plain(d, {"m", "n", "ldx"}, 0, [K |-> InOut(d.m)]))
lapmt(d) == Unchecked(Plain(d, {"m", "n", "ldx"}, 0, [K |-> InOut(d.n)]))
=============================================================================
