--------------------------- MODULE HostDocumented ---------------------------
(***************************************************************************)
(* The calls on which the host wrappers do what their documentation says.  *)
(* Each kind of call left out has a run that shows what happens on it, or  *)
(* is a call that the documentation gives no meaning.                      *)
(***************************************************************************)
EXTENDS HostInputs, HostRoutines

Choices == {"vec", "all", "double", "mkl", "left", "lower"}

\* What a program may pass: any integers and any choice of options, but that
\* LAPACK can count all values that range = All finds.
IsArguments(d) ==
  /\ DOMAIN d = Sizes \cup Leading \cup Choices
  /\ \A x \in Sizes \cup Leading : d[x] \in Int
  /\ \A x \in Choices : d[x] \in BOOLEAN
  /\ d.all => d.n <= MaxCount

\* A local ipiv of max( 1, min( m, n ) ) cells, copied back whole.
OfM == {"getf2", "getrf", "getrf2"}
NoPivots(r, d) ==
  /\ r \in OfM \cup {"gesv", "gesvIter"}
  /\ d.n = 0 \/ (r \in OfM /\ d.m = 0)

\* isuppz of 2*max( 1, n ) cells, copied back whole.
UnfilledSupport(r, d) ==
  /\ r \in {"heevr", "heevr_2stage", "syevr", "syevr_2stage"}
  /\ ~(d.all /\ d.vec /\ d.n > 0)

\* isuppz of which m cells are copied back, of the 2*m that LAPACK fills.
HalfSupport(r, d) ==
  r \in {"stegr", "stemr", "stevr"} /\ d.n > 0

\* Eigenvalues that are merged through std::complex<float>.
RoundedMerge(r, d) == r \in {"hseqr", "ggesx"} /\ d.double /\ d.n > 0

\* opgtr and upgtr have work( n-1 ) and throw std::length_error for n = 0.
EmptyReflectors(r, d) == r \in {"opgtr", "upgtr"} /\ d.n = 0

\* A length or index that is worked out from checked integers and narrowed:
\* n*nb, 3*n-2, i+1.
Deriver == {"gemqrt", "hetrs_aa", "sytrs_aa", "laed4"}
Fit(x) == x \in -NarrowMax .. NarrowMax
DerivedTooLarge(r, d) ==
  \/ r = "gemqrt" /\ Fit(d.m) /\ Fit(d.n) /\ Fit(d.nb) /\ ~Fit(Opposite(d)*d.nb)
  \/ r \in {"hetrs_aa", "sytrs_aa"} /\ Fit(d.n) /\ ~Fit(3*d.n - 2)
  \/ r = "laed4" /\ Fit(d.i) /\ ~Fit(d.i + 1)

\* laswp documents ipiv of length k1+(k2-k1)*abs(incx); there is no such array.
NoInterchanges(r, d) ==
  r = "laswp" /\ d.k1 >= 0 /\ d.k2 >= 0 /\ Interchanges(d) < 0

AsDocumented(r, d) ==
  /\ ~NoPivots(r, d)
  /\ ~UnfilledSupport(r, d)
  /\ ~HalfSupport(r, d)
  /\ ~RoundedMerge(r, d)
  /\ ~EmptyReflectors(r, d)
  /\ ~DerivedTooLarge(r, d)
  /\ ~NoInterchanges(r, d)

\* tgsen merges alpha before it looks at info, and so does not throw clean
\* when its query came back too short.
Countable(c) == c.routine = "tgsen" => c.need <= Exact
=============================================================================
