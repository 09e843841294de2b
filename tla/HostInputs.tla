----------------------------- MODULE HostInputs -----------------------------
(***************************************************************************)
(* The arguments that TLC tries on the plans of HostCall: small matrices   *)
(* of every shape, and one argument at a time negative, too large for 32   *)
(* bits, or the most negative integer there is.                            *)
(***************************************************************************)
EXTENDS HostCall, HostPlan, TLC

MostNegative == -128

\* Sizes are 1 and leading dimensions 3 unless a shape says otherwise.
Sizes ==
  {"m", "n", "p", "q", "k", "l", "nrhs", "kl", "ku", "kd", "ka", "kb", "nb",
   "mb", "i", "il", "iu", "ilo", "ihi", "mm", "nzc", "k1", "k2", "i1", "i2", "incx",
   "incy", "incv", "ncc", "nru", "ncvt", "ijob", "itype", "idist", "tsize",
   "lhous2", "n_err_bnds", "nparams"}
Leading ==
  {"lda", "ldb", "ldc", "ldd", "lde", "ldf", "ldx", "ldz", "ldq", "ldab",
   "ldaf", "ldafb", "ldbb", "ldsa", "ldt", "ldpt", "ldh", "ldu", "ldv", "ldvl",
   "ldvr", "ldvs", "ldvsl", "ldvsr", "ldvt", "ldu1", "ldu2", "ldv1t", "ldv2t",
   "ldx11", "ldx21"}
Usual == [x \in Sizes |-> 1] @@ [x \in Leading |-> 3]

\* m by n matrices with every choice of the other arguments.  No routine looks
\* at two of all, double, mkl, left and lower, which therefore share a flag.
Shape(m, n, vec, flag) ==
  ("m" :> m) @@ ("n" :> n) @@ ("vec" :> vec) @@ ("all" :> flag)
    @@ ("double" :> flag) @@ ("mkl" :> flag) @@ ("left" :> flag) @@ ("lower" :> flag)
    @@ Usual
Shapes == {Shape(m, n, vec, flag) :
             m \in 0..2, n \in 0..2, vec \in BOOLEAN, flag \in BOOLEAN}

\* One argument is at the limit, or wrong.  TooLarge becomes a plausible 2 in
\* 32 bits.
TooLarge == 2 * NarrowMax + 4
Middling == [Shape(2, 2, TRUE, FALSE) EXCEPT !["mkl"] = TRUE, !["lower"] = TRUE]
Probe(x, v) == [Middling EXCEPT ![x] = v]

\* The calls that make plan p of routine r: what LAPACK will find, and the
\* workspace it needs, either side of the largest exact integer.
CallsOf(r, p, builds, modes) ==
  [routine : {r}, build : builds, mode : modes,
   need : IF p.query = "none" THEN {0} ELSE {Exact, Exact + 1},
   found : p.found \cap Counts, refused : IF p.status THEN BOOLEAN ELSE {FALSE},
   plan : {p}]

\* The calls of the routines in names, planned by Plans, that Chosen chooses:
\* all shapes, and each of the routine's own arguments probed.  The other two
\* ways to build lapack_error_if show with a large argument.
Selected(Plans(_), names, Chosen(_, _)) ==
  LET Both == {"LP64", "ILP64"}
      Shaped(d) ==
        LET plans == Plans(d)
        IN  UNION {CallsOf(r, plans[r], Both, {"throw"}) :
                     r \in {s \in names : Chosen(s, d)}}
      Probed(x, v) ==
        LET plans == Plans(Probe(x, v))
            takers == {r \in names : /\ x \in DOMAIN plans[r].args
                                     /\ Chosen(r, Probe(x, v))}
        IN  (UNION {CallsOf(r, plans[r], Both, {"throw"}) : r \in takers})
              \cup IF v # TooLarge THEN {}
                   ELSE UNION {CallsOf(r, plans[r], {"LP64"}, {"abort", "ndebug"}) :
                                 r \in takers}
  IN  (UNION {Shaped(d) : d \in Shapes})
        \cup (UNION {Probed(x, v) : x \in Sizes \cup Leading,
                                   v \in {-1, NarrowMax, TooLarge, WideMin}})

-----------------------------------------------------------------------------
\* The drivers in test/ that call with a negative argument expect
\* lapack::Error, from either build: assert_throw( lapack::getrs( ... -1 ... ),
\* lapack::Error ).  So a local array must not be made of a negative length.
ErrorTested ==
  {"gesv", "getrf", "getri", "getrs", "posv", "potrf", "potri", "potrs"}

ErrorExit ==
  /\ call.routine \in ErrorTested
  /\ pc \in Ended
  /\ \A x \in Names : plan.args[x] \in -NarrowMax .. NarrowMax
  /\ \E x \in Names : plan.args[x] < 0
  => pc \in {"error", "memory"}
=============================================================================
