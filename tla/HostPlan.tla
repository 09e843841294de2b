------------------------------ MODULE HostPlan ------------------------------
(***************************************************************************)
(* The vocabulary in which the routine modules say what is particular to a *)
(* wrapper: which integers it checks and narrows, how long its int64_t     *)
(* arrays are in the documentation, in the local copy, in LAPACK and in    *)
(* the copy back, and how it gets its workspace.                           *)
(*                                                                         *)
(* d is the list of actual arguments by name.  d.n and the like are        *)
(* integers, d.all says whether range = All, d.vec whether jobz = Vec.     *)
(***************************************************************************)
EXTENDS Integers

CONSTANT MaxCount \* the most values LAPACK can find, for every shape tried

ASSUME MaxCountAssumption == MaxCount \in Nat

Counts == 0 .. MaxCount

Least(x, y) == IF x < y THEN x ELSE y
Most(x, y) == IF x > y THEN x ELSE y
NonNeg(x) == Most(0, x)

Always(v) == [f \in Counts |-> v]

-----------------------------------------------------------------------------
(* Integer arrays.  doc is the documented length and fill the cells LAPACK  *)
(* assigns, for each count f it may find; the wrapper allocates local cells, *)
(* copies in cells in and out cells back.  always: there is a local twin     *)
(* even where lapack_int is int64_t.  partial: LAPACK leaves the first info   *)
(* cells unassigned when it does not converge.  lossy: results pass through   *)
(* a narrower type.  eager: copied back before info is looked at.            *)

\* std::vector< lapack_int > ipiv_( &ipiv[0], &ipiv[(n)] ), never copied back.
In(n) ==
  [doc |-> Always(NonNeg(n)), local |-> n, in |-> n, fill |-> Always(0),
   out |-> Always(0), always |-> FALSE, partial |-> FALSE, lossy |-> FALSE,
   eager |-> FALSE]

\* The same, copied back whole.
InOut(n) == [In(n) EXCEPT !.fill = Always(NonNeg(n)), !.out = Always(n)]

\* lapack::vector< lapack_int > ipiv_( local ), copied back whole.
Out(doc, local) ==
  [In(local) EXCEPT !.doc = Always(NonNeg(doc)), !.in = 0,
                    !.fill = Always(NonNeg(doc)), !.out = Always(local)]

\* ifail_( (n) ): the first m_ cells are copied back, and only with vectors.
IfVec(vec, n) ==
  LET first == [f \in Counts |-> IF vec THEN f ELSE 0]
  IN  [Out(n, n) EXCEPT !.fill = first, !.out = first]

\* Mutant: one cell for each vector.
SupportOfN(vec, n) ==
  [Out(0, Most(1, n)) EXCEPT
     !.doc  = [f \in Counts |-> 2 * Most(1, f)],
     !.fill = [f \in Counts |-> IF vec THEN 2 * f ELSE 0]]

\* isuppz_( (2*max( 1, n )) ): two cells for each vector found.
Support(vec, n) ==
  [Out(0, 2 * Most(1, n)) EXCEPT
     !.doc  = [f \in Counts |-> 2 * Most(1, f)],
     !.fill = [f \in Counts |-> IF vec THEN 2 * f ELSE 0]]

\* lapack_int rank_ = (lapack_int) *rank before, *rank = rank_ after.
Scalar == [InOut(1) EXCEPT !.always = TRUE]

\* lapack_int nfound_;  // output before, *nfound = nfound_ after.
OutScalar == [Scalar EXCEPT !.in = 0]

\* std::vector< lapack_logical > select_( &select[0], &select[(n)] ).
Flags(n) == [In(n) EXCEPT !.always = TRUE]

\* WR, WI of max( 1, n ), merged into n complex values.
Split(n) ==
  [Out(n, Most(1, n)) EXCEPT !.out = Always(NonNeg(n)), !.always = TRUE,
                             !.partial = TRUE]

\* The same in an overload that merges through std::complex<float>.
SplitFloat(n) == [Split(n) EXCEPT !.lossy = TRUE]

-----------------------------------------------------------------------------
(* Plans.                                                                   *)

\* Integers names are checked for overflow and narrowed; no workspace or
\* workspace of the given signed length; info is checked after the call.
Plain(d, names, work, ints) ==
  [args |-> [x \in names |-> d[x]], checked |-> names, derived |-> {},
   status |-> TRUE, signed |-> {}, invalid |-> FALSE, query |-> "none", work |-> work,
   narrowed |-> FALSE, found |-> {0}, ints |-> ints]

\* The same with a workspace query before the call.
Queried(d, names, work, ints) ==
  [Plain(d, names, work, ints) EXCEPT !.query = "one"]

\* The wrapper works one more integer out and narrows it without a check:
\* lapack_int lwork_ = (lapack_int) max( 1, 3*n-2 ).
Deriving(p, name, value) ==
  [p EXCEPT
     !.args = [x \in DOMAIN @ \cup {name} |-> IF x = name THEN value ELSE @[x]],
     !.derived = @ \cup {name}]

\* The length of the workspace goes through lapack_int before it is allocated,
\* and LAPACK is not told: lapack_int lwork_ = n*nb, work( lwork_ ).
NarrowingWork(p) == [p EXCEPT !.narrowed = TRUE]

\* How many of n values LAPACK may find.
Finding(p, counts) == [p EXCEPT !.found = counts]

\* LAPACK may accept these arguments when they are negative.
EitherSign(p, names) == [p EXCEPT !.signed = names]

\* The wrapper itself rejects the call for its arguments.
RejectedIf(condition, p) == [p EXCEPT !.invalid = condition]

\* No info argument: LAPACK looks at nothing before it works.
Unchecked(p) == [p EXCEPT !.status = FALSE]
=============================================================================
