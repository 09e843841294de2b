------------------------------ MODULE HostCall ------------------------------
(***************************************************************************)
(* One call of a host wrapper of src/src, e.g. lapack::gelsy: the steps    *)
(* every wrapper goes through, in their order, for a plan that says what   *)
(* is particular to the routine (its integer arguments, its int64_t        *)
(* arrays, its workspace query).  The routine modules hold the plans.      *)
(*                                                                         *)
(* In the LP64 build lapack_int has 32 bits: arguments are range-checked   *)
(* and narrowed, integer arrays go through local copies.  In the ILP64     *)
(* build LAPACK gets the caller's integers and arrays as they are.         *)
(*                                                                         *)
(* LAPACK itself is not in this repository: what it may answer (info, the  *)
(* workspace it wants, the cells it writes) is chosen from everything its  *)
(* interface allows.                                                       *)
(***************************************************************************)
EXTENDS Integers

CONSTANTS
  Calls,      \* the calls to consider:
              \* [routine, build, mode, need, found, refused, plan]
  NarrowMax,  \* numeric_limits<lapack_int>::max() of the LP64 build, scaled
  WideMin,    \* numeric_limits<int64_t>::min(), scaled
  Span,       \* cells of each integer array that are looked at
  Longest,    \* LAPACK may ask for at most this much workspace
  Exact,      \* integers up to here are exact in the working precision
  Statuses    \* info of calls that LAPACK accepts: 0, or positive

ASSUME NarrowMaxAssumption == NarrowMax \in Nat
ASSUME WideMinAssumption == WideMin \in Int /\ WideMin < -NarrowMax
ASSUME SpanAssumption == Span \in Nat
ASSUME WorkAssumption == Longest \in Nat /\ Exact \in Nat
ASSUME StatusesAssumption == Statuses \subseteq Nat /\ 0 \in Statuses
ASSUME CallsAssumption ==
  \A c \in Calls :
    /\ c.build \in {"LP64", "ILP64"}
    /\ c.mode \in {"throw", "abort", "ndebug"}
    /\ c.need \in Nat
    /\ c.refused \in BOOLEAN
    /\ c.found \in c.plan.found
    /\ c.plan.query \in {"none", "one", "two", "plus"}
    /\ c.plan.checked \subseteq DOMAIN c.plan.args
    /\ c.plan.derived \cap c.plan.checked = {}
    /\ c.plan.work \in Int
    /\ c.plan.narrowed \in BOOLEAN
    /\ \A x \in DOMAIN c.plan.args : c.plan.args[x] \in Int
    /\ \A a \in DOMAIN c.plan.ints :
         LET array == c.plan.ints[a]
         IN  {array.in, array.local, array.doc[c.found], array.fill[c.found],
              array.out[c.found]} \subseteq Int

VARIABLES
  call,   \* the call being made; need: the shortest workspace that LAPACK
          \* accepts for it, found: the count that LAPACK will report,
          \* refused: LAPACK finds fault with some argument
  pc,     \* next step of the wrapper, or how it ended
  passed, \* the integers LAPACK is given: m_, n_, lda_, ...
  local,  \* local twins of the caller's arrays, cell by cell
  user,   \* the caller's arrays and scalar outputs, cell by cell
  lwork,  \* lwork_, the workspace length the wrapper allocates and passes
  info    \* info_ of the last LAPACK call

vars == <<call, pc, passed, local, user, lwork, info>>

plan == call.plan
Arrays == DOMAIN plan.ints
Cells == 0 .. Span - 1
Names == DOMAIN plan.args

\* Who wrote a cell last.  "raw" is memory that nobody computed: the local
\* vectors use NoConstructAllocator.  "none" lies past the end of a local
\* vector, "overrun" marks such a cell that LAPACK wrote all the same, and
\* "rounded" is a result that went through a narrower floating-point type.
Tags == {"caller", "lapack", "raw", "none", "overrun", "rounded"}

\* How a call throws: lapack::Error from the checks at its top, std::length_error
\* or std::bad_alloc from a vector, lapack::Error on info < 0.
Thrown == {"overflow", "length", "memory", "error"}

\* "aborted": a check ended the program.  "astray": LAPACK accepted an integer
\* that lost its upper bits, or a workspace that did, and solves, or overruns,
\* some other problem.
Ended == Thrown \cup {"done", "aborted", "astray"}
Steps ==
  {"check", "convert", "query", "allocate", "compute", "copyout"} \cup Ended

\* LAPACK_ILP64: lapack_int is int64_t.
Wide == call.build = "ILP64"

\* LAPACK_ERROR_NDEBUG, or LAPACK_ERROR_ASSERT and NDEBUG: no lapack_error_if.
Unguarded == call.mode = "ndebug"

\* What becomes of a call whose arguments a lapack_error_if finds at fault.
Faulted == IF call.mode = "abort" THEN "aborted" ELSE "overflow"

\* (lapack_int) x keeps the low bits.
Narrow(x) ==
  IF Wide THEN x
  ELSE ((x + NarrowMax + 1) % (2 * NarrowMax + 2)) - (NarrowMax + 1)

\* Some integer does not fit lapack_int.
Truncated == \E x \in Names : Narrow(plan.args[x]) # plan.args[x]

\* The length of the wrapper's workspace, which may go through lapack_int.
WorkLength == IF plan.narrowed THEN Narrow(plan.work) ELSE plan.work

\* What LAPACK is given is not what the caller passed, or the workspace is not
\* what the wrapper meant to provide: routines without an lwork use it blindly.
Strayed == Truncated \/ WorkLength # plan.work

\* What std::abs may give: undefined for the most negative value, where the
\* compiler may leave it negative or compare as if it had become positive.
AbsValues(x) ==
  IF x = WideMin THEN {x, -x} ELSE IF x < 0 THEN {-x} ELSE {x}

\* LAPACK works on the caller's own array.
Direct(a) == Wide /\ ~plan.ints[a].always

-----------------------------------------------------------------------------
(* What LAPACK does (external).                                            *)

\* The argument checks at the top of every LAPACK driver refuse any negative
\* integer, but for a few whose sign has a meaning.  Routines without an info
\* argument (laswp, larnv, lapmt) have none.
Refused ==
  plan.status /\ (call.refused \/ \E x \in Names \ plan.signed : passed[x] < 0)

\* LAPACK rejects a workspace that is too short like any bad argument.
TooShort == plan.query # "none" /\ lwork < call.need

\* What is left of a workspace length once it went through a real number of
\* the working precision: exact, or one of its two neighbours.
Stored(x) ==
  IF x <= Exact THEN {x} ELSE {2 * (x \div 2), 2 * ((x + 1) \div 2)}

\* The cells LAPACK assigns when it accepts the call and returns k.
Assigns(a, i, k) ==
  /\ i < plan.ints[a].fill[call.found]
  /\ plan.ints[a].partial => i >= k

-----------------------------------------------------------------------------
Init ==
  /\ call \in Calls
  /\ pc = "check"
  /\ passed = [x \in Names |-> 0]
  /\ local = [a \in Arrays |-> [i \in Cells |-> "none"]]
  /\ user = [a \in Arrays |-> [i \in Cells |-> "caller"]]
  /\ lwork = 0
  /\ info = 0

\* Mutant: the wrapper forgets to check one of its integers.
CheckOverflowButOne ==
  /\ pc = "check"
  /\ \E forgotten \in plan.checked :
       \/ /\ ~Unguarded
          /\ \/ plan.invalid
             \/ /\ ~Wide
                /\ \E x \in plan.checked \ {forgotten} :
                     \E y \in AbsValues(plan.args[x]) : y > NarrowMax
          /\ pc' = Faulted
       \/ /\ \/ Unguarded
             \/ /\ ~plan.invalid
                /\ \/ Wide
                   \/ \A x \in plan.checked \ {forgotten} :
                        \E y \in AbsValues(plan.args[x]) : y <= NarrowMax
          /\ pc' = "convert"
  /\ UNCHANGED <<call, passed, local, user, lwork, info>>

\* Mutant: the largest integer that fits is turned away.
CheckOverflowOrEqual ==
  /\ pc = "check"
  /\ \/ /\ ~Unguarded
        /\ \/ plan.invalid
           \/ /\ ~Wide
              /\ \E x \in plan.checked :
                   \E y \in AbsValues(plan.args[x]) : y >= NarrowMax
        /\ pc' = Faulted
     \/ /\ \/ Unguarded
           \/ /\ ~plan.invalid
              /\ \/ Wide
                 \/ \A x \in plan.checked :
                      \E y \in AbsValues(plan.args[x]) : y < NarrowMax
        /\ pc' = "convert"
  /\ UNCHANGED <<call, passed, local, user, lwork, info>>

\* lapack_error_if( std::abs(m) > std::numeric_limits<lapack_int>::max() ), ...
\* and, in a few wrappers and every build, conditions such as lda < m.
CheckOverflow ==
  /\ pc = "check"
  /\ \/ /\ ~Unguarded
        /\ \/ plan.invalid
           \/ /\ ~Wide
              /\ \E x \in plan.checked :
                   \E y \in AbsValues(plan.args[x]) : y > NarrowMax
        /\ pc' = Faulted
     \/ /\ \/ Unguarded
           \/ /\ ~plan.invalid
              /\ \/ Wide
                 \/ \A x \in plan.checked :
                      \E y \in AbsValues(plan.args[x]) : y <= NarrowMax
        /\ pc' = "convert"
  /\ UNCHANGED <<call, passed, local, user, lwork, info>>

\* A local twin of negative length: std::vector throws std::length_error.
BadLength == \E a \in Arrays : ~Direct(a) /\ plan.ints[a].local < 0

\* What a local twin holds: copied in from the caller, or not constructed.
CopiedIn(a, i) ==
  IF Direct(a) \/ i >= plan.ints[a].local THEN "none"
  ELSE IF i < plan.ints[a].in THEN user[a][i] ELSE "raw"

\* Mutant: one integer is passed on without its conversion.
ConvertButOne ==
  /\ pc = "convert"
  /\ passed' = [x \in Names \ {"n"} |-> Narrow(plan.args[x])]
  /\ pc' = IF plan.query = "none" THEN "allocate" ELSE "query"
  /\ local' = [a \in Arrays |-> [i \in Cells |-> CopiedIn(a, i)]]
  /\ UNCHANGED <<call, user, lwork, info>>

\* lapack_int m_ = (lapack_int) m, ... and the 32-bit copies.
Convert ==
  /\ pc = "convert"
  /\ passed' = [x \in Names |-> Narrow(plan.args[x])]
  /\ \/ /\ BadLength
        /\ pc' = "length"
        /\ UNCHANGED local
     \/ /\ \E a \in Arrays : ~Direct(a)
        /\ pc' = "memory"
        /\ UNCHANGED local
     \/ /\ ~BadLength
        /\ pc' = IF plan.query = "none" THEN "allocate" ELSE "query"
        /\ local' = [a \in Arrays |-> [i \in Cells |-> CopiedIn(a, i)]]
  /\ UNCHANGED <<call, user, lwork, info>>

\* What LAPACK may answer to a query, converted back to an integer.
Answers(least) == UNION {Stored(x) : x \in least .. Longest}

\* Mutant: of two answers the first counts.
LengthsOfFirst ==
  IF plan.query = "one" THEN Answers(call.need)
  ELSE IF plan.query = "plus" THEN {s + 1 : s \in Answers(call.need - 1)}
  ELSE Answers(0)

\* The lengths that a query leaves in lwork_: the converted answer ("one"),
\* the larger of two answers of which one alone may be too small ("two"), or
\* one more than an answer that may be one short ("plus").
Lengths ==
  IF plan.query = "one" THEN Answers(call.need)
  ELSE IF plan.query = "plus" THEN {s + 1 : s \in Answers(call.need - 1)}
  ELSE {IF s >= t THEN s ELSE t : s \in Answers(0), t \in Stored(call.need)}

\* Mutant: a query that failed is repeated.
QueryAgain ==
  /\ pc = "query"
  /\ \/ /\ Refused
        /\ info' = -1
        /\ UNCHANGED <<pc, lwork>>
     \/ /\ ~Refused /\ Truncated
        /\ pc' = "astray"
        /\ UNCHANGED <<lwork, info>>
     \/ /\ ~Refused /\ ~Truncated
        /\ lwork' \in Lengths
        /\ pc' = "allocate"
        /\ UNCHANGED info
  /\ UNCHANGED <<call, passed, local, user>>

\* LAPACK_sgelsy( ..., qry_work, &ineg_one, &info_ ), then lwork_.
Query ==
  /\ pc = "query"
  /\ \/ /\ Refused
        /\ info' = -1
        /\ pc' = "error"
        /\ UNCHANGED lwork
     \/ /\ ~Refused /\ Truncated
        /\ pc' = "astray"
        /\ UNCHANGED <<lwork, info>>
     \/ /\ ~Refused /\ ~Truncated
        /\ lwork' \in Lengths
        /\ pc' = "allocate"
        /\ UNCHANGED info
  /\ UNCHANGED <<call, passed, local, user>>

\* lapack::vector< float > work( lwork_ ), or work( (5*n) ), which
\* NoConstructAllocator may not have the memory for.
Allocate ==
  /\ pc = "allocate"
  /\ pc' \in IF WorkLength < 0 THEN {"length"} ELSE {"memory", "compute"}
  /\ UNCHANGED <<call, passed, local, user, lwork, info>>

\* LAPACK refuses the call and returns before it writes anything.  An eager
\* wrapper merges its untouched locals into the caller's array all the same.
ComputeRefused ==
  /\ pc = "compute"
  /\ Refused \/ TooShort
  /\ info' = -1
  /\ pc' = "error"
  /\ user' = [a \in Arrays |-> [i \in Cells |->
       IF plan.ints[a].eager /\ ~Direct(a) /\ i < plan.ints[a].out[call.found]
       THEN "raw" ELSE user[a][i]]]
  /\ UNCHANGED <<call, passed, local, lwork>>

\* LAPACK has no objection to what it is given, but that is not what was meant.
ComputeAstray ==
  /\ pc = "compute"
  /\ ~Refused /\ ~TooShort /\ Strayed
  /\ pc' = "astray"
  /\ UNCHANGED <<call, passed, local, user, lwork, info>>

\* LAPACK computes, into the local twins or into the caller's own arrays.
Compute ==
  /\ pc = "compute"
  /\ ~Refused /\ ~TooShort /\ ~Strayed
  /\ info' \in IF plan.status THEN Statuses ELSE {0}
  /\ pc' = "copyout"
  /\ local' = [a \in Arrays |-> [i \in Cells |->
       IF Direct(a) \/ ~Assigns(a, i, info') THEN local[a][i]
       ELSE IF i < plan.ints[a].local THEN "lapack" ELSE "overrun"]]
  /\ user' = [a \in Arrays |-> [i \in Cells |->
       IF Direct(a) /\ Assigns(a, i, info') THEN "lapack" ELSE user[a][i]]]
  /\ UNCHANGED <<call, passed, lwork>>

\* What std::copy, *rank = rank_ or the merge of WR and WI puts in a cell.
CopiedOut(a, i) ==
  IF local[a][i] = "none" THEN "raw"
  ELSE IF local[a][i] = "lapack" /\ plan.ints[a].lossy THEN "rounded"
  ELSE local[a][i]

\* std::copy( jpvt_.begin(), jpvt_.end(), jpvt ); *rank = rank_; return info_.
CopyOut ==
  /\ pc = "copyout"
  /\ pc' = "done"
  /\ user' = [a \in Arrays |-> [i \in Cells |->
       IF ~Direct(a) /\ i < plan.ints[a].out[call.found] THEN CopiedOut(a, i)
       ELSE user[a][i]]]
  /\ UNCHANGED <<call, passed, local, lwork, info>>

Next ==
  \/ CheckOverflow \/ Convert \/ Query \/ Allocate
  \/ ComputeRefused \/ ComputeAstray \/ Compute \/ CopyOut

\* A wrapper runs on the caller's thread and waits for nothing.
Spec == Init /\ [][Next]_vars /\ WF_vars(Next)

-----------------------------------------------------------------------------
(* What a plan must be like for its wrapper to do its job.                 *)

\* LAPACK will refuse the call for its integers.
Hopeless ==
  plan.status
    /\ (call.refused \/ \E x \in Names \ plan.signed : Narrow(plan.args[x]) < 0)

\* Nothing is wrong with the call: LAPACK has no objection to what the caller
\* passes, all of it fits lapack_int, and the workspace can be counted.
Legal ==
  /\ ~call.refused /\ ~plan.invalid
  /\ call.need <= Exact
  /\ \A x \in Names \ plan.derived :
       /\ Wide \/ plan.args[x] \in -NarrowMax .. NarrowMax
       /\ plan.args[x] >= 0 \/ x \in plan.signed

\* The integers that nobody checks fit all the same, those that the wrapper
\* works out and the length of its workspace among them, unless one that is
\* checked is too large.
Checked ==
  \/ /\ ~Wide
     /\ \E x \in plan.checked : plan.args[x] \notin -NarrowMax .. NarrowMax
  \/ /\ \A x \in Names \ plan.checked : Narrow(plan.args[x]) = plan.args[x]
     /\ WorkLength = plan.work

\* The lengths of the wrapper's own vectors are no reason to throw, and neither
\* is what it works out from the arguments.
Roomy ==
  Legal =>
    /\ plan.work >= 0
    /\ \A a \in Arrays : Direct(a) \/ plan.ints[a].local >= 0
    /\ \A x \in plan.derived : plan.args[x] >= 0

\* LAPACK refuses the call, or it never gets there.
Stops == Hopeless \/ Truncated

\* A cell of array a that the caller has, that LAPACK fills, and that is copied
\* back.
Given(a, i) == i < plan.ints[a].doc[call.found]
Filled(a, i) == i < plan.ints[a].fill[call.found]
Back(a, i) == i < plan.ints[a].out[call.found]

\* No more is copied in than the caller has.
ReadsWithin(a) == Direct(a) \/ \A i \in Cells : i < plan.ints[a].in => Given(a, i)

\* The local twin has room for all that LAPACK fills.
HasRoom(a) ==
  Stops \/ Direct(a) \/ \A i \in Cells : Filled(a, i) => i < plan.ints[a].local

\* Neither LAPACK nor the copy back goes past the end of the caller's array.
EndsWithin(a) ==
  Stops \/ \A i \in Cells :
             Filled(a, i) \/ (Back(a, i) /\ ~Direct(a)) => Given(a, i)

\* All results are copied back, as they are, and nothing but results and what
\* was copied in is.
GivesBack(a) ==
  Stops \/ Direct(a) \/ \A i \in Cells :
                          /\ Filled(a, i) => Back(a, i) /\ ~plan.ints[a].lossy
                          /\ Back(a, i) => i < plan.ints[a].local
                          /\ Back(a, i) => Filled(a, i) \/ i < plan.ints[a].in

Fits(a) == ReadsWithin(a) /\ HasRoom(a) /\ EndsWithin(a) /\ GivesBack(a)

\* An array that is merged before info is looked at needs a call that cannot
\* fail any more: its arguments passed a query, and its workspace is right.
Asked(a) == plan.ints[a].eager => plan.query # "none"
Settled(a) == Asked(a) /\ (plan.ints[a].eager => call.need <= Exact)

Sound == Checked /\ Roomy /\ \A a \in Arrays : Fits(a) /\ Settled(a)

-----------------------------------------------------------------------------
(* Properties.                                                             *)

TypeOK ==
  /\ pc \in Steps
  /\ passed \in [Names -> Int]
  /\ local \in [Arrays -> [Cells -> Tags]]
  /\ user \in [Arrays -> [Cells -> Tags]]
  /\ lwork \in Nat
  /\ info \in Statuses \cup {-1}

\* LAPACK is given the integers the caller passed, or the wrapper worked out from
\* them, as they are, and a workspace as long as the wrapper worked out: what the
\* overflow check at the top of every wrapper is for.  Nothing is promised of a
\* build without the check, nor of the one value whose magnitude int64_t cannot
\* hold.
NoTruncation ==
  /\ pc \in {"copyout", "done", "error", "astray"}
  /\ ~Unguarded
  /\ \A x \in Names : plan.args[x] # WideMin
  => /\ \A x \in Names : passed[x] = plan.args[x]
     /\ WorkLength = plan.work

\* The caller's array is read and written only within its documented length:
\* the local twin is no licence to copy more than the caller provides.
InBounds ==
  \A a \in Arrays, i \in Cells :
    i >= plan.ints[a].doc[call.found] =>
      /\ user[a][i] = "caller"
      /\ local[a][i] # "caller"

\* A call that returns has put in the caller's hands everything that LAPACK
\* computed, as LAPACK computed it, and nothing that it did not compute.
Delivered ==
  pc = "done" =>
    \A a \in Arrays, i \in Cells :
      /\ Assigns(a, i, info) => user[a][i] = "lapack"
      /\ info = 0 => user[a][i] \in {"caller", "lapack"}

\* A call that throws leaves the caller's integers as they were, wherever on
\* the way it throws.
ThrowsClean ==
  pc \in Thrown =>
    \A a \in Arrays, i \in Cells : user[a][i] = "caller"

\* The wrapper stands in the way of no call that LAPACK would accept: whatever
\* it checks, works out, allocates and asks LAPACK, only memory may be lacking.
TakesLegalCalls ==
  Legal => pc \notin {"overflow", "length", "error", "aborted", "astray"}

\* LAPACK never writes past the end of a local twin: the lengths the wrapper
\* works out for its copies suffice for what LAPACK puts there.
LocalsSuffice ==
  \A a \in Arrays, i \in Cells : local[a][i] # "overrun"

\* Once LAPACK answered the workspace query, it accepts the call that follows:
\* the length survives the trip through a real number, unless it is larger
\* than the precision can count.
QuerySuffices ==
  pc = "error" /\ lwork > 0 => call.need > Exact

\* Both builds keep the promise of Int64Call.  A program that was aborted, or
\* went astray, waits for its answer for ever.
Seen ==
  IF pc \in Thrown \cup {"done"} THEN user
  ELSE [a \in Arrays |-> [i \in Cells |-> "caller"]]

Promise == INSTANCE Int64Call WITH
  memory <- Seen,
  outcome <- IF pc \in Thrown THEN "thrown"
             ELSE IF pc = "done" THEN "returned" ELSE "pending"

KeepsPromise == Promise!Spec

\* Every call ends.
Terminates == <>(pc \in Ended)
=============================================================================
