# LAPACK++ in TLA+

LAPACK++ is a C++ interface to LAPACK: some 380 host wrappers (`src/*.cc`), one
per LAPACK routine, and a handful of wrappers around vendor GPU solvers
(`src/cuda`, `src/rocm`, `src/onemkl`, `src/stub`). Nearly all of the arithmetic
happens elsewhere. What the library itself does, and can get wrong, is the way
in and the way out: `int64_t` arguments and arrays are checked and narrowed to
the `lapack_int` of the LAPACK in use, workspaces are asked for and allocated,
results are copied back, errors become exceptions; on devices, handles,
workspaces and results are shared between calls that finish in their own time.
Options travel as letters, in both directions. These modules model that, check it with
TLC, and prove with TLAPS, for calls, queues and matrices of any number and size, every
safety property but two, which compare what `sturm` counts with eigenvalues.

Paths below are relative to the repository.

## Inventory

### Host wrappers: the call protocol

*State.* One call: the caller's integer arrays and scalar outputs, their 32-bit
local twins, `m_`, `n_`, ..., `lwork_`, `info_`. Nothing outlives a call (but `equed`,
below).

*Operations.* Every wrapper goes through the same steps, in this order, e.g.
`src/gelsy.cc`:

1. range-check each `int64_t` (`lapack_error_if( std::abs(m) > ...max() )`), which
   throws, aborts or does nothing, as the library was compiled (`util.hh`);
2. narrow each one, and a few that are worked out from them (`3*n-2`, `i+1`, the workspace length `n*nb`),
   and copy integer arrays into `lapack_int` vectors (only where `lapack_int` has 32
   bits, `#ifndef LAPACK_ILP64`);
3. for some, call LAPACK with `lwork = -1` and convert the answer, which comes
   in a `float` or `double`, to a length;
4. allocate the workspace, without initialising it (`NoConstructAllocator.hh`);
5. call LAPACK;
6. `if (info_ < 0) throw Error()`;
7. copy integer results back, merge real and imaginary parts, return `info_`.

*What is hard.* The order of the steps and the lengths. The local vectors are not
initialised, so a copy that is one element too long hands out memory that nobody
wrote; a copy that is too short loses results; a length computed from a negative
argument throws `std::length_error` instead of the `lapack::Error` that the tests
expect; a throw between copies must leave the caller's data alone; a query
answer that goes through a `float` may come back smaller; integers that each fit may
have a product that does not. Each of these depends on the routine, and the tests
mostly run square, non-empty matrices in one build.

*Correct means*: LAPACK sees the integers the caller passed; the caller's arrays
are read and written within their documented length; a call that returns has
delivered all integer results, unaltered, and nothing else; a call that throws
has changed nothing; a workspace that was asked for is accepted; nothing but a lack of
memory keeps a legal call from its result. All of it together:
the caller cannot tell the two builds apart, and cannot tell that there were
copies at all.

### Host wrappers: the routines

377 of them in nine families, each a module of *plans*: LU, symmetric indefinite, eigenvalues,
least squares (these pass integer arrays or counts), Cholesky and triangular,
orthogonal, symmetric eigensolvers, general, norms (these pass scalars only).
They interact with nothing but the protocol.

### Options and expert drivers

*State.* `include/lapack/util.hh` has 18 enumerations with `X2char` and `char2X`
(`blas::Op` comes from BLAS++); each wrapper turns its options into LAPACK's letters,
some through maps that depend on the routine (`job_comp2char` and others) or on the
type (`ConjTrans` becomes `Trans` for real matrices). The expert drivers `gesvx`, `gbsvx`, `posvx`,
`ppsvx` and `pbsvx` also hand a letter back, `equed`, which with A and its factors is the
caller's to keep from one call to the next.
*Hard.* Every table and map is written by hand, most by copying another. A wrong
letter is often another valid one, so that LAPACK computes something else without an error.
`equed` lives through calls that throw or ask for something else in between.
*Correct means*: `char2X` takes just what `X2char` writes; LAPACK gets the letter that
has the enumerator's meaning; who solves with earlier factors tells LAPACK how their
matrix was scaled.

### Device queue and wrappers

*State.* `lapack::Queue` (`include/lapack/device.hh`): a solver handle and, with
CUDA 11, a params object, both created on first use; from its base class the
device, the stream and a workspace that grows. The host thread has a current device.
*Operations.* Constructor, destructor, `solver()`, `solver_params()`;
`potrf`, `getrf`, `geqrf`, `heevd` and their `..._work_size_bytes`, per backend.
*Interactions.* All queues of a thread share its current device; all calls on a
queue share its handle and stream, and `potrf` its workspace; a kernel runs after
its wrapper returned and writes `dev_info`, which oneMKL's wrappers (and
rocSolver's `geqrf`) also write, by `device_memset` on the same stream.
*What is hard.* All of that happens at a distance, and depends on what other calls on
other queues did before. *Correct means*: kernels run on the device of their queue
with a handle made there; no workspace is taken away from a kernel that still needs it;
`dev_info` has the result in the end; illegal arguments throw, and what they throw is known; handles are destroyed
where they were made; every call comes back. Altogether: a queue is a queue, whose accepted
calls finish in their order, each leaving its own result, once.

### Sturm count

`src/sturm.cc`, the one routine the library computes itself: a loop over a scaled
three-term recurrence that counts sign changes. Hard: exact zeros, and `0 * inf`.
Correct means: the count is the number of eigenvalues less than `u`.

### The rest

| Component | Here |
|---|---|
| `NoConstructAllocator.hh` | its effect on a call (raw cells, failed allocation) is in `HostCall`; alignment is not |
| `cuda_common.cc`, `fortran.h`, `wrappers.hh`, `mangling.h`, `flops.hh`, `version.cc`, `lamch.cc` | not modelled: declarations, constants, formulas |
| `test/`, `docs/`, `examples/`, build and code generation | not modelled; what the test drivers assert of errors is used in `ErrorExit` and `IllegalAsTested` |

The hazards, each at its line and with the properties that cover it, are in
`PROJECT.json`.

## Modules

```
HostPlan            vocabulary: how one wrapper differs from another
  Routines*         one definition per file of src/: its plan
    HostRoutines    the plans by name
Int64Call           what a call promises (abstract, two actions)
HostCall            the seven steps, for any plan; implements Int64Call
  HostInputs        shapes and bad arguments to try
    HostDocumented  the calls on which the documentation is right (with HostRoutines)
      MC_Host
  HostCallProofs    theorems about HostCall, for any plan
    PlanProofs      all plans, for any arguments (with HostDocumented)
Letters             enumerations, their letters, the maps
  Options           a program that reads options and makes calls with them
    MC_Options
    OptionsProofs
InOrderQueue        what a device queue promises (abstract)
  InOrderProofs     what follows from that promise
DeviceQueue         queues, wrappers, streams; implements InOrderQueue
  MC_Device
  DeviceProofs      (with InOrderProofs)
Sturm
  MinorProofs       leading minors and their signs (with FoldProofs: sums and
    SturmProofs       products over finite sets)
```

### HostCall and the plans

`HostCall` has one action per step of the list above: `CheckOverflow`, `Convert`
(step 2), `Query`, `Allocate`, `ComputeRefused` and `Compute` (LAPACK rejects or
accepts the call), `CopyOut`. `pc` is the next step or the way the call ended:
`"done"`, `"overflow"` (`lapack::Error` of step 1), `"length"` and `"memory"`
(`std::length_error` and `std::bad_alloc` of a vector), `"error"` (`info_ < 0`),
`"aborted"` (step 1 in a library that asserts). `"astray"` is where a call ends when LAPACK has accepted it though an
integer lost its upper bits (`Truncated`), or the length of the workspace did (`Strayed`): it then works on another problem, or past the
end of the workspace, of which the model says nothing. Until LAPACK sees it such a call goes on like others: a vector
of a negative length throws, LAPACK may turn it down, memory may run out.

What a routine does differently is data: a record `plan`, made with the operators
of `HostPlan`, whose names follow the idioms of the code. `In( n )` is
`std::vector< lapack_int > ipiv_( &ipiv[0], &ipiv[(n)] )`; `Out( doc, local )` is a
vector of `local` elements copied back whole into an array documented to have `doc`;
`Queried` has a workspace query. A plan gives, for each integer array, five lengths:
documented, local, copied in, assigned by LAPACK, copied back. `Deriving` adds an integer
that the wrapper works out, narrows without a check and gives to LAPACK; `NarrowingWork` is a workspace whose length is narrowed so
(`gemqrt`), of which LAPACK is not told. A plan may also change what was passed before it is checked: `lantr` first holds `lda` against `m` and then
makes `n`, or for an upper trapezoid `m`, no greater than `min( m, n )`; it is these values that are checked and given to LAPACK. The definition
`gesvx(d)` of `RoutinesLU` is the plan of all overloads of `src/gesvx.cc` for the
arguments `d`; where overloads differ in a way that shows, a flag of `d` or a
second definition tells them apart (`zgetrf2`, `gesvIter`, `d.double`).

An array element is not a number but a tag that says who wrote it last: the caller,
LAPACK, or nobody (`"raw"`). The properties are about where values
come from, not what they are.

LAPACK is external. It may reject a call for a negative integer or for a reason
of its own (`refused`), want any workspace from `need` to `Longest`, find any
number of eigenvalues the routine can report, and return any info in `Statuses`. It
assigns the cells its documentation says, and none when it rejects a call.
The conversion of a workspace length through a real number (`Stored`) is exact up
to `Exact` and may round either way beyond.

The ILP64 build is modelled by `call.build = "ILP64"`: no checks, no narrowing, LAPACK works
on the caller's arrays, but for the twins that exist in every build (`always`).
`call.mode` is what `lapack_error_if` does: `"throw"`, `"abort"` (`LAPACK_ERROR_ASSERT`)
or `"ndebug"`, nothing.

### Int64Call

The promise, without the mechanism: in one step a call either returns, with
LAPACK's results in their cells and every other cell as it was, or throws and
changes nothing. `HostCall` implements it under the mapping that
shows the caller's arrays when the call ends (`Seen`). A program that was aborted or went
astray waits for its answer for ever.

### Letters and Options

`Letters` has each enumeration as a table from enumerators to letters, with the letters
that its `char2X` lets through, and each map as a table of the letters it changes. An
enumerator is known by its representation, which is its letter.

`Options` is a program that reads one option, as the testers do, again and again. `Read` takes
any character, large or small; `Parse` is `char2X` with the three forms of
`lapack_error_if` (`char2sides` has an `assert` of its own); `Call` is the wrapper up to LAPACK;
`Refuse`, `Return`, `Factor` and `Solve` are what LAPACK may do; `CopyOut` is the
wrapper's rest, and `Catch` the program's. `option.takes` gives LAPACK's letters for the
enumerators that the wrappers document, from LAPACK's interface and not from the maps. The
expert drivers have `scaled` (what is done to the matrix in A), `factors` (what was done to
the one that AF holds factors of), and the two variables `equed` (caller) and `equed_` (wrapper).
Assumed of callers: they ask to solve with factors only after a call that computed some has
returned, and a call that is not `Factored` comes with a new matrix.

### DeviceQueue

One host thread, several queues, in-order streams. `Construct`, `Destroy`,
`AskSize` and `Call` begin an operation; `GetHandle`, `SetDevice`, `QuerySize`,
`EnsureWork`, `Launch`, `ClearInfo` and `Unavailable` are its steps in the order of
the wrapper; `Run(q)` finishes the oldest kernel of a stream at any moment.
`backend` is chosen once, like the build. The size queries of the stubs answer 0 and those with rocSolver take no look at the queue, so `AskSize` is all
of them; the other queries go through the steps of a call. A call ends with `"returned"` or with the class of
what it throws: `blas::Error`, which is what `blas_dev_call`, `blas_error_if` and the conversions of options throw in BLAS++, or `lapack::Error`, which is
another class and only a stub's. A kernel remembers the device that was
current, the device of its handle and the generation of the workspace it was given.
Assumed of callers: they synchronise with a queue before they destroy it or
replace the workspace they lent it, and lend one of the length they were told. By the first, the part of `WorkspaceLive` that is about lent
workspaces says of the wrappers only that they need no more than they said.

`InOrderQueue` has calls and results only: a call throws (one of `Errors`) or is accepted; of the accepted calls
that wait in a queue the oldest finishes next, and writes its result, once. `DeviceQueue` implements it:
in the mapping a call waits while the last of its kernels is in the stream, which is the `memset` where there is one.
So the kernel before a `memset` must be a step that shows nothing.

### Sturm

The loop of `sturm.cc` in exact integers. Scaling by a positive factor changes no sign,
so it is left out, except for `w = 0`, where it produces NaN: `nan` is set, and
comparisons are false from there on. Rounding is not modelled. There are two references. One counts
eigenvalues without a Sturm sequence: sums of principal minors give the
characteristic polynomial, Descartes' rule of signs its positive and negative roots
(`EigenvaluesBelow`). The other, `SignChanges`, is what a Sturm sequence is meant to count: changes of sign among
the leading minors. No minor is defined by a recurrence, as that is what the loop is to be compared with: `Det` is a sum over
the ways to cover rows by single ones and pairs of neighbours.

## Runs

| Run | Result | Question |
|---|---|---|
| `host` | pass | do the 377 wrappers keep the promise of Int64Call, in both builds and all three error modes, for every small shape and every single bad argument? |
| `host_getrf`, `host_heevr` | violation | `InBounds`, on calls that `host` leaves out |
| `host_stemr`, `host_hseqr` | violation | `Delivered`, likewise |
| `host_derived` | violation | `NoTruncation`, likewise |
| `options` | pass | do letters arrive, in both directions and through three calls? |
| `device` | pass | are queues and device wrappers safe, in order and complete, with every backend? |
| `device_info` | violation | lost info on oneMKL |
| `device_illegal` | violation | `IllegalAsTested`: what the testers expect of illegal arguments, and rocSolver does not do |
| `sturm` | pass | is the count right? |
| `sturm_strict` | violation | `StrictlyLess`: what the comments say of it, also at eigenvalues |

What the passing runs say, property by property:

| Property | Says |
|---|---|
| `NoTruncation` | LAPACK is given the integers the caller passed, and a workspace as long as the wrapper meant |
| `InBounds`, `LocalsSuffice` | no array is touched past its end, neither the caller's nor the local one |
| `Delivered` | all results reach the caller, as they were computed, and nothing uncomputed does |
| `ThrowsClean` | a throw changes nothing |
| `QuerySuffices` | the workspace that a query asked for is accepted |
| `TakesLegalCalls` | only memory keeps a legal call from its result, the largest `lapack_int` included |
| `ErrorExit` | what the testers expect of negative arguments |
| `Sound` | what a plan checks, reads, allocates, fills and copies back fits together (below) |
| `KeepsPromise`, `Terminates` | a call is one atomic step of Int64Call, and happens |
| `ParsesExactly`, `SaysWhatIsMeant`, `SolvesAsFactored` | as listed under *Options and expert drivers* |
| `OnItsDevice`, `WorkspaceLive`, `InfoDelivered`, `HandlesReleased`, `ReleasedWhereMade` | as listed under *Device queue* |
| `IllegalThrows` | an illegal call ends with the `blas::Error` that the vendor's status becomes |
| `KeepsOrder`, `Completes` | a queue is an InOrderQueue; every call comes back and every kernel finishes |
| `LeadingMinors` | the recurrence runs through the leading principal minors, until `w = 0` |
| `NeverDividesByZero` | `w = 0` happens only where the matrix falls into blocks |
| `AllBetweenEnds` | the count is 0 at the lower and `n` at the upper end of an interval with all of Gershgorin's discs |
| `GrowsWithU` | on a matrix that does not fall into blocks the count never falls as `u` grows |
| `ExactBetween` | the count is right between eigenvalues |
| `EvenAtEigenvalues` | at an eigenvalue, if the matrix does not fall into blocks, it is the number of smaller ones rounded up to an even number |

**Bounds of the host runs.** `m` and `n` are 0, 1 or 2, all other sizes 1, leading
dimensions 3; `NarrowMax = 7` makes `lapack_int` a 4-bit integer and
`WideMin = -128` `int64_t` an 8-bit one. Lengths in the code are linear in
`m`, `n` and `min( m, n )` with small offsets, and `max( 1, ... )` bends at
zero; empty, one and two tell all of them apart. `Span = 5` cells per array is one more than
the longest (`2*max( 1, n )`, for two eigenvalues). Each argument in turn is -1, the largest `lapack_int`,
a value that looks plausible once its upper bits are cut off (`TooLarge`), or the most negative
integer. `lower` makes a trapezoid a lower one. The modes that abort or ignore differ from throwing with `TooLarge` only, and are tried there.
`need` is 2 or 3 with `Exact = 2`, either side of the last exactly representable
workspace length, and `Longest = 4` leaves room to round. `Statuses` is
success and a failure at the first value. Routines without integer arrays are tried with the
empty, tall, wide and square shapes of `Corner`. 333,000 states. `host_derived` has a `gemqrt` of
6 by 6 with blocks of 3, `host_stemr` only calls with eigenvectors. What these bounds leave open,
the theorems close.

**Calls left out** of `host` and of the theorems that suppose `Planned`, each kind defined and named in `HostDocumented`:

| Kind | Calls | |
|---|---|---|
| `NoPivots` | `getrf`, `getrf2`, `getf2`, `gesv` of an empty matrix | `host_getrf` |
| `UnfilledSupport` | `heevr`, `syevr` and 2-stage forms, unless `isuppz` is filled | `host_heevr` |
| `HalfSupport` | `stemr`, `stegr`, `stevr`, unless `n` is at most 0 | `host_stemr` |
| `RoundedMerge` | `hseqr` and `ggesx` for `double`, unless `n` is at most 0 | `host_hseqr` |
| `DerivedTooLarge` | `gemqrt`, `hetrs_aa`, `sytrs_aa`, `laed4`, if what they work out does not fit | `host_derived` |
| `EmptyReflectors` | `opgtr`, `upgtr` of an empty matrix | `work( (n-1) )` throws `std::length_error` |
| `NoInterchanges` | `laswp` with `k1`, `k2` such that `ipiv` has a negative length in the documentation | there is no such array |
| not `Countable` | `tgsen` with a workspace too large for the precision | merges `alpha` before it looks at info |

On the first five the code does not do what its documentation says, and the runs show it.
What these calls do otherwise is as it should be: `FindingsAreConfined`, below.

**Bounds of the options runs.** `MaxCalls = 3`: with three an expert driver can factor, do
something else (factor another matrix, fail, be refused), and solve. The program reads the same option each
time; options meet nowhere but in one call's argument list. All six builds, all enumerations
but `disna`'s `JobCond`, whose parser is that of another one (below), and every letter of any enumeration, with
one foreign letter. `equed` is not initialised at first. 1.9 million states.

**Bounds of the device runs.** Two queues on two devices and two calls: queues share
the current device only, and of the calls before only the last decides which that
is; two calls with workspaces of length 1 or 2 cover growing, reusing and
shrinking. With these backends and routines all distinct paths through the
wrappers are taken (`Distinct` in `MC_Device` says which wrappers coincide).
`Careless` says on which backends illegal arguments are tried: cuSolver before 11 goes
the way of 11, the stub throws `lapack::Error` for any call, and rocSolver is left to
`device_illegal`. `SeenInfos` gives oneMKL's kernels success only; failures are in
`device_info`. 650,000 states.

**Bounds of Sturm.** Matrices up to order 4, diagonal, off-diagonal and `u` in 0..2
(43,400 states): zeros in the sequence, one and two in a row, blocks, and double
eigenvalues all occur, and the three points `u` of one matrix lie on either side of eigenvalues and at them. The matrices have small integer entries; no claim is made about floating-point behaviour.

**Deadlock** is not checked in the host, options and Sturm runs, where a call or the program ends
and nothing follows. In the device runs it is.

**Fairness.** A host wrapper runs on its caller's thread and waits for nothing:
`WF_vars(Next)`, and `Terminates` shows that there is no loop. For devices,
`WF_vars(Proceed)`: a thread inside a wrapper goes on when it can; it waits in one place,
`work_ensure_size`, for its own stream. `WF_vars(Run(q))`: each device finishes the
kernels it has, in order. There is no fairness for `Begin`: no program has to
make a call, and none in `Options`, where only safety is claimed.

## Findings

1. `getrf`, `getrf2`, `getf2`, `gesv` write one uninitialised element to `ipiv` of an
   empty matrix, documented to have `min(m,n) = 0` (LP64).
2. `heevr`, `syevr` and their 2-stage forms write `2*max(1,n)` elements to an `isuppz`
   documented to have `2*max(1,nfound)`.
3. `stemr`, `stegr`, `stevr` copy back `m` of the `2*m` elements of `isuppz` that LAPACK fills with eigenvectors. (Without
   eigenvectors it fills none, and `m` elements that nobody computed are copied.)
4. `hseqr` and `ggesx` for `double` merge eigenvalues through `std::complex<float>`.
5. oneMKL wrappers clear `dev_info` after the kernel.
6. rocSolver's `potrf`, `getrf`, `geqrf` drop the status of the call. The testers expect `lapack::Error` of an illegal call, which
   no vendor's wrapper throws: cuSolver's and oneMKL's throw `blas::Error`, as `IllegalThrows` states.
7. `gemqrt` works out the length `n*nb` of its workspace and narrows it without a check. What is left may be negative, and `std::vector`
   throws, or a positive one that is too short, and LAPACK, which is not told, runs past its end: `Convert` and `Allocate`
   throw in the one case, the other ends in `ComputeAstray`. `hetrs_aa` and `sytrs_aa` narrow `3*n-2` like that, and `laed4` `i+1`; those
   are given to LAPACK.
8. `sturm` at an eigenvalue counts, if the matrix does not fall into blocks, the smaller ones rounded up to an even number: for eigenvalues -1 and 1 it returns 2 at
   `u = 1`. The comments say strictly less. `EvenAtEigenvalues` states what it does.

The quotations are in `PROJECT.json`. Besides: `opgtr` and `upgtr` fail for `n = 0`
(above), which no comment in this repository speaks about; and `char2jobcond` (`include/lapack/util.hh:768`) checks for the letters of `Sense`,
so that it turns down two of the three letters of `JobCond` and takes three that are not: `options` leaves that enumeration
out, and the lemma `JobCondTakesOthers` of `OptionsProofs` says what is wrong with it.

## Proofs

Eight modules: `HostCallProofs` and `PlanProofs` for the host wrappers, `OptionsProofs`, `InOrderProofs` and
`DeviceProofs` for queues, `FoldProofs`, `MinorProofs` and `SturmProofs` for the count. A theorem holds for every value of the
constants that satisfies their `ASSUME`s, which TLC evaluates on the runs; where it needs more, it says so
itself. All safety properties of the passing runs are theorems except `ExactBetween` and `EvenAtEigenvalues`.

### HostCallProofs: a call with any plan

| Theorem | Statement |
|---|---|
| `TypeCorrect` | `Spec => []TypeOK` |
| `NeverTruncates` | `Spec /\ Checked => []NoTruncation` |
| `StaysInBounds` | `Spec /\ Inside => []InBounds` |
| `Delivers` | `Spec /\ Faithful => []Delivered` |
| `ThrowsCleanly` | `Spec /\ Patient => []ThrowsClean` |
| `LocalsAreLongEnough` | `Spec /\ Spacious => []LocalsSuffice` |
| `QueriesSuffice` | `Spec => []QuerySuffices` |
| `LegalCallsAreTaken` | `Spec /\ Checked /\ Roomy => []TakesLegalCalls` |
| `KeepsItsPromise` | `Spec /\ Faithful /\ Patient => KeepsPromise` |

The hypotheses are conditions on the call alone, on its plan and arguments; none mentions a state of the call. They are
the parts of `Sound`, each where it is needed:

| Condition | Says |
|---|---|
| `Checked` | integers that are not checked, and the length of the workspace, fit all the same |
| `Roomy` | no length the wrapper works out is negative for a legal call |
| `ReadsWithin` | of each array, no more is copied in than the caller has |
| `HasRoom` (`Spacious`: of all arrays) | the local copy is as long as what LAPACK fills |
| `EndsWithin` (with the first, `Inside`) | neither what LAPACK fills nor the copy back is longer than the caller's array |
| `GivesBack` (`Faithful`) | all results are copied back, unaltered, and nothing else but what was copied in |
| `Settled` (`Patient`) | an array that is merged early belongs to a call that cannot fail any more |

Those about copies ask nothing of an array that has none in the ILP64 build, nor of a call that LAPACK refuses.
That the plans of the wrappers meet them is not supposed: it is `PlansAreSound` and `FindingsAreConfined`, below.

*Argument.* None of the properties is inductive. `Inductive` says what each phase
has established, of any plan: `Accepted` (whoever got past the checks has arguments in range, or the
one value whose absolute value does not exist), `Converted` (what LAPACK is given),
`Answered` (whoever got past the query has a call that LAPACK accepts, and a long enough
workspace if the precision permits), and `LocalCell` and `UserCell`, which give the tag
of every cell of either copy at every step. A condition on the call goes on holding because `call` never changes
(`SoundKept`), and `WholeIntegers`, `WithinArrays`, `ResultsArrive`, `ThrownClean`, `LocalsHold` and `LegalTaken` draw each property
from `Inductive` and its condition.
The lemmas about numbers come first: `NarrowKeeps` (narrowing is
the identity in range), `StoredNear`, `AnswersNear` and `LengthsSuffice` (how much a
workspace length can lose). The refinement maps every step but the last to a
stutter, and the last to `Return` or `Throw`.

### PlanProofs: the 377 wrappers

| Theorem | Statement |
|---|---|
| `PlansAreSound` | `Spec /\ Planned => []Sound` |
| `WrappersAreSafe` | `Spec /\ Planned => []` of the seven safety properties above |
| `FindingsAreConfined` | `Spec /\ Wrapped => []` of each property, except on the calls that break it |
| `NegativeArgumentsAreErrors` | `Spec /\ Wrapped => []ErrorExit` |
| `WrappersKeepTheirPromise` | `Spec /\ Delivering => KeepsPromise` |

`Wrapped` says what the calls are: each is a call of one of the wrappers, with the plan that its family has
for arguments `d` (`Made`), where `d` is a list of any integers and options (`IsArguments`). `IsArguments` has one more conjunct, for
the bound of the model: LAPACK can count the `n` values that `range = All` finds. `Planned` says besides that none is a call
left out (`AsDocumented`, `Countable`, listed above). The calls of the run `host` are such calls (`MC_Host` takes its plans from the same
operators, asserts `IsArguments` of every list it tries, and filters by `AsDocumented` and `Countable`), so the hypothesis
is one that TLC has seen hold. The `int64_t` arithmetic in which the wrappers work out lengths is taken as exact.

`FindingsAreConfined` is about all calls, the exceptions too: what the runs that expect a violation show goes no further.

| Property | Holds of every wrapper, except |
|---|---|
| `LocalsSuffice`, `QuerySuffices` | |
| `ThrowsClean` | `tgsen` with a workspace beyond counting |
| `NoTruncation` | `DerivedTooLarge`, in LP64 |
| `InBounds` | `NoPivots`; `UnfilledSupport` of fewer than all values; both in LP64 (`Overruns`) |
| `Delivered` | `NoPivots`, `UnfilledSupport`, `HalfSupport`, in LP64 (`Miscopies`); `RoundedMerge` |
| `TakesLegalCalls` | `DerivedTooLarge`, in LP64; `EmptyReflectors`, `NoInterchanges` (`TurnsAway`) |

So a call of `stemr` delivers half of its support, but neither reads nor writes past an array of integers; a call of `gemqrt` with a product
that does not fit goes wrong in LP64 only, by a workspace that is too short or a vector of negative length; and no wrapper, on any call, lets LAPACK write past a local vector. `Delivering` are the calls
with no exception in the fourth row and a workspace that can be counted: calls of which `TakesLegalCalls` or `NoTruncation` fails
are among them, for `Int64Call` may refuse any call (`PlannedKeepTheirPromise` is the case of `Planned`).

*Argument.* `Sound` speaks of constants of `HostCall`; `Suits(plan, found, need)` says the same of a plan:
its integers are `Regular`, each array is read where the caller has it (`Reads`), and written back where it is wanted
(`Writes`). `SuitsSound` is the step from one to the other. Then every operator of `HostPlan` has a lemma, named for it
(`PlainSuits`, `PivotsSuit`, `SupportGood`, `ExpertSuits`, ...), and every family has one that goes through its routines. Where a plan
suits only some calls, the lemma of the family is where `AsDocumented` is used. The hard ones are those with lengths
that are products (`n*nb` of `gemqrt`, `k1+(k2-k1)*abs(incx)` of `laswp`), and those whose arrays depend on how many
eigenvalues are found. For the exceptions `Stands(routine, d, plan, found, need)` takes the place of `Suits`: it asks of a plan all but what `d` is an
exception to. A plan that suits stands (`SuitsStands`); each of the eight kinds of exception has its own case in `MadeStands`,
which comes to one array that is `Nearly` right, or to one integer or workspace length that is not; and `StandsConfined` reads off
the conditions of HostCallProofs, property by property (`Confined`).
`NegativeArgumentsAreErrors` needs two facts of the routines with such a test (`TestedSturdy`): they allocate nothing of negative
length, and LAPACK looks at all their integers. Then `Inductive` leaves a call with a negative integer no other end than
`lapack::Error` or a lack of memory (`SturdyExit`).

### OptionsProofs

| Theorem | Statement |
|---|---|
| `OptionTypes` | `Spec => []TypeOK` |
| `ParsesEveryOption` | `Spec => []ParsesExactly`, if `"jobcond" \notin Enumerations` |
| `MeansWhatItSays` | `Spec => []SaysWhatIsMeant` |
| `SolvesWithWhatItFactored` | `Spec => []SolvesAsFactored` |

For any number of calls, in any builds. What is wrong with `jobcond` is the lemma `JobCondTakesOthers`. *Argument.* The tables are
finite, and `ParsesOwn`, `OwnLetterStays` and `OptionFacts` say of them, entry by entry, what the program relies on: a parser takes
the letters of its enumeration, none of them is an alias of another, and each map sends the letter that LAPACK takes. `Typed` carries that
through the calls. `SolvesAsFactored` speaks of one moment, the solve;
its invariant of all the others: `FactOnly` (what an expert driver reads is `fact`, which no
map changes), `Known` (while `settled`, the caller's `equed` describes the matrix in A, and its factors),
`Earned` (who reads `Factored` is settled, and still is when the call is made), `Told` (LAPACK is given the caller's
`equed`, or a new matrix) and `Answered` (what LAPACK leaves in `equed_`). `Known` is the reason for
`settled`: between a call for a new matrix and its return, nothing is known of `equed`.

### InOrderProofs: what the promise of a queue is worth

| Theorem | Statement |
|---|---|
| `KeepsTurns` | `Spec => []NoneOvertakes`: of two calls on one queue, the later is not done before the earlier |
| `GivesResults` | `Spec => []ResultsRight`: a result is there just when its call is done, and is that call's |
| `KeepsResults` | `Spec => ResultsStay`: once a call is done, nothing changes its result |

These are theorems about `InOrderQueue`: the abstract specification says how calls may finish, one step at a time, and the
theorems that this is enough for what callers rely on. *Argument.* The invariant adds `InPlace`: only calls that were accepted
wait, each in the queue it was made on, so `Finish`, which takes the oldest of those that wait, leaves none behind.

### DeviceProofs

| Theorem | Statement |
|---|---|
| `Invariance` | `Spec => []Inv` |
| `DeviceTypes` | `Spec => []TypeOK` |
| `RunsOnItsDevice` | `Spec => []OnItsDevice` |
| `KeepsWorkspaces` | `Spec => []WorkspaceLive` |
| `ReleasesHandles` | `Spec => []HandlesReleased` |
| `ReleasesWhereMade` | `Spec => ReleasedWhereMade` |
| `ThrowsOnIllegal` | `Spec => []IllegalThrows`, if no illegal argument is given to rocSolver or a stub |
| `DeliversInfo` | `Spec => []InfoDelivered`, if `Found` |
| `ImplementsInOrderQueue` | `Spec => KeepsOrder`, if `Found` and `"rocm" \notin Careless` |
| `CallsFinishInOrder` | `Spec => []NoneOvertakes`, `[]ResultsRight` and `ResultsStay` of that queue, likewise |
| `CallsGetOn` | `Spec => GetsOn` |

For any number of queues, on any devices, any workspace lengths, and any number of calls. `Found` says that
kernels which clear `dev_info` have nothing but success to report, and `"rocm" \notin Careless` that no illegal argument is given to
rocSolver; without them the runs `device_info` and `device_illegal` have counterexamples, and these are the only ways in which the
backends differ from what their documentation says.

*Argument.* `Inv` is the conjunction of `Typed`; `HandlesRight` (a handle is on its queue's device; what is
closed has nothing); `HostRight` (what each step of a wrapper may suppose because the steps before it are done: above all which
device is current); `CallRight` and `CallsRight` (the call in progress is the last one made, has a workspace that is long enough, and is the
only one that has not ended; only a stub throws `lapack::Error`); `KernelsRight` (kernels belong to calls of their queue); `OldestFirst` (the last kernels of calls
are in a stream in the order of the calls, one for each); and the properties `OnItsDevice` and `WorkspaceLive`
themselves. `WorkspaceLive` needs `CallRight` because the workspace is replaced two steps before the kernel
that it is replaced for. `ResultsComing` (who returned has its result or a kernel that will bring it) is added for `InfoDelivered`. `Enqueued` and
`Dequeued` reduce streams to their sets of kernels. The refinement maps `Run` of a call's last kernel to `Finish`, that of another to a stutter;
`OldestFirst` makes that kernel the one `Finish` may take. `CallsFinishInOrder` takes the theorems of `InOrderProofs` over
to the wrappers, through the refinement.

`CallsGetOn` is the part of `Completes` that is not about fairness: while a wrapper is at work, each step of the system either brings it nearer to its
end, of which it is at most six steps away (`StepsLeft`), or takes one kernel from one stream; the step that waits for a stream
adds none. So a call is over after at most six steps of its own and as many others as there are kernels, if these steps are taken: that
they can be, and are, is left to TLC and fairness.

### SturmProofs

| Theorem | Statement |
|---|---|
| `SturmTypes` | `Spec => []TypeOK` |
| `SturmNeverDividesByZero` | `Spec => []NeverDividesByZero` |
| `SturmHoldsLeadingMinors` | `Spec => []LeadingMinors` |
| `SturmDividesByZeroAtEigenvalues` | `Spec => [](nan => Det(n, u) = 0)` |
| `SturmCountsSignChanges` | without NaN, what is returned is `SignChanges(n, u)` |
| `SturmCountsParity` | without NaN, it is odd just where `Det(n, u)` is negative |
| `SturmGrowsWithU` | `Spec => []GrowsWithU` |
| `SturmCountsSeparated` | on a matrix that does not fall into blocks: at `n + 1` points between which the determinant changes its sign, it is 0, 1, ..., `n`; and between two of them, the sign of the determinant tells which of the two counts it is |
| `SturmCountsBlocks` | on a matrix that does, unless `u` is an eigenvalue: the sum of the counts above and below the cut |
| `SturmCountsAllBetweenEnds` | `Spec => []AllBetweenEnds` |

For matrices of any order with any integers. `SturmCountsSeparated` says the same as `ExactBetween` without a count of
eigenvalues to compare with: a determinant that changes its sign `n` times has all its zeros there, one between
two points, so that `k` eigenvalues are less than the point `p[k]`. The points are fractions over any denominator (`Scale`, a
constant of this module, any positive number). A matrix that does not fall into blocks has `n` different eigenvalues, so
such fractions exist for each one. `SturmCountsBlocks` has the others, one cut (`Cut`, any row) after the other. Together they are exact
for all matrices at every `u` that is not an eigenvalue, and at eigenvalues for matrices without
blocks. That the points exist is the one thing left to analysis; no theorem supposes
that a zero of a polynomial is an eigenvalue, or that all are real. `SturmGrowsWithU` and `SturmCountsParity` need no points.

*Argument.* Two terms in a row are never both zero if no off-diagonal element is (`TermLeft`).

For `LeadingMinors`, `PairingsRecurrence` divides the coverings of `k + 2` rows into those with the last row single, which cover
`k + 1` rows besides, and those with the last two in a pair, which cover `k`. `MinorRecurrence` takes this through the sums, so
that `NextMinor` is the recurrence of the loop. The sums are folds over sets, which are taken apart one element at a time
(`SumSteps`, `ProductSteps`), whichever it is (`FoldAnyOrder`); then sums over disjoint sets and under other names follow
(`SumOfUnion`, `SumRenamed`). `FoldExists` shows that there is a fold at all.

For `GrowsWithU`, take two points `a < b`. Of neighbouring minors at `a` and at `b`, the pair at `b` is `Later`: the
product across is greater, which is Sturm's comparison of two solutions, without derivatives. `LaterStep`
takes this over one row. So the count at `b` is never behind, and where it is the same, the pair is later still
(`Ahead`, `StaysAhead`). `SeparatedCounts` combines it with the parity (`SignFromCount`): a count that never falls, and
changes its parity `n` times between 0 and `n`, is 0, 1, ..., `n`. For fractions, the lemmas of `MinorProofs` are taken at the same
matrix times `Scale` (`Scaled`, an instance): its minor of order `k` is `Scale^k` times that of the matrix, and so has its sign (`ScaledMinors`).

For blocks, the minors below a cut are those of the block there (`Rest`) times the minor above (`RestMinors`). If the factor is
negative all signs are turned, but no change is lost or gained (`RestChanges`); off eigenvalues the factor is not zero, and
zeros in either block are alone (`ZerosStay`: two in a row would make all that follow zero). For the same reason a
NaN, which takes two zeros in a row, means that `u` is an eigenvalue (`SturmDividesByZeroAtEigenvalues`).

For the ends: where the diagonal outweighs the rest of each row, a term is at least
the next off-diagonal element times the term before (`Dominated`): so all terms have one sign (`LowerEnd`), or
each has another sign than the one before (`UpperEnd`). The first allows zeros, and the NaN that
follows two of them, since the count stays at 0 through both.

Induction over orders and over finite sets is by a least counterexample (`Least`, from `WFMin`, which takes no operator for
a parameter): `Induction`, `SubsetInduction`.

### Only model-checked

- `ExactBetween` and `EvenAtEigenvalues`: their reference finds the number of eigenvalues by Descartes' rule, and that this
  is their number is a theorem of analysis (all roots of the characteristic polynomial are real). `SturmCountsSeparated` and
  `SturmCountsBlocks` are the counterpart of the first that is proved, `SturmCountsParity` that of the second.
- `Terminates` and `Completes`: liveness under fairness is outside what the proof system handles; `CallsGetOn` is what
  can be said of `Completes` without it.

## Not modelled, and why

- Floating-point data, matrices, and what LAPACK computes: not this library's code.
- The selection callbacks of `gees` and `gges`: LAPACK calls them.
- `lamch`, `version.cc`: constants. `flops.hh`: formulas of the testers' reports.
- The names of enumerators for printing (`job2str` and the like): no behaviour depends on them.
- The maps of `util.hh` for `gejsv` and `gesvj`, which no wrapper uses.
- The width of the device wrappers' integers: `int lwork` of oneMKL, and `m`, `n`, `ldda` narrowed with
  cuSolver before 11 and rocSolver ("todo: check for overflow"). The code has no check there whose order or
  completeness could be right or wrong.
- Vendor enums and status strings (`cuda_common.cc`), declarations (`fortran.h`,
  `wrappers.hh`, `mangling.h`), and alignment of vectors: no state.
- Two threads in one queue: the library makes no promise about that.
- The build system and code generation; what they decide is a choice in the initial states.

## What is left open

Modelled: all that the inventory has. Proved: all safety properties of the passing runs but
two. Open are:

- `sturm` at an eigenvalue of a matrix that falls into blocks. Where a leading block has the
  eigenvalue `u`, the sequence ends in NaN, and the rest of the matrix is not counted; neither the code nor its comments say
  what the result is worth there.
- Whether products such as `3*n*n + 4*n`, in which wrappers work out workspaces, fit `int64_t`: of a workspace that is not
  queried, the model has only the sign.
- Rounding in `sturm`, which scales so as to avoid overflow, not rounding.
