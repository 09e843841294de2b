----------------------------- MODULE DeviceQueue -----------------------------
(***************************************************************************)
(* The device half of LAPACK++: lapack::Queue (include/lapack/device.hh)   *)
(* and the wrappers potrf, getrf, geqrf and heevd of src/cuda, src/rocm,   *)
(* src/onemkl and src/stub.                                                *)
(*                                                                         *)
(* A host thread makes calls on several queues, each on its device; a call *)
(* enqueues kernels in the queue's stream and returns, and the device runs *)
(* each stream in order, whenever it pleases.  The thread has one current  *)
(* device, which every call leaves behind for the next.  The steps of a    *)
(* call are those of its C++ function: handle, set_device, workspace       *)
(* query, workspace, launch, and for some a memset of dev_info.            *)
(*                                                                         *)
(* blas::Queue and the vendor's solver are not in this repository; they    *)
(* do here what the wrappers rely on.                                      *)
(***************************************************************************)
EXTENDS Integers, Sequences

CONSTANTS
  Queues,    \* the queues of the program
  Devices,   \* the devices they may be on
  DeviceOf,  \* which queue is on which
  NoDevice,  \* where a handle is that was not created
  Backends,  \* of "cuda10", "cuda11", "rocm", "onemkl" and "stub"
  Routines,  \* by backend, of "potrf", "getrf", "geqrf" and "heevd"
  Needs,     \* workspace lengths that a call may need
  Infos,     \* what kernels may find, by backend: 0 is success
  Careless,  \* backends with which illegal arguments are tried as well
  MaxCalls   \* bound on the calls made, to keep the model finite

ASSUME DeviceAssumption ==
  DeviceOf \in [Queues -> Devices] /\ NoDevice \notin Devices
ASSUME NumbersAssumption ==
  /\ Needs \subseteq Nat \ {0} /\ MaxCalls \in Nat
  /\ \A b \in Backends : Infos[b] \subseteq Nat /\ 0 \in Infos[b]

VARIABLES
  backend,  \* which library the program was built with
  active,   \* the current device of the host thread
  open,     \* whether the queue is constructed
  solver,   \* solver_: the device on which its cuSolver handle was created
  params,   \* solver_params_ is created (CUDA 11)
  work,     \* the queue's own workspace: how often allocated, how long
  lent,     \* length of the workspace the caller allocated for the queue
  host,     \* the call in progress
  stream,   \* kernels enqueued and not finished
  calls,    \* the calls made so far, with their arguments
  ended,    \* of each: "calling", "returned" or what was thrown
  dev_info  \* of each, its dev_info in device memory

queueVars == <<open, solver, params, work>>
vars == <<backend, active, queueVars, lent, host, stream, calls, ended, dev_info>>

Unset == -1    \* what dev_info holds before
Idle == [step |-> "idle"]

Cuda == backend \in {"cuda10", "cuda11"}

\* What a call throws: blas::Error from blas_dev_call and blas_error_if, which
\* are BLAS++'s, or lapack::Error.  Neither class derives from the other.
Errors == {"blas::Error", "lapack::Error"}

\* potrf takes its workspace from the queue, and no workspace with rocSolver.
OwnWork(routine) == routine = "potrf"
Internal(routine) == backend = "rocm" /\ routine # "heevd"

\* The workspaces that a routine may ask for: none at all of a stub.
Lengths(routine) ==
  IF Internal(routine) \/ backend = "stub" THEN {0} ELSE Needs

\* Mutant: only the size query of potrf is checked.
GuardedQuery(routine) == OwnWork(routine)

\* Whether the launch is wrapped in blas_dev_call, which throws.
Guarded(routine) == backend # "rocm" \/ routine = "heevd"

\* Mutant: rocSolver's routines clear dev_info as oneMKL's do.
ClearsAlways(routine) == backend \in {"onemkl", "rocm"}

\* Whether the wrapper sets dev_info to 0 itself, after the kernel.
Clears(routine) == backend = "onemkl" \/ (backend = "rocm" /\ routine = "geqrf")

\* Mutant: a queue without a device of its own sets one that is none.
ChosenUnset(q) == IF backend = "onemkl" THEN NoDevice ELSE DeviceOf[q]

\* blas::internal_set_device( queue.device() ): for oneapi, do nothing.
Chosen(q) == IF backend \in {"onemkl", "stub"} THEN active ELSE DeviceOf[q]

Made == 1 .. Len(calls)
Current == Len(calls)

-----------------------------------------------------------------------------
Init ==
  /\ backend \in Backends
  /\ active \in Devices
  /\ open = [q \in Queues |-> FALSE]
  /\ solver = [q \in Queues |-> NoDevice]
  /\ params = [q \in Queues |-> FALSE]
  /\ work = [q \in Queues |-> [count |-> 0, length |-> 0]]
  /\ lent = [q \in Queues |-> 0]
  /\ host = Idle
  /\ stream = [q \in Queues |-> <<>>]
  /\ calls = <<>>
  /\ ended = <<>>
  /\ dev_info = <<>>

\* lapack::Queue( device ): handles are null, blas::Queue gets its stream.
Construct(q) ==
  /\ host = Idle
  /\ ~open[q]
  /\ open' = [open EXCEPT ![q] = TRUE]
  /\ active' = Chosen(q)
  /\ UNCHANGED <<backend, solver, params, work, lent, host, stream, calls,
                 ended, dev_info>>

\* Mutant: handles are destroyed with whatever device is current.
DestroyAnywhere(q) ==
  /\ host = Idle
  /\ open[q]
  /\ stream[q] = <<>>
  /\ open' = [open EXCEPT ![q] = FALSE]
  /\ params' = [params EXCEPT ![q] = FALSE]
  /\ solver' = [solver EXCEPT ![q] = NoDevice]
  /\ work' = [work EXCEPT ![q].length = 0]
  /\ UNCHANGED <<backend, active, lent, host, stream, calls, ended, dev_info>>

\* Mutant: solver_params_ is forgotten.
DestroyKeepingParams(q) ==
  /\ host = Idle
  /\ open[q]
  /\ stream[q] = <<>>
  /\ open' = [open EXCEPT ![q] = FALSE]
  /\ active' = IF Cuda THEN DeviceOf[q] ELSE active
  /\ solver' = [solver EXCEPT ![q] = NoDevice]
  /\ work' = [work EXCEPT ![q].length = 0]
  /\ UNCHANGED <<backend, params, lent, host, stream, calls, ended, dev_info>>

\* ~Queue, of a queue the program synchronised with.
Destroy(q) ==
  /\ host = Idle
  /\ open[q]
  /\ stream[q] = <<>>
  /\ open' = [open EXCEPT ![q] = FALSE]
  /\ active' = IF Cuda THEN DeviceOf[q] ELSE active
  /\ params' = [params EXCEPT ![q] = FALSE]
  /\ solver' = [solver EXCEPT ![q] = NoDevice]
  /\ work' = [work EXCEPT ![q].length = 0]
  /\ UNCHANGED <<backend, lent, host, stream, calls, ended, dev_info>>

\* getrf_work_size_bytes and the like: the caller asks before it allocates, and
\* replaces its workspace only when nothing uses it any more.  rocSolver's, and
\* those of the stubs, which answer 0, take no look at the queue.
AskSize(q, routine, need) ==
  /\ host = Idle
  /\ open[q]
  /\ ~OwnWork(routine)
  /\ stream[q] = <<>>
  /\ Len(calls) < MaxCalls
  /\ IF backend \in {"rocm", "stub"}
     THEN /\ lent' = [lent EXCEPT ![q] = need]
          /\ UNCHANGED host
     ELSE /\ host' = [step |-> "handle", task |-> "size", queue |-> q,
                      routine |-> routine, need |-> need, legal |-> TRUE]
          /\ UNCHANGED lent
  /\ UNCHANGED <<backend, active, queueVars, stream, calls, ended, dev_info>>

\* A call of a wrapper.  The caller lends the workspace it was told to; info
\* is what the kernel will find.  legal: the vendor accepts the arguments.
Call(q, routine, need, legal, info) ==
  /\ host = Idle
  /\ open[q]
  /\ Len(calls) < MaxCalls
  /\ OwnWork(routine) \/ Internal(routine) \/ lent[q] = need
  /\ routine = "geqrf" \/ ~legal => info = 0
  /\ host' = [step |-> "handle", task |-> "compute", queue |-> q,
              routine |-> routine, need |-> need, legal |-> legal]
  /\ calls' = Append(calls, [queue |-> q, routine |-> routine, need |-> need,
                             legal |-> legal, info |-> info])
  /\ ended' = Append(ended, "calling")
  /\ dev_info' = Append(dev_info, Unset)
  /\ UNCHANGED <<backend, active, queueVars, lent, stream>>

\* The call in progress ends.
End(how) ==
  /\ host' = Idle
  /\ ended' = [ended EXCEPT ![Current] = how]

\* Mutant: without a vendor's library the wrapper returns as if it had worked.
UnavailableSilently ==
  /\ backend = "stub"
  /\ host.step = "handle"
  /\ End("returned")
  /\ UNCHANGED <<backend, active, queueVars, lent, stream, calls, dev_info>>

\* throw lapack::Error( "device LAPACK not available" ), which is all that a stub
\* does when it is called.
Unavailable ==
  /\ backend = "stub"
  /\ host.step = "handle"
  /\ End("lapack::Error")
  /\ UNCHANGED <<backend, active, queueVars, lent, stream, calls, dev_info>>

\* Queue::solver(): the handle is created on first use, on the current device.
GetHandle ==
  /\ backend # "stub"
  /\ host.step = "handle"
  /\ LET q == host.queue
     IN  IF Cuda /\ solver[q] = NoDevice
         THEN /\ active' = DeviceOf[q]
              /\ solver' = [solver EXCEPT ![q] = active']
         ELSE UNCHANGED <<active, solver>>
  /\ host' = [host EXCEPT !.step = "device"]
  /\ UNCHANGED <<backend, open, params, work, lent, stream, calls, ended, dev_info>>

\* Mutant: the device is taken for granted.
SetDeviceOmitted ==
  /\ host.step = "device"
  /\ host' = [host EXCEPT !.step =
       IF host.task = "size" \/ (OwnWork(host.routine) /\ ~Internal(host.routine))
       THEN "query" ELSE "launch"]
  /\ UNCHANGED <<backend, active, queueVars, lent, stream, calls, ended, dev_info>>

\* blas::internal_set_device, and on to the first step the routine has.
SetDevice ==
  /\ host.step = "device"
  /\ active' = Chosen(host.queue)
  /\ host' = [host EXCEPT !.step =
       IF host.task = "size" \/ (OwnWork(host.routine) /\ ~Internal(host.routine))
       THEN "query" ELSE "launch"]
  /\ UNCHANGED <<backend, queueVars, lent, stream, calls, ended, dev_info>>

\* Queue::solver_params(), created on first use.
GetParams(q) ==
  IF backend = "cuda11" /\ ~params[q]
  THEN active' = DeviceOf[q] /\ params' = [params EXCEPT ![q] = TRUE]
  ELSE UNCHANGED <<active, params>>

\* *_bufferSize, *_scratchpad_size, in a blas_dev_call.  Arguments that the
\* vendor does not accept may be found out here or at the launch.
QuerySize ==
  /\ host.step = "query"
  /\ GetParams(host.queue)
  /\ \/ /\ ~host.legal
        /\ End("blas::Error")
        /\ UNCHANGED lent
     \/ /\ host.task = "compute"
        /\ host' = [host EXCEPT !.step = "workspace"]
        /\ UNCHANGED <<lent, ended>>
     \/ /\ host.task = "size"
        /\ host' = Idle
        /\ lent' = [lent EXCEPT ![host.queue] = host.need]
        /\ UNCHANGED ended
  /\ UNCHANGED <<backend, open, solver, work, stream, calls, dev_info>>

\* Mutant: the queue's workspace is replaced without waiting for its kernels.
EnsureWorkNow ==
  /\ host.step = "workspace"
  /\ LET q == host.queue
     IN  \/ /\ host.need <= work[q].length
            /\ UNCHANGED work
         \/ /\ host.need > work[q].length
            /\ work' = [work EXCEPT ![q] = [count |-> @.count + 1, length |-> host.need]]
  /\ host' = [host EXCEPT !.step = "launch"]
  /\ UNCHANGED <<backend, active, open, solver, params, lent, stream, calls, ended,
                 dev_info>>

\* queue.work_ensure_size< char >( dev_work_size );  // syncs if needed
\* Then blas_error_if( host_work_size != 0 ), which is cuSolver's to say.
EnsureWork ==
  /\ host.step = "workspace"
  /\ LET q == host.queue
     IN  \/ /\ host.need <= work[q].length
            /\ UNCHANGED work
         \/ /\ host.need > work[q].length
            /\ stream[q] = <<>>
            /\ work' = [work EXCEPT ![q] = [count |-> @.count + 1, length |-> host.need]]
  /\ \/ /\ host' = [host EXCEPT !.step = "launch"]
        /\ UNCHANGED ended
     \/ /\ backend = "cuda11"
        /\ End("blas::Error")
  /\ UNCHANGED <<backend, active, open, solver, params, lent, stream, calls, dev_info>>

\* A kernel: the device it was launched on and that of its handle, and the
\* workspace it will use (count 0: the caller's).
Kernel(task, q) ==
  [call |-> Current, task |-> task,
   device |-> IF backend = "onemkl" THEN DeviceOf[q] ELSE active',
   handle |-> IF Cuda THEN solver[q] ELSE DeviceOf[q],
   count |-> IF OwnWork(host.routine) THEN work[q].count ELSE 0]

\* The vendor's routine: enqueues its kernel, or refuses the arguments.
Launch ==
  /\ host.step = "launch"
  /\ GetParams(host.queue)
  /\ stream' = IF host.legal
               THEN [stream EXCEPT ![host.queue] =
                       Append(@, Kernel("compute", host.queue))]
               ELSE stream
  /\ \/ /\ ~host.legal /\ Guarded(host.routine)
        /\ End("blas::Error")
     \/ /\ host.legal \/ ~Guarded(host.routine)
        /\ Clears(host.routine)
        /\ host' = [host EXCEPT !.step = "clear"]
        /\ UNCHANGED ended
     \/ /\ host.legal \/ ~Guarded(host.routine)
        /\ ~Clears(host.routine)
        /\ End("returned")
  /\ UNCHANGED <<backend, open, solver, work, lent, calls, dev_info>>

\* Mutant: dev_info is cleared at once, by the host.
ClearInfoAtOnce ==
  /\ host.step = "clear"
  /\ active' = Chosen(host.queue)
  /\ dev_info' = [dev_info EXCEPT ![Current] = 0]
  /\ End("returned")
  /\ UNCHANGED <<backend, queueVars, lent, calls, stream>>

\* blas::device_memset( dev_info, 0, 1, queue ), on the same stream.
ClearInfo ==
  /\ host.step = "clear"
  /\ active' = Chosen(host.queue)
  /\ stream' = [stream EXCEPT ![host.queue] = Append(@, Kernel("clear", host.queue))]
  /\ End("returned")
  /\ UNCHANGED <<backend, queueVars, lent, calls, dev_info>>

\* The device finishes the oldest kernel of a stream.
Run(q) ==
  /\ stream[q] # <<>>
  /\ LET k == Head(stream[q])
         routine == calls[k.call].routine
     IN  dev_info' = [dev_info EXCEPT ![k.call] =
           IF k.task = "clear" THEN 0
           ELSE IF Clears(routine) THEN @ ELSE calls[k.call].info]
  /\ stream' = [stream EXCEPT ![q] = Tail(@)]
  /\ UNCHANGED <<backend, active, queueVars, lent, host, calls, ended>>

\* The rest of a call that was begun.
Proceed ==
  Unavailable \/ GetHandle \/ SetDevice \/ QuerySize \/ EnsureWork \/ Launch \/ ClearInfo

Begin ==
  \E q \in Queues :
    \/ Construct(q)
    \/ Destroy(q)
    \/ \E routine \in Routines[backend] :
       \E need \in Lengths(routine) :
         \/ AskSize(q, routine, need)
         \/ \E legal \in {TRUE, backend \notin Careless}, info \in Infos[backend] :
              Call(q, routine, need, legal, info)

Next == Begin \/ Proceed \/ \E q \in Queues : Run(q)

\* The host thread goes on with a call that it began, and a device with the
\* work it has.  No program need make a call.
Spec == Init /\ [][Next]_vars /\ WF_vars(Proceed) /\ \A q \in Queues : WF_vars(Run(q))

-----------------------------------------------------------------------------
(* Properties.                                                              *)

Kernels(q) == {stream[q][i] : i \in DOMAIN stream[q]}

TypeOK ==
  /\ backend \in Backends
  /\ active \in Devices
  /\ open \in [Queues -> BOOLEAN]
  /\ solver \in [Queues -> Devices \cup {NoDevice}]
  /\ params \in [Queues -> BOOLEAN]
  /\ work \in [Queues -> [count : Nat, length : Nat]]
  /\ lent \in [Queues -> Nat]
  /\ host.step \in {"idle", "handle", "device", "query", "workspace", "launch", "clear"}
  /\ host # Idle => host.queue \in Queues /\ host.routine \in Routines[backend]
  /\ \A q \in Queues : \A k \in Kernels(q) :
       k.call \in Made /\ k.task \in {"compute", "clear"} /\ k.device \in Devices
  /\ ended \in [Made -> {"calling", "returned"} \cup Errors]
  /\ dev_info \in [Made -> Nat \cup {Unset}]

\* Whatever queue the thread used before, each kernel is launched with the
\* device of its own queue current, and with a handle created on it.
OnItsDevice ==
  \A q \in Queues : \A k \in Kernels(q) :
    k.device = DeviceOf[q] /\ k.handle = DeviceOf[q]

\* A kernel that is enqueued or running has its workspace: no later call on
\* the queue takes it away or puts a shorter one in its place.
WorkspaceLive ==
  \A q \in Queues : \A k \in Kernels(q) :
    LET c == calls[k.call]
    IN  ~Internal(c.routine) /\ k.task = "compute" =>
          IF OwnWork(c.routine)
          THEN k.count = work[q].count /\ c.need <= work[q].length
          ELSE c.need <= lent[q]

Finished(c) ==
  /\ ended[c] = "returned"
  /\ \A k \in Kernels(calls[c].queue) : k.call # c

\* "This is async. Once finished, the return info is in dev_info on the
\* device."  (Above each of the wrappers.)
InfoDelivered ==
  \A c \in Made : calls[c].legal /\ Finished(c) => dev_info[c] = calls[c].info

\* A call whose arguments the vendor does not accept ends with the error of the
\* vendor's query or launch, which blas_dev_call makes a blas::Error of: it does
\* not return as if it had worked.
IllegalThrows ==
  \A c \in Made : ~calls[c].legal => ended[c] \in {"calling", "blas::Error"}

\* What the test drivers expect instead: assert_throw( lapack::potrf( uplo, -1,
\* dA_tst, lda, d_info, queue ), lapack::Error ).
IllegalAsTested ==
  \A c \in Made : ~calls[c].legal => ended[c] \in {"calling", "lapack::Error"}

\* No handle outlives its queue, and no kernel.
HandlesReleased ==
  \A q \in Queues :
    ~open[q] => solver[q] = NoDevice /\ ~params[q] /\ stream[q] = <<>>

\* A handle is destroyed with the device current on which it was created.
ReleasedWhereMade ==
  [][\A q \in Queues :
       solver[q] # NoDevice /\ solver'[q] = NoDevice => active' = solver[q]]_vars

\* The kernel with which a call's result is there.
Last(k) == k.task = "clear" \/ ~Clears(calls[k.call].routine)

\* The calls of a queue that have this kernel ahead of them.
Waiting(q) == {k.call : k \in {x \in Kernels(q) : Last(x)}}

\* To a caller the wrappers of every backend are InOrderQueue: no call overtakes
\* another of its queue, and none leaves its result in the dev_info of another.
InOrder == INSTANCE InOrderQueue WITH
  asked <- calls,
  answer <- ended,
  waiting <- [q \in Queues |-> Waiting(q)],
  result <- dev_info

KeepsOrder == InOrder!Spec

\* Every call comes back, also when it has to wait for the queue's workspace,
\* and after every legal one dev_info is written.
Completes ==
  \A c \in 1 .. MaxCalls :
    c \in Made ~>
      /\ c \in Made
      /\ \/ ended[c] \in Errors
         \/ ended[c] = "returned" /\ (calls[c].legal => dev_info[c] # Unset)
=============================================================================
