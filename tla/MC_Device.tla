------------------------------ MODULE MC_Device ------------------------------
(***************************************************************************)
(* Two queues on two devices, two calls, every backend.  One more queue    *)
(* would meet nothing new: queues share the current device only, and of    *)
(* the calls before it only the last one decides which device that is.     *)
(***************************************************************************)
EXTENDS DeviceQueue, TLC

CONSTANTS q1, q2, d1, d2

OneEach == (q1 :> d1) @@ (q2 :> d2)

\* With cuSolver and oneMKL the three wrappers with a workspace of the caller
\* take the same steps; one of them stands for all.  With rocSolver getrf goes
\* the way of potrf.
Distinct ==
  [cuda10 |-> {"potrf", "getrf"}, cuda11 |-> {"potrf", "heevd"},
   onemkl |-> {"potrf", "geqrf"}, rocm |-> {"potrf", "geqrf", "heevd"},
   stub |-> {"potrf", "getrf"}]
OnlyPotrf == [b \in Backends |-> {"potrf"}]

\* Factorizations fail on every backend but oneMKL, where the wrapper loses
\* the result: MC_DeviceInfo.
SeenInfos ==
  [b \in {"cuda10", "cuda11", "rocm"} |-> {0, 1}] @@ [b \in {"onemkl", "stub"} |-> {0}]
AllInfos == [b \in Backends |-> {0, 1}]
=============================================================================
