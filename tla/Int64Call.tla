----------------------------- MODULE Int64Call -----------------------------
(***************************************************************************)
(* What LAPACK++ promises of one call of a LAPACK routine: the caller      *)
(* passes int64_t integers and int64_t arrays and either gets exactly what *)
(* LAPACK computed, in the cells the documentation gives it, or an         *)
(* exception and its memory as it was.  The 32-bit copies, the workspace   *)
(* queries and the narrowing that HostCall goes through do not show.       *)
(***************************************************************************)
EXTENDS Integers

CONSTANTS
  Span,     \* cells of each caller array that are looked at
  Statuses  \* values of info that a call LAPACK accepted may return

VARIABLES
  call,     \* the call: its plan says how long the documented arrays are
  memory,   \* the caller's arrays: who wrote each cell last
  outcome   \* "pending", "returned" or "thrown"

vars == <<call, memory, outcome>>

Cells == 0 .. Span - 1
Arrays == DOMAIN call.plan.ints

Init ==
  /\ outcome = "pending"
  /\ memory = [a \in Arrays |-> [i \in Cells |-> "caller"]]

\* LAPACK documents these cells as undefined: eigenvalues number 1 to info,
\* which did not converge.
Undefined(a, i, info) == call.plan.ints[a].partial /\ i < info

\* Every result is in its cell and no other cell was written.
Answers(m, f, info) ==
  \A a \in Arrays, i \in Cells :
    \/ Undefined(a, i, info)
    \/ m[a][i] = IF i < call.plan.ints[a].fill[f] THEN "lapack" ELSE "caller"

Return ==
  /\ outcome = "pending"
  /\ outcome' = "returned"
  /\ \E f \in call.plan.found, info \in Statuses : Answers(memory', f, info)
  /\ UNCHANGED call

Throw ==
  /\ outcome = "pending"
  /\ outcome' = "thrown"
  /\ UNCHANGED <<call, memory>>

Next == Return \/ Throw

Spec == Init /\ [][Next]_vars
=============================================================================
