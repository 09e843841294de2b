--------------------------- MODULE HostCallProofs ---------------------------
(***************************************************************************)
(* Proofs about HostCall, for every set of calls: any routine, any         *)
(* arguments, any matrix size, any width of lapack_int.  A theorem          *)
(* supposes of the plan of a call that part of Sound which it needs.       *)
(***************************************************************************)
EXTENDS HostCall, TLAPS

-----------------------------------------------------------------------------
(* Integers that pass through lapack_int.                                  *)

LEMMA NarrowType == ASSUME NEW x \in Int PROVE Narrow(x) \in Int
  BY NarrowMaxAssumption DEF Narrow

\* A conversion to lapack_int keeps what lapack_int can hold.
LEMMA NarrowKeeps ==
  ASSUME NEW x \in -NarrowMax .. NarrowMax PROVE Narrow(x) = x
<1> DEFINE M == 2 * NarrowMax + 2
           y == x + NarrowMax + 1
<1>1. y \in 0 .. M - 1 /\ M \in Nat \ {0}
  BY NarrowMaxAssumption
<1>2. \A u \in Int, v \in Nat \ {0} : u \in 0 .. v - 1 => u % v = u
  OBVIOUS
<1>3. y % M = y
  BY <1>1, <1>2
<1> QED
  BY <1>3, NarrowMaxAssumption DEF Narrow

\* A workspace length that goes through a real number loses at most one, and
\* nothing if it is small.
LEMMA StoredNear ==
  ASSUME NEW x \in Int, x >= -1, NEW s \in Stored(x)
  PROVE  s \in Int /\ s >= x - 1 /\ (x <= Exact => s = x) /\ (x >= 0 => s >= 0)
<1>1. CASE x <= Exact
  BY <1>1, WorkAssumption DEF Stored
<1>2. CASE ~(x <= Exact)
  <2>1. s \in {2 * (x \div 2), 2 * ((x + 1) \div 2)} /\ x > 0
    BY <1>2, WorkAssumption DEF Stored
  <2> QED
    BY <1>2, <2>1
<1> QED
  BY <1>1, <1>2

LEMMA AnswersNear ==
  ASSUME NEW least \in Int, least >= -1, NEW s \in Answers(least)
  PROVE  s \in Int /\ (least <= Exact => s >= least) /\ (least >= 0 => s >= 0)
<1>1. PICK x \in least .. Longest : s \in Stored(x)
  BY DEF Answers
<1>2. x \in Int /\ x >= least /\ x >= -1
  BY WorkAssumption
<1> QED
  BY <1>1, <1>2, StoredNear, WorkAssumption

\* The workspace lengths that come out of a query are natural numbers and,
\* the precision permitting, long enough.
LEMMA LengthsSuffice ==
  ASSUME call \in Calls, NEW w \in Lengths
  PROVE  w \in Nat /\ (call.need <= Exact => w >= call.need)
<1>1. call.need \in Nat
  BY CallsAssumption
<1>2. CASE plan.query = "one"
  BY <1>1, <1>2, AnswersNear, w \in Answers(call.need) DEF Lengths
<1>3. CASE plan.query = "plus"
  <2>1. PICK s \in Answers(call.need - 1) : w = s + 1
    BY <1>3 DEF Lengths
  <2>2. s \in Int /\ (call.need - 1 <= Exact => s >= call.need - 1)
    BY <1>1, AnswersNear
  <2>3. s >= -1
    BY <1>1, <2>2, AnswersNear, WorkAssumption
  <2> QED
    BY <1>1, <2>1, <2>2, <2>3, WorkAssumption
<1>4. CASE plan.query \notin {"one", "plus"}
  <2>1. PICK s \in Answers(0), t \in Stored(call.need) :
          w = IF s >= t THEN s ELSE t
    BY <1>4 DEF Lengths
  <2>2. s \in Nat
    BY AnswersNear, WorkAssumption
  <2>3. t \in Nat /\ (call.need <= Exact => t = call.need)
    BY <1>1, StoredNear
  <2> QED
    BY <1>1, <2>1, <2>2, <2>3
<1> QED
  BY <1>2, <1>3, <1>4

-----------------------------------------------------------------------------
(* Types.                                                                  *)

Typed == call \in Calls /\ TypeOK

LEMMA TypedInit == Init => Typed
<1> SUFFICES ASSUME Init PROVE Typed
  OBVIOUS
<1> USE DEF Init
<1>1. passed \in [Names -> Int]
  OBVIOUS
<1>2. local \in [Arrays -> [Cells -> Tags]] /\ user \in [Arrays -> [Cells -> Tags]]
  BY DEF Tags
<1>3. pc \in Steps /\ lwork \in Nat /\ info \in Statuses \cup {-1}
  BY StatusesAssumption DEF Steps
<1> QED
  BY <1>1, <1>2, <1>3 DEF Typed, TypeOK

LEMMA TypedNext == Typed /\ [Next]_vars => Typed'
<1> SUFFICES ASSUME Typed, [Next]_vars PROVE Typed'
  OBVIOUS
<1> USE DEF Typed, TypeOK
<1>1. call' = call /\ Names' = Names /\ Arrays' = Arrays
  BY DEF Next, CheckOverflow, Convert, Query, Allocate, ComputeRefused,
         ComputeAstray, Compute, CopyOut, vars, Names, Arrays, plan
<1>2. CASE CheckOverflow
  BY <1>1, <1>2 DEF CheckOverflow, Faulted, Steps, Ended, Thrown
<1>3. CASE Convert
  <2>1. \A x \in Names : Narrow(plan.args[x]) \in Int
    BY NarrowType, CallsAssumption DEF Names, plan
  <2>2. passed' \in [Names -> Int]
    BY <1>3, <2>1 DEF Convert
  <2>3. \A a \in Arrays, i \in Cells : CopiedIn(a, i) \in Tags
    BY DEF CopiedIn, Tags
  <2>4. local' \in [Arrays -> [Cells -> Tags]]
    BY <1>3, <2>3 DEF Convert
  <2> QED
    BY <1>1, <1>3, <2>2, <2>4 DEF Convert, Steps, Ended, Thrown
<1>4. CASE Query
  <2>1. lwork' \in Nat
    BY <1>4, LengthsSuffice DEF Query
  <2> QED
    BY <1>1, <1>4, <2>1 DEF Query, Steps, Ended, Thrown
<1>5. CASE Allocate
  BY <1>1, <1>5 DEF Allocate, Steps, Ended, Thrown
<1>6. CASE ComputeRefused
  <2>1. user' \in [Arrays -> [Cells -> Tags]]
    BY <1>6 DEF ComputeRefused, Tags
  <2> QED
    BY <1>1, <1>6, <2>1 DEF ComputeRefused, Steps, Ended, Thrown
<1>7. CASE Compute
  <2>1. info' \in Statuses \cup {-1}
    BY <1>7, StatusesAssumption DEF Compute
  <2>2. local' \in [Arrays -> [Cells -> Tags]]
    BY <1>7 DEF Compute, Tags
  <2>3. user' \in [Arrays -> [Cells -> Tags]]
    BY <1>7 DEF Compute, Tags
  <2> QED
    BY <1>1, <1>7, <2>1, <2>2, <2>3 DEF Compute, Steps, Ended, Thrown
<1>8. CASE CopyOut
  <2>1. \A a \in Arrays, i \in Cells : CopiedOut(a, i) \in Tags
    BY DEF CopiedOut, Tags
  <2>2. user' \in [Arrays -> [Cells -> Tags]]
    BY <1>8, <2>1 DEF CopyOut
  <2> QED
    BY <1>1, <1>8, <2>2 DEF CopyOut, Steps, Ended, Thrown
<1>9. CASE ComputeAstray
  BY <1>1, <1>9 DEF ComputeAstray, Steps, Ended, Thrown
<1>10. CASE UNCHANGED vars
  BY <1>1, <1>10 DEF vars
<1> QED
  BY <1>2, <1>3, <1>4, <1>5, <1>6, <1>7, <1>8, <1>9, <1>10 DEF Next

\* Every state of a call has the types that TypeOK gives, whatever the calls.
THEOREM TypeCorrect == Spec => []TypeOK
<1>1. Typed => TypeOK
  BY DEF Typed
<1> QED
  BY <1>1, TypedInit, TypedNext, PTL DEF Spec

-----------------------------------------------------------------------------
(* The inductive invariant: what each phase of a call has established.     *)

\* The overflow check let the call through.
Accepted ==
  pc \notin {"check", "overflow", "aborted"} =>
    Unguarded \/ Wide \/ \A x \in plan.checked :
              plan.args[x] \in -NarrowMax .. NarrowMax \cup {WideMin}

\* The integers that LAPACK is given.  A call that lost part of one, or of its
\* workspace, and that LAPACK does not refuse is astray: LAPACK computes, or
\* answers a query, for what was meant.
Converted ==
  /\ pc \in {"query", "allocate", "compute", "copyout", "done", "error", "astray"} =>
       passed = [x \in Names |-> Narrow(plan.args[x])]
  /\ pc = "astray" => Strayed
  /\ pc \in {"copyout", "done"} => ~Strayed
  /\ pc \in {"allocate", "compute"} /\ plan.query # "none" => ~Truncated

\* A query was answered because LAPACK accepts the integers, and its answer
\* is long enough if the precision permits.
Answered ==
  /\ pc \in {"check", "convert", "query", "overflow", "aborted"} => lwork = 0
  /\ plan.query = "none" => lwork = 0 /\ pc # "query"
  /\ pc \in {"allocate", "compute"} /\ plan.query # "none" =>
       ~Refused /\ (call.need <= Exact => lwork >= call.need)
  /\ pc \in {"copyout", "done"} => ~Hopeless /\ info \in Statuses
  /\ QuerySuffices

\* A call that did not get through has something wrong with it.
Blamed ==
  /\ pc \in {"overflow", "aborted"} =>
       \/ plan.invalid
       \/ /\ ~Wide
          /\ \E x \in plan.checked : plan.args[x] \notin -NarrowMax .. NarrowMax
  /\ pc = "length" => WorkLength < 0 \/ BadLength
  /\ pc = "error" => Hopeless \/ call.need > Exact

\* A cell of a local array after the copies in, and after LAPACK.
CellIn(a, i) ==
  IF Direct(a) \/ i >= plan.ints[a].local THEN "none"
  ELSE IF i < plan.ints[a].in THEN "caller" ELSE "raw"
CellComputed(a, i) ==
  IF Direct(a) \/ ~Assigns(a, i, info) THEN CellIn(a, i)
  ELSE IF i < plan.ints[a].local THEN "lapack" ELSE "overrun"

LocalCell(a, i) ==
  /\ pc \in {"check", "convert", "overflow", "aborted"} => local[a][i] = "none"
  /\ pc \in {"query", "allocate", "compute", "error", "astray"} =>
       local[a][i] = CellIn(a, i)
  /\ pc \in {"copyout", "done"} => local[a][i] = CellComputed(a, i)
  /\ pc \in {"length", "memory"} => local[a][i] \in {"none", CellIn(a, i)}

\* A cell of a caller's array.  If it was written though the call throws, then by
\* an eager merge, and LAPACK refused the call although it answered the query.
UserCell(a, i) ==
  /\ pc \notin {"copyout", "done", "error"} => user[a][i] = "caller"
  /\ pc = "error" => user[a][i] = "caller" \/
       /\ plan.ints[a].eager /\ ~Direct(a) /\ Back(a, i)
       /\ plan.query # "none" => ~Stops /\ call.need > Exact
  /\ pc = "copyout" =>
       user[a][i] = IF Direct(a) /\ Assigns(a, i, info) THEN "lapack" ELSE "caller"
  /\ pc = "done" =>
       user[a][i] = IF Direct(a)
                    THEN IF Assigns(a, i, info) THEN "lapack" ELSE "caller"
                    ELSE IF i < plan.ints[a].out[call.found]
                         THEN CopiedOut(a, i) ELSE "caller"

Inductive ==
  /\ Typed
  /\ Accepted
  /\ Converted
  /\ Answered
  /\ Blamed
  /\ \A a \in Arrays, i \in Cells : LocalCell(a, i) /\ UserCell(a, i)

LEMMA InductiveInit == Init => Inductive
<1> SUFFICES ASSUME Init PROVE Inductive
  OBVIOUS
<1>1. Typed
  BY TypedInit
<1>2. Accepted /\ Converted
  BY DEF Init, Accepted, Converted
<1>3. Answered /\ Blamed
  BY DEF Init, Answered, QuerySuffices, Blamed
<1>4. \A a \in Arrays, i \in Cells : LocalCell(a, i) /\ UserCell(a, i)
  BY DEF Init, LocalCell, UserCell
<1> QED
  BY <1>1, <1>2, <1>3, <1>4 DEF Inductive

\* Nothing that depends on the call alone changes.
LEMMA CallKept ==
  ASSUME [Next]_vars
  PROVE  /\ call' = call /\ plan' = plan /\ Names' = Names /\ Arrays' = Arrays
         /\ Wide' = Wide /\ (Unguarded <=> Unguarded')
         /\ (Truncated <=> Truncated') /\ (Hopeless <=> Hopeless')
         /\ WorkLength' = WorkLength /\ (Strayed <=> Strayed')
         /\ (Legal <=> Legal') /\ (BadLength <=> BadLength')
         /\ (Stops <=> Stops') /\ \A a, i : Back(a, i) <=> Back(a, i)'
         /\ \A x : Narrow(x)' = Narrow(x)
         /\ \A a : Direct(a)' = Direct(a)
         /\ \A a, i : CellIn(a, i)' = CellIn(a, i)
<1>1. call' = call
  BY DEF Next, CheckOverflow, Convert, Query, Allocate, ComputeRefused,
         ComputeAstray, Compute, CopyOut, vars
<1>2. /\ plan' = plan /\ Names' = Names /\ Arrays' = Arrays /\ Wide' = Wide
      /\ Unguarded <=> Unguarded'
      /\ \A a : Direct(a)' = Direct(a)
  BY <1>1 DEF plan, Names, Arrays, Wide, Unguarded, Direct
<1>3. \A x : Narrow(x)' = Narrow(x)
  BY <1>1 DEF Narrow, Wide
<1>4. \A a, i : CellIn(a, i)' = CellIn(a, i)
  BY <1>1 DEF CellIn, Direct, Wide, plan
<1>5. (Truncated <=> Truncated') /\ (Hopeless <=> Hopeless')
  BY <1>1 DEF Truncated, Hopeless, plan, Names, Narrow, Wide
<1>6. Legal <=> Legal'
  BY <1>1 DEF Legal, plan, Names, Wide
<1>7. BadLength <=> BadLength'
  BY <1>1 DEF BadLength, plan, Arrays, Direct, Wide
<1>8. (Stops <=> Stops') /\ \A a, i : Back(a, i) <=> Back(a, i)'
  BY <1>1, <1>5 DEF Stops, Back, plan
<1>9. WorkLength' = WorkLength /\ (Strayed <=> Strayed')
  BY <1>1, <1>5 DEF WorkLength, Strayed, plan, Narrow, Wide
<1> QED
  BY <1>1, <1>2, <1>3, <1>4, <1>5, <1>6, <1>7, <1>8, <1>9

\* Neither does what a plan must be like.
LEMMA SoundKept ==
  ASSUME [Next]_vars
  PROVE  /\ (Checked <=> Checked') /\ (Roomy <=> Roomy')
         /\ \A a : /\ (ReadsWithin(a) <=> ReadsWithin(a)')
                   /\ (HasRoom(a) <=> HasRoom(a)')
                   /\ (EndsWithin(a) <=> EndsWithin(a)')
                   /\ (GivesBack(a) <=> GivesBack(a)')
                   /\ (Asked(a) <=> Asked(a)')
                   /\ (Settled(a) <=> Settled(a)')
         /\ Arrays' = Arrays /\ (Sound <=> Sound')
<1>1. call' = call /\ Arrays' = Arrays
  BY CallKept
<1>2. Checked <=> Checked'
  BY <1>1 DEF Checked, WorkLength, plan, Names, Narrow, Wide
<1>3. Roomy <=> Roomy'
  BY <1>1, CallKept DEF Roomy, plan, Arrays, Direct, Wide
<1>4. ASSUME NEW a
      PROVE  /\ (ReadsWithin(a) <=> ReadsWithin(a)')
             /\ (HasRoom(a) <=> HasRoom(a)')
             /\ (EndsWithin(a) <=> EndsWithin(a)')
             /\ (GivesBack(a) <=> GivesBack(a)')
             /\ (Asked(a) <=> Asked(a)') /\ (Settled(a) <=> Settled(a)')
  <2>1. /\ plan' = plan /\ (Direct(a) <=> Direct(a)') /\ (Stops <=> Stops')
        /\ \A i : /\ (Given(a, i) <=> Given(a, i)') /\ (Filled(a, i) <=> Filled(a, i)')
                  /\ (Back(a, i) <=> Back(a, i)')
    BY <1>1, CallKept DEF Given, Filled, Back
  <2>2. (ReadsWithin(a) <=> ReadsWithin(a)')
    BY <2>1 DEF ReadsWithin
  <2>3. (HasRoom(a) <=> HasRoom(a)')
    BY <2>1 DEF HasRoom
  <2>4. (EndsWithin(a) <=> EndsWithin(a)')
    BY <2>1 DEF EndsWithin
  <2>5. (GivesBack(a) <=> GivesBack(a)')
    BY <2>1 DEF GivesBack
  <2>6. (Asked(a) <=> Asked(a)') /\ (Settled(a) <=> Settled(a)')
    BY <1>1, <2>1 DEF Asked, Settled
  <2> QED
    BY <2>2, <2>3, <2>4, <2>5, <2>6
<1> QED
  BY <1>1, <1>2, <1>3, <1>4 DEF Sound, Fits

LEMMA InductiveNext == Inductive /\ [Next]_vars => Inductive'
<1> SUFFICES ASSUME Inductive, [Next]_vars PROVE Inductive'
  OBVIOUS
<1> USE DEF Inductive
<1>1. Typed'
  BY TypedNext
<1> SUFFICES /\ Accepted' /\ Converted' /\ Answered' /\ Blamed'
             /\ \A a \in Arrays, i \in Cells : LocalCell(a, i)' /\ UserCell(a, i)'
  BY <1>1, CallKept
<1>2. CASE CheckOverflow
  <2> USE <1>2 DEF CheckOverflow
  <2>1. Accepted'
    <3> SUFFICES ASSUME pc' = "convert", ~Unguarded, ~Wide, NEW x \in plan.checked,
                        plan.args[x] # WideMin
                 PROVE  plan.args[x] \in -NarrowMax .. NarrowMax
      BY CallKept DEF Accepted, Faulted
    <3>1. PICK y \in AbsValues(plan.args[x]) : y <= NarrowMax
      BY DEF Faulted
    <3>2. plan.args[x] \in Int
      BY CallsAssumption DEF Typed, plan
    <3> QED
      BY <3>1, <3>2, NarrowMaxAssumption DEF AbsValues
  <2>2. Converted' /\ Answered'
    BY CallKept DEF Converted, Answered, QuerySuffices, Faulted
  <2>3. \A a \in Arrays, i \in Cells : LocalCell(a, i)' /\ UserCell(a, i)'
    BY CallKept DEF LocalCell, UserCell, Faulted
  <2>4. Blamed'
    <3> SUFFICES ASSUME pc' # "convert", ~plan.invalid, ~Wide
                 PROVE  \E x \in plan.checked :
                          plan.args[x] \notin -NarrowMax .. NarrowMax
      BY CallKept DEF Blamed, Faulted
    <3>1. PICK x \in plan.checked : \E y \in AbsValues(plan.args[x]) : y > NarrowMax
      BY DEF Faulted
    <3>2. plan.args[x] \in Int
      BY CallsAssumption DEF Typed, plan
    <3> QED
      BY <3>1, <3>2, NarrowMaxAssumption, WideMinAssumption DEF AbsValues
  <2> QED
    BY <2>1, <2>2, <2>3, <2>4
<1>3. CASE Convert
  <2> USE <1>3 DEF Convert
  <2>1. Accepted' /\ Converted'
    BY CallKept DEF Accepted, Converted
  <2>2. Answered'
    BY CallKept DEF Answered, QuerySuffices
  <2>3. \A a \in Arrays, i \in Cells : UserCell(a, i)'
    BY CallKept DEF UserCell
  <2>4. ASSUME NEW a \in Arrays, NEW i \in Cells
        PROVE  LocalCell(a, i)'
    <3>1. CopiedIn(a, i) = CellIn(a, i)
      BY DEF CopiedIn, CellIn, UserCell
    <3> QED
      BY <3>1, CallKept DEF LocalCell
  <2>5. Blamed'
    BY CallKept DEF Blamed
  <2> QED
    BY <2>1, <2>2, <2>3, <2>4, <2>5
<1>4. CASE Query
  <2> USE <1>4 DEF Query
  <2>1. Accepted' /\ Converted'
    BY CallKept DEF Accepted, Converted, Strayed
  <2>2. Answered'
    <3>1. lwork' \in Lengths =>
            lwork' \in Nat /\ (call.need <= Exact => lwork' >= call.need)
      BY LengthsSuffice DEF Typed
    <3>2. plan.query # "none"
      BY DEF Answered
    <3> QED
      BY <3>1, <3>2, CallKept DEF Answered, QuerySuffices, Refused
  <2>3. \A a \in Arrays, i \in Cells : LocalCell(a, i)' /\ UserCell(a, i)'
    BY CallKept DEF LocalCell, UserCell
  <2>4. Blamed'
    <3>1. Refused => Hopeless
      BY DEF Converted, Refused, Hopeless
    <3> QED
      BY <3>1, CallKept DEF Blamed
  <2> QED
    BY <2>1, <2>2, <2>3, <2>4
<1>5. CASE Allocate
  <2> USE <1>5 DEF Allocate
  <2>1. Accepted' /\ Converted'
    BY CallKept DEF Accepted, Converted
  <2>2. Answered'
    BY CallKept DEF Answered, QuerySuffices, Refused
  <2>3. \A a \in Arrays, i \in Cells : LocalCell(a, i)' /\ UserCell(a, i)'
    BY CallKept DEF LocalCell, UserCell
  <2>4. Blamed'
    BY CallKept DEF Blamed
  <2> QED
    BY <2>1, <2>2, <2>3, <2>4
<1>6. CASE ComputeRefused
  <2> USE <1>6 DEF ComputeRefused
  <2>1. Accepted' /\ Converted'
    BY CallKept DEF Accepted, Converted
  <2>2. Answered'
    <3>1. plan.query # "none" => call.need > Exact
      BY CallsAssumption, WorkAssumption DEF Answered, TooShort, Typed, TypeOK
    <3> QED
      BY <3>1, CallKept DEF Answered, QuerySuffices
  <2>3. \A a \in Arrays, i \in Cells : LocalCell(a, i)'
    BY CallKept DEF LocalCell
  <2>4. ASSUME NEW a \in Arrays, NEW i \in Cells
        PROVE  UserCell(a, i)'
    <3>1. plan.query # "none" => call.need > Exact /\ ~Refused
      BY CallsAssumption, WorkAssumption DEF Answered, TooShort, Typed, TypeOK
    <3>2. (plan.query # "none" => ~Truncated) /\ (Hopeless => Refused)
      BY DEF Converted, Refused, Hopeless
    <3>3. user'[a][i] = "caller" \/ (plan.ints[a].eager /\ ~Direct(a) /\ Back(a, i))
      BY DEF UserCell, Back
    <3> QED
      BY <3>1, <3>2, <3>3, CallKept DEF UserCell, Stops
  <2>5. Blamed'
    <3>1. Refused => Hopeless
      BY DEF Converted, Refused, Hopeless
    <3>2. TooShort /\ ~Refused => call.need > Exact
      BY CallsAssumption, WorkAssumption DEF Answered, TooShort, Typed, TypeOK
    <3> QED
      BY <3>1, <3>2, CallKept DEF Blamed
  <2> QED
    BY <2>1, <2>2, <2>3, <2>4, <2>5
<1>7. CASE Compute
  <2> USE <1>7 DEF Compute
  <2>1. Accepted' /\ Converted'
    BY CallKept DEF Accepted, Converted
  <2>2. Answered'
    <3>1. ~Hopeless /\ info' \in Statuses
      BY StatusesAssumption DEF Hopeless, Refused, Converted
    <3> QED
      BY <3>1, CallKept DEF Answered, QuerySuffices
  <2>3. ASSUME NEW a \in Arrays, NEW i \in Cells
        PROVE  LocalCell(a, i)' /\ UserCell(a, i)'
    <3>1. Assigns(a, i, info)' = Assigns(a, i, info')
      BY CallKept DEF Assigns
    <3>2. local[a][i] = CellIn(a, i) /\ user[a][i] = "caller"
      BY DEF LocalCell, UserCell
    <3>3. LocalCell(a, i)'
      BY <3>1, <3>2, CallKept DEF LocalCell, CellComputed
    <3>4. UserCell(a, i)'
      BY <3>1, <3>2, CallKept DEF UserCell
    <3> QED
      BY <3>3, <3>4
  <2>4. Blamed'
    BY CallKept DEF Blamed
  <2> QED
    BY <2>1, <2>2, <2>3, <2>4
<1>8. CASE CopyOut
  <2> USE <1>8 DEF CopyOut
  <2>1. Accepted' /\ Converted'
    BY CallKept DEF Accepted, Converted
  <2>2. Answered'
    BY CallKept DEF Answered, QuerySuffices
  <2>3. ASSUME NEW a \in Arrays, NEW i \in Cells
        PROVE  LocalCell(a, i)' /\ UserCell(a, i)'
    <3>1. /\ Assigns(a, i, info)' = Assigns(a, i, info)
          /\ CopiedOut(a, i)' = CopiedOut(a, i)
      BY CallKept DEF Assigns, CopiedOut
    <3>2. LocalCell(a, i)'
      BY <3>1, CallKept DEF LocalCell, CellComputed
    <3>3. UserCell(a, i)'
      BY <3>1, CallKept DEF UserCell
    <3> QED
      BY <3>2, <3>3
  <2>4. Blamed'
    BY CallKept DEF Blamed
  <2> QED
    BY <2>1, <2>2, <2>3, <2>4
<1>9. CASE ComputeAstray
  <2> USE <1>9 DEF ComputeAstray
  <2>1. Accepted' /\ Converted'
    BY CallKept DEF Accepted, Converted
  <2>2. Answered' /\ Blamed'
    BY CallKept DEF Answered, QuerySuffices, Blamed
  <2>3. \A a \in Arrays, i \in Cells : LocalCell(a, i)' /\ UserCell(a, i)'
    BY CallKept DEF LocalCell, UserCell
  <2> QED
    BY <2>1, <2>2, <2>3
<1>10. CASE UNCHANGED vars
  <2> USE <1>10 DEF vars
  <2>1. Accepted' /\ Converted' /\ Answered' /\ Blamed'
    BY CallKept DEF Accepted, Converted, Answered, QuerySuffices, Refused, Blamed
  <2>2. \A a \in Arrays, i \in Cells : LocalCell(a, i)' /\ UserCell(a, i)'
    BY CallKept DEF LocalCell, UserCell, CellComputed, CopiedOut, Assigns
  <2> QED
    BY <2>1, <2>2
<1> QED
  BY <1>2, <1>3, <1>4, <1>5, <1>6, <1>7, <1>8, <1>9, <1>10 DEF Next

LEMMA AlwaysInductive == Spec => []Inductive
  BY InductiveInit, InductiveNext, PTL DEF Spec

-----------------------------------------------------------------------------
(* Safety, each property for every call whose plan has what it takes.      *)

LEMMA WholeIntegers == Inductive /\ Checked => NoTruncation
<1> SUFFICES ASSUME Inductive, Checked, ~Unguarded, \A x \in Names : plan.args[x] # WideMin,
                    pc \in {"copyout", "done", "error", "astray"}
             PROVE  (\A x \in Names : passed[x] = plan.args[x]) /\ WorkLength = plan.work
  BY DEF NoTruncation
<1> USE DEF Inductive
<1>0. WorkLength = plan.work
  BY CallsAssumption DEF Checked, Accepted, Typed, Names, plan, WorkLength, Narrow
<1> SUFFICES ASSUME NEW x \in Names PROVE passed[x] = plan.args[x]
  BY <1>0
<1>1. passed[x] = Narrow(plan.args[x])
  BY DEF Converted
<1>2. CASE Wide
  BY <1>1, <1>2 DEF Narrow
<1>3. CASE ~Wide
  <2>1. \A y \in plan.checked : plan.args[y] \in -NarrowMax .. NarrowMax
    BY <1>3, CallsAssumption DEF Accepted, Typed, Names, plan
  <2>2. CASE x \in plan.checked
    BY <1>1, <2>1, <2>2, NarrowKeeps
  <2>3. CASE x \notin plan.checked
    BY <1>1, <2>1, <2>3 DEF Checked
  <2> QED
    BY <2>2, <2>3
<1> QED
  BY <1>2, <1>3

\* LAPACK never gets an integer, or a workspace, that lost its upper half.
THEOREM NeverTruncates == Spec /\ Checked => []NoTruncation
<1>1. Checked /\ [Next]_vars => Checked'
  BY SoundKept
<1> QED
  BY WholeIntegers, <1>1, AlwaysInductive, PTL DEF Spec

\* Nothing is copied in, filled or copied back past the end of a caller's array.
Inside == \A a \in Arrays : ReadsWithin(a) /\ EndsWithin(a) /\ Asked(a)

LEMMA WithinArrays == Inductive /\ Inside => InBounds
<1> SUFFICES ASSUME Inductive, Inside, NEW a \in Arrays, NEW i \in Cells,
                    i >= plan.ints[a].doc[call.found]
             PROVE  user[a][i] = "caller" /\ local[a][i] # "caller"
  BY DEF InBounds
<1> DEFINE array == plan.ints[a]
<1>1. /\ LocalCell(a, i) /\ UserCell(a, i)
      /\ ReadsWithin(a) /\ EndsWithin(a) /\ Asked(a)
  BY DEF Inductive, Inside
<1>2. /\ {array.in, array.local, array.doc[call.found],
          array.fill[call.found], array.out[call.found]} \subseteq Int
      /\ i \in Int
  BY CallsAssumption, SpanAssumption DEF Inductive, Typed, plan, Arrays, Cells
<1>3. ~Given(a, i) /\ (Direct(a) \/ ~(i < array.in))
  BY <1>1, <1>2 DEF ReadsWithin, Given
<1>4. CellIn(a, i) # "caller"
  BY <1>3 DEF CellIn
<1>5. local[a][i] # "caller"
  BY <1>1, <1>4 DEF LocalCell, CellComputed, Inductive, Typed, TypeOK, Steps, Ended, Thrown
<1>6. ~Stops => ~Filled(a, i) /\ (Direct(a) \/ ~Back(a, i))
  BY <1>1, <1>3 DEF EndsWithin
<1>7. user[a][i] = "caller"
  <2>1. CASE pc \notin {"copyout", "done", "error"}
    BY <1>1, <2>1 DEF UserCell
  <2>2. CASE pc \in {"copyout", "done"}
    <3>1. ~Stops
      BY <2>2 DEF Inductive, Answered, Converted, Stops, Strayed
    <3> QED
      BY <1>1, <1>6, <2>2, <3>1 DEF UserCell, Assigns, Filled, Back
  <2>3. CASE pc = "error"
    BY <1>1, <1>6, <2>3 DEF UserCell, Asked
  <2> QED
    BY <2>1, <2>2, <2>3
<1> QED
  BY <1>5, <1>7

\* A caller's array is touched only within its documented length.
THEOREM StaysInBounds == Spec /\ Inside => []InBounds
<1>1. Inside /\ [Next]_vars => Inside'
  BY SoundKept DEF Inside
<1> QED
  BY WithinArrays, <1>1, AlwaysInductive, PTL DEF Spec

\* What is in a caller's array when the call returns.
Arrived ==
  \A a \in Arrays, i \in Cells :
    /\ Assigns(a, i, info) => user[a][i] = "lapack"
    /\ ~(i < plan.ints[a].fill[call.found]) => user[a][i] = "caller"

Faithful == \A a \in Arrays : GivesBack(a)

LEMMA CellDelivered == Inductive /\ Faithful /\ pc = "done" => Arrived
<1> SUFFICES ASSUME Inductive, Faithful, pc = "done", NEW a \in Arrays, NEW i \in Cells
    PROVE  /\ Assigns(a, i, info) => user[a][i] = "lapack"
           /\ ~(i < plan.ints[a].fill[call.found]) => user[a][i] = "caller"
  BY DEF Arrived
<1> DEFINE array == plan.ints[a]
           filled == i < array.fill[call.found]
           back == i < array.out[call.found]
<1>1. /\ LocalCell(a, i) /\ UserCell(a, i) /\ i \in Nat
      /\ Direct(a) \/ /\ filled => back /\ ~array.lossy
                      /\ back => i < array.local
                      /\ back => filled \/ i < array.in
  BY DEF Inductive, Faithful, GivesBack, Stops, Filled, Back, Cells, Answered, Converted,
         Strayed
<1>2. {array.in, array.local, array.doc[call.found],
       array.fill[call.found], array.out[call.found]} \subseteq Int
  BY CallsAssumption DEF Inductive, Typed, plan, Arrays
<1>3. CASE Direct(a)
  BY <1>1, <1>3 DEF UserCell, Assigns
<1>4. CASE ~Direct(a) /\ Assigns(a, i, info)
  <2>1. filled /\ back /\ i < array.local /\ ~array.lossy
    BY <1>1, <1>4 DEF Assigns
  <2>2. local[a][i] = "lapack"
    BY <1>1, <1>4, <2>1 DEF LocalCell, CellComputed
  <2> QED
    BY <1>1, <1>4, <2>1, <2>2 DEF UserCell, CopiedOut
<1>5. CASE ~Direct(a) /\ ~Assigns(a, i, info)
  <2>1. CASE back /\ ~filled
    <3>1. i < array.in /\ i < array.local
      BY <1>1, <1>5, <2>1
    <3>2. local[a][i] = "caller"
      BY <1>1, <1>2, <1>5, <3>1 DEF LocalCell, CellComputed, CellIn
    <3> QED
      BY <1>1, <1>5, <2>1, <3>2 DEF UserCell, CopiedOut
  <2>2. CASE ~back
    BY <1>1, <1>5, <2>2 DEF UserCell
  <2> QED
    BY <1>5, <2>1, <2>2
<1> QED
  BY <1>3, <1>4, <1>5

LEMMA ResultsArrive == Inductive /\ Faithful => Delivered
<1> SUFFICES ASSUME Inductive, Faithful, pc = "done", NEW a \in Arrays, NEW i \in Cells,
                    info = 0, ~Assigns(a, i, info)
             PROVE  user[a][i] = "caller"
  BY CellDelivered DEF Delivered, Arrived
<1>1. i \in Nat
  BY DEF Cells
<1>2. ~(i < plan.ints[a].fill[call.found])
  BY <1>1 DEF Assigns
<1> QED
  BY <1>2, CellDelivered DEF Arrived

\* A call that returns delivers LAPACK's results and nothing else.
THEOREM Delivers == Spec /\ Faithful => []Delivered
<1>1. Faithful /\ [Next]_vars => Faithful'
  BY SoundKept DEF Faithful
<1> QED
  BY ResultsArrive, <1>1, AlwaysInductive, PTL DEF Spec

\* No merge before info is looked at can precede a failure.
Patient == \A a \in Arrays : Settled(a)

LEMMA ThrownClean == Inductive /\ Patient => ThrowsClean
<1> SUFFICES ASSUME Inductive, Patient, pc \in Thrown, NEW a \in Arrays, NEW i \in Cells
             PROVE  user[a][i] = "caller"
  BY DEF ThrowsClean
<1>1. UserCell(a, i) /\ Settled(a) /\ call.need \in Int
  BY CallsAssumption DEF Inductive, Typed, Patient
<1> QED
  BY <1>1, WorkAssumption DEF UserCell, Settled, Asked, Thrown

\* A call that throws leaves the caller's arrays alone.
THEOREM ThrowsCleanly == Spec /\ Patient => []ThrowsClean
<1>1. Patient /\ [Next]_vars => Patient'
  BY SoundKept DEF Patient
<1> QED
  BY <1>1, ThrownClean, AlwaysInductive, PTL DEF Spec

\* Each local vector has room for what LAPACK fills.
Spacious == \A a \in Arrays : HasRoom(a)

LEMMA LocalsHold == Inductive /\ Spacious => LocalsSuffice
<1> SUFFICES ASSUME Inductive, Spacious, NEW a \in Arrays, NEW i \in Cells
             PROVE  local[a][i] # "overrun"
  BY DEF LocalsSuffice
<1>1. LocalCell(a, i) /\ HasRoom(a) /\ CellIn(a, i) # "overrun" /\ pc \in Steps
  BY DEF Inductive, Spacious, Typed, TypeOK, CellIn
<1>2. CASE pc \in {"copyout", "done"}
  <2>1. ~Stops
    BY <1>2 DEF Inductive, Answered, Converted, Stops, Strayed
  <2>2. Assigns(a, i, info) => Direct(a) \/ i < plan.ints[a].local
    BY <1>1, <2>1 DEF HasRoom, Filled, Assigns
  <2> QED
    BY <1>1, <1>2, <2>2 DEF LocalCell, CellComputed
<1>3. CASE pc \notin {"copyout", "done"}
  BY <1>1, <1>3 DEF LocalCell, Steps, Ended, Thrown
<1> QED
  BY <1>2, <1>3

\* LAPACK never writes past the end of a local vector.
THEOREM LocalsAreLongEnough == Spec /\ Spacious => []LocalsSuffice
<1>1. Spacious /\ [Next]_vars => Spacious'
  BY SoundKept DEF Spacious
<1> QED
  BY LocalsHold, <1>1, AlwaysInductive, PTL DEF Spec

\* A workspace query that was answered settles the matter, within the range
\* of exact integers, whatever the plan.
THEOREM QueriesSuffice == Spec => []QuerySuffices
<1>1. Inductive => QuerySuffices
  BY DEF Inductive, Answered
<1> QED
  BY <1>1, AlwaysInductive, PTL

\* What LAPACK is given of a legal call is what the caller passed and what the
\* wrapper worked out, and LAPACK has no reason to refuse any of it.
LEMMA LegalIntegers ==
  ASSUME Typed, Checked, Roomy, Legal
  PROVE  ~Strayed /\ ~Hopeless
<1>1. \A x \in Names : plan.args[x] \in Int
  BY CallsAssumption DEF Typed, Names, plan
<1>2. plan.checked \cap plan.derived = {} /\ plan.checked \subseteq Names
  BY CallsAssumption DEF Typed, Names, plan
<1>3. ASSUME NEW x \in Names
      PROVE  Narrow(plan.args[x]) = plan.args[x]
  <2>1. CASE Wide
    BY <2>1 DEF Narrow
  <2>2. CASE ~Wide /\ x \notin plan.derived
    BY <2>2, NarrowKeeps DEF Legal
  <2>3. CASE ~Wide /\ x \in plan.derived
    <3>1. \A y \in plan.checked : plan.args[y] \in -NarrowMax .. NarrowMax
      BY <1>2, <2>3 DEF Legal
    <3> QED
      BY <1>2, <2>3, <3>1 DEF Checked
  <2> QED
    BY <2>1, <2>2, <2>3
<1>4. ASSUME NEW x \in Names \ plan.signed
      PROVE  plan.args[x] >= 0
  <2>1. CASE x \in plan.derived
    BY <2>1 DEF Roomy
  <2>2. CASE x \notin plan.derived
    BY <2>2 DEF Legal
  <2> QED
    BY <2>1, <2>2
<1>5. ~Strayed
  <2>1. \A x \in plan.checked : Wide \/ plan.args[x] \in -NarrowMax .. NarrowMax
    BY <1>2 DEF Legal
  <2> QED
    BY <1>3, <2>1 DEF Strayed, Truncated, Checked
<1>6. ~Hopeless
  BY <1>1, <1>3, <1>4 DEF Hopeless, Legal
<1> QED
  BY <1>5, <1>6

LEMMA LegalTaken == Inductive /\ Checked /\ Roomy => TakesLegalCalls
<1> SUFFICES ASSUME Inductive, Checked, Roomy, Legal
             PROVE  pc \notin {"overflow", "length", "error", "aborted", "astray"}
  BY DEF TakesLegalCalls
<1> USE DEF Inductive
<1>1. ~Strayed /\ ~Hopeless
  BY LegalIntegers
<1>2. pc \notin {"overflow", "aborted"}
  <2>1. ~plan.invalid /\ plan.checked \cap plan.derived = {}
          /\ plan.checked \subseteq Names
    BY CallsAssumption DEF Legal, Typed, Names, plan
  <2> QED
    BY <2>1 DEF Blamed, Legal
<1>3. pc # "length"
  <2>1. plan.work \in Int /\ \A a \in Arrays : plan.ints[a].local \in Int
    BY CallsAssumption DEF Typed, plan, Arrays
  <2> QED
    BY <1>1, <2>1 DEF Blamed, Roomy, BadLength, Strayed
<1>4. pc # "error"
  <2>1. call.need \in Nat
    BY CallsAssumption DEF Typed
  <2> QED
    BY <1>1, <2>1, WorkAssumption DEF Blamed, Legal
<1>5. pc # "astray"
  BY <1>1 DEF Converted
<1> QED
  BY <1>2, <1>3, <1>4, <1>5

\* A wrapper never throws, but for want of memory, on arguments that LAPACK
\* would accept, however large they are.
THEOREM LegalCallsAreTaken == Spec /\ Checked /\ Roomy => []TakesLegalCalls
<1>1. Checked /\ Roomy /\ [Next]_vars => Checked' /\ Roomy'
  BY SoundKept
<1> QED
  BY LegalTaken, <1>1, AlwaysInductive, PTL DEF Spec

-----------------------------------------------------------------------------
(* Refinement.                                                             *)

\* A wrapper is an implementation of Int64Call: what the caller sees happens
\* in one step, when the call ends.
THEOREM KeepsItsPromise == Spec /\ Faithful /\ Patient => KeepsPromise
<1>1. Init => Promise!Init
  BY DEF Init, Promise!Init, Seen, Thrown, Cells, Promise!Cells, Arrays,
         Promise!Arrays, plan
<1>2. Faithful /\ Patient /\ [Next]_vars => Faithful' /\ Patient'
  BY SoundKept DEF Faithful, Patient
<1>3. Inductive /\ Inductive' /\ Faithful' /\ Patient' /\ [Next]_vars
        => [Promise!Next]_Promise!vars
  <2> SUFFICES ASSUME Inductive, Inductive', Faithful', Patient', [Next]_vars
               PROVE  [Promise!Next]_Promise!vars
    OBVIOUS
  <2>1. CASE pc' \notin Thrown \cup {"done"}
    <3>1. pc \notin Thrown \cup {"done"}
      BY <2>1 DEF Next, CheckOverflow, Convert, Query, Allocate, ComputeRefused,
                  ComputeAstray, Compute, CopyOut, vars, Thrown
    <3> QED
      BY <2>1, <3>1, CallKept DEF Promise!vars, Seen
  <2>2. CASE pc \in Thrown \cup {"done"}
    <3>1. UNCHANGED vars
      BY <2>2 DEF Next, CheckOverflow, Convert, Query, Allocate, ComputeRefused,
                  ComputeAstray, Compute, CopyOut, Thrown
    <3> QED
      BY <3>1, CallKept DEF vars, Promise!vars, Seen
  <2>3. CASE pc \notin Thrown \cup {"done"} /\ pc' = "done"
    <3>0. Arrived'
      <4>1. (Inductive /\ Faithful /\ pc = "done")'
        BY <2>3
      <4> QED
        BY <4>1, CellDelivered, PTL
    <3>1. info' \in Statuses /\ call.found \in plan.found
      BY <2>3, CallKept, CallsAssumption DEF Inductive, Answered, Typed, plan
    <3>2. Seen' = user'
      BY <2>3 DEF Seen
    <3>3. ASSUME NEW a \in Arrays, NEW i \in Cells,
                 ~(plan.ints[a].partial /\ i < info')
          PROVE  user'[a][i] =
                   IF i < plan.ints[a].fill[call.found] THEN "lapack" ELSE "caller"
      <4>1. i < plan.ints[a].fill[call.found] => Assigns(a, i, info)'
        BY <3>1, <3>3, StatusesAssumption, CallKept DEF Assigns, Cells
      <4>2. /\ Assigns(a, i, info)' => user'[a][i] = "lapack"
            /\ ~(i < plan.ints[a].fill[call.found]) => user'[a][i] = "caller"
        BY <3>0, CallKept DEF Arrived
      <4> QED
        BY <4>1, <4>2
    <3>4. Promise!Answers(Seen', call.found, info')
      BY <3>2, <3>3 DEF Promise!Answers, Promise!Undefined, Promise!Arrays,
                        Promise!Cells, Arrays, Cells, plan
    <3>5. Promise!Return
      BY <2>3, <3>1, <3>2, <3>4, CallKept DEF Promise!Return, plan, Thrown
    <3> QED
      BY <3>5 DEF Promise!Next
  <2>4. CASE pc \notin Thrown \cup {"done"} /\ pc' \in Thrown
    <3>1. \A a \in Arrays, i \in Cells : user'[a][i] = "caller"
      <4>1. (Inductive /\ Patient)'
        OBVIOUS
      <4>2. ThrowsClean'
        BY <4>1, ThrownClean, PTL
      <4> QED
        BY <2>4, <4>2, CallKept DEF ThrowsClean
    <3>2. user' = [a \in Arrays |-> [i \in Cells |-> "caller"]]
      BY <3>1, CallKept DEF Inductive, Typed, TypeOK
    <3>3. Seen' = Seen
      BY <2>4, <3>2 DEF Seen
    <3> QED
      BY <2>4, <3>3, CallKept DEF Promise!Next, Promise!Throw, Thrown
  <2> QED
    BY <2>1, <2>2, <2>3, <2>4
<1> QED
  BY <1>1, <1>2, <1>3, AlwaysInductive, PTL DEF Spec, KeepsPromise, Promise!Spec
=============================================================================
