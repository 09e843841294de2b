---------------------------- MODULE InOrderProofs ----------------------------
(***************************************************************************)
(* What follows from the promise of InOrderQueue, for any queues and any   *)
(* number of calls: calls of a queue finish in their order, each with its  *)
(* own result, which nothing changes any more.                             *)
(***************************************************************************)
EXTENDS InOrderQueue, SequenceTheorems, TLAPS

Made == 1 .. Len(asked)

Answers == {"calling", "returned"} \cup Thrown

\* The call was accepted and has finished.
Done(c) == answer[c] = "returned" /\ c \notin waiting[asked[c].queue]

\* No call overtakes another of its queue.
NoneOvertakes ==
  \A c, d \in Made :
    /\ c < d /\ asked[c].queue = asked[d].queue
    /\ answer[c] = "returned" /\ Done(d)
    => Done(c)

\* A result is there when its call is done, not before, and it is the call's own.
ResultsRight ==
  \A c \in Made : result[c] = IF Done(c) THEN asked[c].info ELSE Unset

-----------------------------------------------------------------------------
(* The inductive invariant.                                                 *)

Shaped ==
  /\ \E S : asked \in Seq(S) /\ result \in Seq(S)
  /\ answer \in Seq(Answers)
  /\ Len(answer) = Len(asked) /\ Len(result) = Len(asked)
  /\ waiting \in [Queues -> SUBSET Made]

\* A call is made on a queue, waits there only, and only once it was accepted.
\* Only the last one may still be in progress.
InPlace ==
  \A c \in Made :
    /\ asked[c].queue \in Queues
    /\ answer[c] = "calling" => c = Len(asked)
    /\ \A q \in Queues : c \in waiting[q] => q = asked[c].queue /\ answer[c] = "returned"

Inv == Shaped /\ InPlace /\ ResultsRight /\ NoneOvertakes

\* One element of a sequence replaced.
LEMMA Replaced ==
  ASSUME NEW S, NEW s \in Seq(S), NEW c \in 1 .. Len(s), NEW e \in S
  PROVE  /\ [s EXCEPT ![c] = e] \in Seq(S) /\ Len([s EXCEPT ![c] = e]) = Len(s)
         /\ \A i \in 1 .. Len(s) : [s EXCEPT ![c] = e][i] = IF i = c THEN e ELSE s[i]
  BY ExceptSeq

\* A call more, without an answer, a place or a result.
LEMMA Asking ==
  ASSUME Shaped, Ask
  PROVE  /\ Len(asked') = Len(asked) + 1 /\ Len(asked) \in Nat
         /\ \A c \in Made : /\ asked'[c] = asked[c] /\ answer'[c] = answer[c]
                            /\ result'[c] = result[c] /\ answer[c] # "calling"
         /\ answer'[Len(asked) + 1] = "calling" /\ result'[Len(asked) + 1] = Unset
         /\ Shaped' /\ waiting' = waiting
<1>1. PICK S : asked \in Seq(S) /\ result \in Seq(S)
  BY DEF Shaped
<1> DEFINE e == asked'[Len(asked')]
           R == S \cup {e, Unset}
<1>2. /\ asked \in Seq(R) /\ result \in Seq(R) /\ e \in R /\ Unset \in R
      /\ asked' = Append(asked, e) /\ result' = Append(result, Unset)
      /\ answer' = Append(answer, "calling") /\ waiting' = waiting
  BY <1>1 DEF Ask
<1> HIDE DEF e, R
<1>3. /\ asked' \in Seq(R) /\ Len(asked') = Len(asked) + 1 /\ Len(asked) \in Nat
      /\ result' \in Seq(R) /\ Len(result') = Len(result) + 1 /\ result'[Len(result) + 1] = Unset
      /\ \A c \in Made : asked'[c] = asked[c] /\ result'[c] = result[c]
  BY <1>2 DEF Shaped, Made
<1>4. /\ answer' \in Seq(Answers) /\ Len(answer') = Len(answer) + 1
      /\ answer'[Len(answer) + 1] = "calling"
      /\ \A c \in Made : answer'[c] = answer[c]
  BY <1>2 DEF Shaped, Made, Answers
<1>5. \A c \in Made : answer[c] # "calling"
  BY DEF Ask, Made, Shaped
<1>6. waiting' \in [Queues -> SUBSET Made']
  BY <1>2, <1>3 DEF Shaped, Made
<1> QED
  BY <1>2, <1>3, <1>4, <1>5, <1>6 DEF Shaped

\* A step is one of a call made, thrown, accepted or finished, which say of each
\* call what they do to it; or it shows nothing.
LEMMA OneStep ==
  ASSUME Inv, [Next]_vars
  PROVE  \/ Ask /\ Shaped'
         \/ /\ asked' = asked /\ Shaped'
            /\ \/ UNCHANGED <<answer, waiting, result>>
               \/ \E c \in Made, e \in Thrown :
                    /\ answer[c] = "calling" /\ waiting' = waiting /\ result' = result
                    /\ answer' = [answer EXCEPT ![c] = e]
               \/ \E c \in Made :
                    /\ answer[c] = "calling" /\ result' = result
                    /\ answer' = [answer EXCEPT ![c] = "returned"]
                    /\ waiting' = [waiting EXCEPT ![asked[c].queue] = @ \cup {c}]
               \/ \E c \in Made :
                    /\ c \in waiting[asked[c].queue]
                    /\ \A d \in waiting[asked[c].queue] : c <= d
                    /\ answer' = answer
                    /\ result' = [result EXCEPT ![c] = asked[c].info]
                    /\ waiting' = [waiting EXCEPT ![asked[c].queue] = @ \ {c}]
<1>0. /\ Shaped /\ InPlace
      /\ Len(asked) \in Nat
  BY DEF Inv, Shaped
<1>1. CASE Ask
  BY <1>0, <1>1, Asking
<1>2. CASE Throw
  <2>1. PICK c \in Made, e \in Thrown :
          /\ answer[c] = "calling" /\ waiting' = waiting /\ result' = result /\ asked' = asked
          /\ answer' = [answer EXCEPT ![c] = e]
    BY <1>2 DEF Throw, Made
  <2>2. answer' \in Seq(Answers) /\ Len(answer') = Len(answer)
    BY <1>0, <2>1, Replaced DEF Shaped, Made, Answers
  <2>3. Shaped'
    BY <1>0, <2>1, <2>2 DEF Shaped, Made
  <2> QED
    BY <2>1, <2>3
<1>3. CASE Accept
  <2>1. PICK c \in Made :
          /\ answer[c] = "calling" /\ result' = result /\ asked' = asked
          /\ answer' = [answer EXCEPT ![c] = "returned"]
          /\ waiting' = [waiting EXCEPT ![asked[c].queue] = @ \cup {c}]
    BY <1>3 DEF Accept, Made
  <2>2. answer' \in Seq(Answers) /\ Len(answer') = Len(answer)
    BY <1>0, <2>1, Replaced DEF Shaped, Made, Answers
  <2>3. waiting' \in [Queues -> SUBSET Made]
    BY <1>0, <2>1 DEF Shaped
  <2>4. Shaped'
    BY <1>0, <2>1, <2>2, <2>3 DEF Shaped, Made
  <2> QED
    BY <2>1, <2>4
<1>4. CASE Finish
  <2>0. PICK q \in Queues : \E c \in waiting[q] :
          /\ \A d \in waiting[q] : c <= d
          /\ result' = [result EXCEPT ![c] = asked[c].info]
          /\ waiting' = [waiting EXCEPT ![q] = @ \ {c}]
          /\ asked' = asked /\ answer' = answer
    BY <1>4 DEF Finish
  <2>1. PICK c \in waiting[q] :
          /\ \A d \in waiting[q] : c <= d
          /\ result' = [result EXCEPT ![c] = asked[c].info]
          /\ waiting' = [waiting EXCEPT ![q] = @ \ {c}]
          /\ asked' = asked /\ answer' = answer
    BY <2>0
  <2>2. c \in Made /\ q = asked[c].queue
    BY <1>0, <2>1 DEF Shaped, InPlace
  <2>3. waiting' \in [Queues -> SUBSET Made]
    BY <1>0, <2>1 DEF Shaped
  <2>4. \E S : asked \in Seq(S) /\ result' \in Seq(S) /\ Len(result') = Len(result)
    <3>1. PICK S : asked \in Seq(S) /\ result \in Seq(S)
      BY <1>0 DEF Shaped
    <3> DEFINE R == S \cup {asked[c].info}
    <3>2. asked \in Seq(R) /\ result \in Seq(R) /\ asked[c].info \in R
      BY <3>1
    <3> HIDE DEF R
    <3>3. result' \in Seq(R) /\ Len(result') = Len(result)
      BY <1>0, <2>1, <2>2, <3>2, Replaced DEF Shaped, Made
    <3> QED
      BY <3>2, <3>3
  <2>5. Shaped'
    BY <1>0, <2>1, <2>3, <2>4 DEF Shaped, Made
  <2> QED
    BY <2>1, <2>2, <2>5
<1>5. CASE UNCHANGED vars
  <2>1. UNCHANGED <<asked, answer, waiting, result>>
    BY <1>5 DEF vars
  <2> QED
    BY <1>0, <2>1 DEF Shaped, Made
<1> QED
  BY <1>1, <1>2, <1>3, <1>4, <1>5 DEF Next

LEMMA InvInit == Init => Inv
<1> SUFFICES ASSUME Init PROVE Inv
  OBVIOUS
<1>1. /\ asked = <<>> /\ answer = <<>> /\ result = <<>>
      /\ waiting = [q \in Queues |-> {}]
  BY DEF Init
<1>2. Made = {}
  BY <1>1 DEF Made
<1>3. Shaped
  <2>1. asked \in Seq({}) /\ result \in Seq({})
    BY <1>1
  <2> QED
    BY <1>1, <1>2, <2>1 DEF Shaped
<1> QED
  BY <1>2, <1>3 DEF Inv, InPlace, ResultsRight, NoneOvertakes

\* No call loses its place, and none gets the result or the turn of another.
LEMMA InvNext == Inv /\ [Next]_vars => Inv'
<1> SUFFICES ASSUME Inv, [Next]_vars PROVE Inv'
  OBVIOUS
<1>0. /\ Shaped /\ InPlace /\ ResultsRight /\ NoneOvertakes
      /\ Len(asked) \in Nat /\ Made = 1 .. Len(asked)
      /\ DOMAIN answer = Made /\ DOMAIN result = Made
      /\ waiting \in [Queues -> SUBSET Made]
  BY DEF Inv, Shaped, Made
<1>1. CASE Ask
  <2>0. PICK N : N = Len(asked) + 1
    OBVIOUS
  <2>1. /\ Made' = Made \cup {N} /\ N \notin Made /\ Shaped' /\ waiting' = waiting
        /\ \A c \in Made : /\ asked'[c] = asked[c] /\ answer'[c] = answer[c]
                           /\ result'[c] = result[c] /\ answer[c] # "calling"
        /\ answer'[N] = "calling" /\ result'[N] = Unset /\ Len(asked') = N
        /\ asked'[N].queue \in Queues
    BY <1>0, <1>1, <2>0, Asking DEF Made, Ask
  <2>2. InPlace'
    BY <1>0, <2>1 DEF InPlace
  <2>3. ~Done(N)' /\ \A c \in Made : Done(c)' <=> Done(c)
    BY <2>1 DEF Done
  <2>4. ResultsRight'
    BY <1>0, <2>1, <2>3 DEF ResultsRight
  <2>5. NoneOvertakes'
    BY <1>0, <2>1, <2>3 DEF NoneOvertakes, Done
  <2> QED
    BY <2>1, <2>2, <2>4, <2>5 DEF Inv
<1>2. CASE asked' = asked /\ Shaped' /\ UNCHANGED <<answer, waiting, result>>
  BY <1>0, <1>2 DEF Inv, InPlace, ResultsRight, NoneOvertakes, Done, Made
<1>3. ASSUME asked' = asked, Shaped', NEW c \in Made, answer[c] = "calling",
             NEW e \in Thrown, waiting' = waiting, result' = result,
             answer' = [answer EXCEPT ![c] = e]
      PROVE  Inv'
  <2>1. /\ Made' = Made
        /\ \A d \in Made : answer'[d] = IF d = c THEN e ELSE answer[d]
    BY <1>0, <1>3 DEF Made
  <2>2. \A d \in Made : Done(d)' <=> Done(d)
    BY <1>3, <2>1 DEF Done, Thrown
  <2>3. InPlace'
    BY <1>0, <1>3, <2>1 DEF InPlace, Thrown
  <2>4. ResultsRight' /\ NoneOvertakes'
    BY <1>0, <1>3, <2>1, <2>2 DEF ResultsRight, NoneOvertakes, Thrown
  <2> QED
    BY <1>3, <2>3, <2>4 DEF Inv
<1>4. ASSUME asked' = asked, Shaped', NEW c \in Made, answer[c] = "calling",
             result' = result, answer' = [answer EXCEPT ![c] = "returned"],
             waiting' = [waiting EXCEPT ![asked[c].queue] = @ \cup {c}]
      PROVE  Inv'
  <2>0. asked[c].queue \in Queues /\ c = Len(asked)
    BY <1>0, <1>4 DEF InPlace
  <2>1. /\ Made' = Made
        /\ \A d \in Made : answer'[d] = IF d = c THEN "returned" ELSE answer[d]
        /\ \A q \in Queues : waiting'[q] = IF q = asked[c].queue THEN waiting[q] \cup {c} ELSE waiting[q]
    BY <1>0, <1>4, <2>0 DEF Made
  <2>2. \A d \in Made : Done(d)' <=> Done(d)
    BY <1>0, <1>4, <2>0, <2>1 DEF Done, InPlace
  <2>3. InPlace'
    BY <1>0, <1>4, <2>0, <2>1 DEF InPlace
  <2>4. ResultsRight'
    BY <1>0, <1>4, <2>1, <2>2 DEF ResultsRight
  <2>5. NoneOvertakes'
    BY <1>0, <1>4, <2>0, <2>1, <2>2 DEF NoneOvertakes
  <2> QED
    BY <1>4, <2>3, <2>4, <2>5 DEF Inv
<1>5. ASSUME asked' = asked, Shaped', NEW c \in Made, c \in waiting[asked[c].queue],
             \A d \in waiting[asked[c].queue] : c <= d,
             answer' = answer, result' = [result EXCEPT ![c] = asked[c].info],
             waiting' = [waiting EXCEPT ![asked[c].queue] = @ \ {c}]
      PROVE  Inv'
  <2>0. asked[c].queue \in Queues /\ answer[c] = "returned"
    BY <1>0, <1>5 DEF InPlace
  <2>1. /\ Made' = Made
        /\ \A d \in Made : result'[d] = IF d = c THEN asked[c].info ELSE result[d]
        /\ \A q \in Queues : waiting'[q] = IF q = asked[c].queue THEN waiting[q] \ {c} ELSE waiting[q]
    BY <1>0, <1>5, <2>0 DEF Made
  <2>2. \A d \in Made : Done(d)' <=> d = c \/ Done(d)
    BY <1>0, <1>5, <2>0, <2>1 DEF Done, InPlace
  <2>3. InPlace'
    BY <1>0, <1>5, <2>1 DEF InPlace
  <2>4. ResultsRight'
    BY <1>0, <1>5, <2>1, <2>2 DEF ResultsRight
  <2>5. NoneOvertakes'
    BY <1>0, <1>5, <2>0, <2>1, <2>2 DEF NoneOvertakes, Done
  <2> QED
    BY <1>5, <2>3, <2>4, <2>5 DEF Inv
<1> QED
  BY <1>1, <1>2, <1>3, <1>4, <1>5, OneStep

\* Of two accepted calls of a queue the one made first is done first.
THEOREM KeepsTurns == Spec => []NoneOvertakes
<1>1. Inv => NoneOvertakes
  BY DEF Inv
<1> QED
  BY <1>1, InvInit, InvNext, PTL DEF Spec

\* Whoever is done has its own result, and nobody else has any.
THEOREM GivesResults == Spec => []ResultsRight
<1>1. Inv => ResultsRight
  BY DEF Inv
<1> QED
  BY <1>1, InvInit, InvNext, PTL DEF Spec

\* Who is done has its result for good.
ResultsStay == [][\A c \in Made : Done(c) => Done(c)' /\ result'[c] = result[c]]_vars

\* Once a call is done it stays done, and no later call writes its result.
THEOREM KeepsResults == Spec => ResultsStay
<1>1. ASSUME Inv, Inv', [Next]_vars, NEW c \in Made, Done(c)
      PROVE  Done(c)' /\ result'[c] = result[c]
  <2>1. c \in Made' /\ asked'[c] = asked[c]
    BY <1>1, OneStep, Asking DEF Made, Inv
  <2>2. Done(c)'
    <3>0. /\ DOMAIN answer = Made /\ waiting \in [Queues -> SUBSET Made]
          /\ \A d \in Made : asked[d].queue \in Queues
      BY <1>1 DEF Inv, Shaped, InPlace, Made
    <3>1. CASE Ask
      BY <1>1, <3>1, Asking DEF Inv, Done
    <3>2. CASE asked' = asked /\ UNCHANGED <<answer, waiting, result>>
      BY <1>1, <3>2 DEF Done
    <3>3. ASSUME asked' = asked, NEW d \in Made, answer[d] = "calling", waiting' = waiting,
                 NEW e \in Thrown, answer' = [answer EXCEPT ![d] = e]
          PROVE  Done(c)'
      BY <1>1, <3>0, <3>3 DEF Done, Thrown
    <3>4. ASSUME asked' = asked, NEW d \in Made, answer[d] = "calling",
                 answer' = [answer EXCEPT ![d] = "returned"],
                 waiting' = [waiting EXCEPT ![asked[d].queue] = @ \cup {d}]
          PROVE  Done(c)'
      BY <1>1, <3>0, <3>4 DEF Done
    <3>5. ASSUME asked' = asked, NEW d \in Made, answer' = answer,
                 waiting' = [waiting EXCEPT ![asked[d].queue] = @ \ {d}]
          PROVE  Done(c)'
      BY <1>1, <3>0, <3>5 DEF Done
    <3> QED
      BY <1>1, <3>1, <3>2, <3>3, <3>4, <3>5, OneStep
  <2> QED
    BY <1>1, <2>1, <2>2 DEF Inv, ResultsRight
<1>2. Inv /\ Inv' /\ [Next]_vars => [\A c \in Made : Done(c) => Done(c)' /\ result'[c] = result[c]]_vars
  BY <1>1
<1> QED
  BY <1>2, InvInit, InvNext, PTL DEF Spec, ResultsStay
=============================================================================
