---------------------------- MODULE OptionsProofs ----------------------------
(***************************************************************************)
(* Whatever options a program reads, however the library is built and      *)
(* whatever is thrown or refused: the expert drivers solve with factors    *)
(* whose scaling LAPACK is told, letters become the enumerators they stand *)
(* for, and LAPACK is sent the letter that it takes for an enumerator.     *)
(***************************************************************************)
EXTENDS Options, TLAPS

\* Options read into fact of an expert driver go to LAPACK as they are.
FactOnly == Expert => option.enum = "factored" /\ option.table = Same

\* The caller's variable describes the matrix in A and its factors.
Known == settled => equed = scaled /\ factors = scaled

\* A program that reads 'F' has factors.
Earned ==
  /\ pc = "parse" /\ Expert /\ typed.letter = "F" => settled
  /\ pc = "call" /\ Expert /\ value = "F" => settled

\* What LAPACK is asked, and told: anything but 'F' is about a new matrix.
Told ==
  pc = "lapack" /\ Expert =>
    IF sent = "F" THEN settled /\ equed_ = equed ELSE ~settled

\* What LAPACK will have answered.
Answered == pc = "copyout" => equed_ = scaled /\ factors = scaled

Inv == FactOnly /\ Known /\ Earned /\ Told /\ Answered

-----------------------------------------------------------------------------
\* The options of a routine that scales are those of ExpertOptions.
LEMMA ExpertReadsFact ==
  ASSUME NEW o \in OptionsOf(Enumerations), o.scales # {}
  PROVE  o.enum = "factored" /\ o.table = Same
<1>1. o \notin JobOptions
  BY DEF JobOptions, Option
<1>2. o \notin OpOptions
  BY DEF OpOptions, Option
<1>3. o \notin PlainOptions
  BY DEF PlainOptions, Option
<1>4. o \in ExpertOptions
  BY <1>1, <1>2, <1>3 DEF OptionsOf
<1>5. PICK s \in {{"N", "R", "C", "B"}, {"N", "Y"}} :
        o = [Option("factored", Same, Factored.letters) EXCEPT !.scales = s]
  BY <1>4 DEF ExpertOptions
<1>. QED
  BY <1>5 DEF Option

\* It holds at the start ...
LEMMA InitInv == Init => Inv
BY ExpertReadsFact
   DEF Init, Inv, FactOnly, Expert, Known, Earned, Told, Answered

\* A letter that no table changes.
LEMMA SameSent == \A letter : Sent(Same, letter) = letter
BY DEF Sent, Same

\* ... and every step keeps it.
LEMMA StepInv == Inv /\ [Next]_vars => Inv'
<1>. SUFFICES ASSUME Inv, [Next]_vars PROVE Inv'
  OBVIOUS
<1>. USE DEF Inv, FactOnly, Known, Earned, Told, Answered, Expert, matrix
<1>1. CASE Read
  BY <1>1 DEF Read
<1>2. CASE Parse
  <2>1. Expert /\ value' = "F" /\ pc' = "call" => typed.letter = "F"
    BY <1>2 DEF Parse, Alias, Failed
  <2>. QED
    BY <1>2, <2>1 DEF Parse, Failed
<1>3. CASE Call
  <2>1. Expert => sent' = value
    BY <1>3, SameSent DEF Call
  <2>. QED
    BY <1>3, <2>1 DEF Call
<1>4. CASE Refuse
  BY <1>4 DEF Refuse
<1>5. CASE Return
  BY <1>5 DEF Return
<1>6. CASE Factor
  BY <1>6 DEF Factor
<1>7. CASE Solve
  BY <1>7 DEF Solve
<1>8. CASE CopyOut
  <2>1. equed' = equed_
    BY <1>8 DEF CopyOut, Alias
  <2>. QED
    BY <1>8, <2>1 DEF CopyOut
<1>9. CASE Catch
  BY <1>9 DEF Catch
<1>10. CASE UNCHANGED vars
  BY <1>10 DEF vars
<1>. QED
  BY <1>1, <1>2, <1>3, <1>4, <1>5, <1>6, <1>7, <1>8, <1>9, <1>10 DEF Next

\* LAPACK is told the scaling of the matrix whose factors it solves with, by
\* every sequence of calls of gesvx and its relatives.
THEOREM SolvesWithWhatItFactored == Spec => []SolvesAsFactored
<1>1. Inv => SolvesAsFactored
  BY DEF Inv, Known, Told, SolvesAsFactored
<1>. QED
  BY <1>1, InitInv, StepInv, PTL DEF Spec

-----------------------------------------------------------------------------
(* The tables.                                                              *)

\* The letters that X2char writes are those that char2X takes, for every
\* enumeration but JobCond.
LEMMA ParsesOwn ==
  ASSUME NEW e \in DOMAIN Enums, e # "jobcond"
  PROVE  Enums[e].parses = LettersOf(e)
<1>1. CASE e \in {"sides", "norm"}
  BY <1>1 DEF LettersOf, Enums, Sides, Norm
<1>2. CASE e \in {"job"}
  BY <1>2 DEF LettersOf, Enums, Job
<1>3. CASE e \in {"jobschur", "sort", "range"}
  BY <1>3 DEF LettersOf, Enums, JobSchur, Sort, Range
<1>4. CASE e \in {"vect", "direction", "storev"}
  BY <1>4 DEF LettersOf, Enums, Vect, Direction, StoreV
<1>5. CASE e \in {"matrixtype", "howmany"}
  BY <1>5 DEF LettersOf, Enums, MatrixType, HowMany
<1>6. CASE e \in {"equed", "factored"}
  BY <1>6 DEF LettersOf, Enums, Equed, Factored
<1>7. CASE e \in {"sense", "balance"}
  BY <1>7 DEF LettersOf, Enums, Sense, Balance
<1>8. CASE e \in {"order", "rowcol", "op"}
  BY <1>8 DEF LettersOf, Enums, Order, RowCol, Op
<1> QED
  BY <1>1, <1>2, <1>3, <1>4, <1>5, <1>6, <1>7, <1>8 DEF Enums

\* char2jobcond takes one of the three letters of JobCond, and three that are
\* not its letters.
LEMMA JobCondTakesOthers ==
  /\ LettersOf("jobcond") \cap Enums["jobcond"].parses = {"E"}
  /\ LettersOf("jobcond") \ Enums["jobcond"].parses = {"L", "R"}
  /\ Enums["jobcond"].parses \ LettersOf("jobcond") = {"N", "V", "B"}
<1>1. LettersOf("jobcond") = {"E", "L", "R"} /\ Enums["jobcond"].parses = {"N", "E", "V", "B"}
  BY DEF LettersOf, Enums, JobCond
<1> QED
  BY <1>1

\* An enumerator's own letter is no other's second one.
LEMMA OwnLetterStays ==
  ASSUME NEW e \in DOMAIN Enums, NEW letter \in LettersOf(e)
  PROVE  Alias(e, letter) = letter
<1>1. CASE e = "norm"
  BY <1>1 DEF Alias, LettersOf, Enums, Norm
<1>2. CASE e # "norm"
  BY <1>2 DEF Alias
<1> QED
  BY <1>1, <1>2

\* The letters that parsing and the maps can produce are letters.
LEMMA InAlphabet ==
  /\ {"N", "V", "U", "I", "Q", "Y", "T", "C", "1", "F", "R", "B", "E"} \subseteq Alphabet
  /\ Foreign \in Alphabet
<1>1. {"N", "V", "U", "C"} \subseteq LettersOf("job")
  BY DEF LettersOf, Enums, Job
<1>2. {"N", "T", "C"} \subseteq LettersOf("op")
  BY DEF LettersOf, Enums, Op
<1>3. {"1", "I", "F"} \subseteq LettersOf("norm")
  BY DEF LettersOf, Enums, Norm
<1>4. {"R", "C", "B", "Y"} \subseteq LettersOf("equed")
  BY DEF LettersOf, Enums, Equed
<1>5. {"Q"} \subseteq LettersOf("vect")
  BY DEF LettersOf, Enums, Vect
<1>6. {"E"} \subseteq LettersOf("order")
  BY DEF LettersOf, Enums, Order
<1>7. {"job", "op", "norm", "equed", "vect", "order"} \subseteq DOMAIN Enums
  BY DEF Enums
<1>8. \A e \in DOMAIN Enums : \A x : x \in LettersOf(e) => x \in Alphabet
  BY Zenon DEF Alphabet
<1>9. Foreign \in Alphabet
  BY Zenon DEF Alphabet
<1> QED
  BY <1>1, <1>2, <1>3, <1>4, <1>5, <1>6, <1>7, <1>8, <1>9

\* What the options say of their maps and letters, one by one.
LEMMA OptionFacts ==
  ASSUME NEW o \in OptionsOf(Enumerations)
  PROVE  /\ o.enum \in Enumerations /\ o.enum \in DOMAIN Enums
         /\ o.table \in {Same, Csd, Comp, CompU, CompQ, JobU, JobQ, RealOp, ComplexOp}
         /\ o.scales \subseteq {"N", "R", "C", "B", "Y"}
         /\ \A x \in DOMAIN o.takes \cap DOMAIN Enums[o.enum].letters :
              Sent(o.table, Enums[o.enum].letters[x]) = o.takes[x]
<1>0. o.enum \in Enumerations /\ o.enum \in DOMAIN Enums
  BY EnumerationsAssumption DEF OptionsOf
<1>1. CASE o \in JobOptions
  BY <1>0, <1>1 DEF JobOptions, Option, Enums, Job, Sent, Same, Csd, Comp, CompU, CompQ,
     JobU, JobQ
<1>2. CASE o \in OpOptions
  BY <1>0, <1>2 DEF OpOptions, Option, Enums, Op, Sent, Same, RealOp, ComplexOp
<1>3. CASE o \in PlainOptions
  <2>1. o.table = Same /\ o.scales = {}
    BY <1>3 DEF PlainOptions, Option
  <2>2. \A x \in DOMAIN o.takes \cap DOMAIN Enums[o.enum].letters :
          Enums[o.enum].letters[x] = o.takes[x]
    <3>1. CASE \E e : o = Option(e, Same, Enums[e].letters)
      BY <3>1 DEF Option
    <3>2. CASE \E e : o = Option(e, Same, Same)
      BY <3>2 DEF Option, Same
    <3>3. CASE o.enum \in {"norm", "vect", "matrixtype", "equed", "factored"}
      BY <1>3, <3>3 DEF PlainOptions, Option, Enums, Norm, Vect, MatrixType, Equed, Factored
    <3> QED
      BY <1>3, <3>1, <3>2, <3>3 DEF PlainOptions, Option
  <2> QED
    BY <1>0, <2>1, <2>2, SameSent
<1>4. CASE o \in ExpertOptions
  <2>1. PICK s \in {{"N", "R", "C", "B"}, {"N", "Y"}} :
          o = [Option("factored", Same, Factored.letters) EXCEPT !.scales = s]
    BY <1>4 DEF ExpertOptions
  <2>2. /\ o.enum = "factored" /\ o.table = Same /\ o.takes = Factored.letters
        /\ o.scales = s
    BY <2>1 DEF Option
  <2>3. Enums[o.enum].letters = Factored.letters
    BY <2>2 DEF Enums
  <2> QED
    BY <1>0, <2>2, <2>3, SameSent
<1> QED
  BY <1>1, <1>2, <1>3, <1>4 DEF OptionsOf

LEMMA SentInAlphabet ==
  ASSUME NEW o \in OptionsOf(Enumerations), NEW letter \in Alphabet
  PROVE  Sent(o.table, letter) \in Alphabet
<1>1. o.table \in {Same, Csd, Comp, CompU, CompQ, JobU, JobQ, RealOp, ComplexOp}
  BY OptionFacts
<1> QED
  BY <1>1, InAlphabet DEF Sent, Same, Csd, Comp, CompU, CompQ, JobU, JobQ, RealOp, ComplexOp

-----------------------------------------------------------------------------
(* Letters on their way.                                                    *)

Typed ==
  /\ TypeOK
  /\ pc \in {"parse", "call"} => calls < MaxCalls

LEMMA TypedInit == Init => Typed
<1> SUFFICES ASSUME Init PROVE Typed
  OBVIOUS
<1>1. option.scales \subseteq Alphabet
  BY InAlphabet, OptionFacts DEF Init
<1>2. equed \in Alphabet
  BY <1>1, InAlphabet DEF Init
<1>3. "N" \in Alphabet /\ Foreign \in Alphabet
  BY InAlphabet
<1>4. {value, sent, scaled, factors, equed, equed_} \subseteq Alphabet
  BY <1>2, <1>3 DEF Init
<1>5. calls \in 0 .. MaxCalls
  BY MaxCallsAssumption DEF Init
<1> QED
  BY <1>3, <1>4, <1>5 DEF Init, Typed, TypeOK

LEMMA TypedNext == Typed /\ [Next]_vars => Typed'
<1> SUFFICES ASSUME Typed, [Next]_vars PROVE Typed'
  OBVIOUS
<1> USE DEF Typed, TypeOK, matrix
<1>1. CASE Read
  BY <1>1 DEF Read
<1>2. CASE Parse
  <2>1. Alias(option.enum, typed.letter) \in Alphabet
    BY InAlphabet DEF Alias
  <2>2. Failed \in {"unnoticed", "aborted", "rejected"}
    BY DEF Failed
  <2> QED
    BY <1>2, <2>1, <2>2 DEF Parse
<1>3. CASE Call
  <2>1. Sent(option.table, value) \in Alphabet
    BY SentInAlphabet
  <2>2. calls + 1 \in 0 .. MaxCalls
    BY <1>3, MaxCallsAssumption DEF Call
  <2> QED
    BY <1>3, <2>1, <2>2, InAlphabet DEF Call
<1>4. CASE Factor
  <2>1. equed_' \in Alphabet
    BY <1>4, InAlphabet, OptionFacts DEF Factor
  <2> QED
    BY <1>4, <2>1 DEF Factor
<1>5. CASE CopyOut
  <2>1. Alias("equed", equed_) = equed_
    BY DEF Alias
  <2> QED
    BY <1>5, <2>1 DEF CopyOut
<1>6. CASE Refuse \/ Return \/ Solve \/ Catch
  BY <1>6 DEF Refuse, Return, Solve, Catch
<1>7. CASE UNCHANGED vars
  BY <1>7 DEF vars
<1> QED
  BY <1>1, <1>2, <1>3, <1>4, <1>5, <1>6, <1>7 DEF Next

\* Options, values and letters have their types, whatever is read and called.
THEOREM OptionTypes == Spec => []TypeOK
<1>1. Typed => TypeOK
  BY DEF Typed
<1> QED
  BY <1>1, TypedInit, TypedNext, PTL DEF Spec

\* In every program the letters that X2char writes, and no others, are taken as
\* the enumerators they stand for; of every enumeration but JobCond.
THEOREM ParsesEveryOption ==
  ASSUME "jobcond" \notin Enumerations PROVE Spec => []ParsesExactly
<1>1. Init => ParsesExactly
  BY DEF Init, ParsesExactly
<1>2. Typed /\ ParsesExactly /\ [Next]_vars => ParsesExactly'
  <2> SUFFICES ASSUME Typed, ParsesExactly, [Next]_vars PROVE ParsesExactly'
    OBVIOUS
  <2>0. option' = option /\ build' = build
    BY DEF Next, Read, Parse, Call, Refuse, Return, Factor, Solve, CopyOut, Catch, vars
  <2>1. CASE Parse
    <3>1. option.enum \in DOMAIN Enums /\ option.enum # "jobcond"
      BY OptionFacts DEF Typed, TypeOK
    <3>2. Enums[option.enum].parses = LettersOf(option.enum)
      BY <3>1, ParsesOwn
    <3>3. typed.letter \in LettersOf(option.enum) =>
            Alias(option.enum, typed.letter) = typed.letter
      BY <3>1, OwnLetterStays
    <3> QED
      BY <2>0, <2>1, <3>2, <3>3 DEF Parse, ParsesExactly, Failed
  <2>2. CASE Read \/ Call \/ Refuse \/ Return \/ Factor \/ Solve \/ CopyOut \/ Catch
    BY <2>0, <2>2 DEF ParsesExactly, Read, Call, Refuse, Return, Factor, Solve, CopyOut, Catch
  <2>3. CASE UNCHANGED vars
    BY <2>3 DEF ParsesExactly, Failed, vars
  <2> QED
    BY <2>1, <2>2, <2>3 DEF Next
<1> QED
  BY <1>1, <1>2, TypedInit, TypedNext, PTL DEF Spec

\* Whatever enumerator a program hands to a wrapper that documents it, LAPACK is
\* given its own letter for it.
THEOREM MeansWhatItSays == Spec => []SaysWhatIsMeant
<1> DEFINE OnItsWay == pc = "lapack" => sent = Sent(option.table, value)
<1>1. Init => OnItsWay
  BY DEF Init
<1>2. OnItsWay /\ [Next]_vars => OnItsWay'
  BY DEF Next, Read, Parse, Call, Refuse, Return, Factor, Solve, CopyOut, Catch, Failed, vars
<1>3. Typed /\ OnItsWay => SaysWhatIsMeant
  BY OptionFacts DEF Typed, TypeOK, SaysWhatIsMeant, IsNamed
<1> QED
  BY <1>1, <1>2, <1>3, TypedInit, TypedNext, PTL DEF Spec
=============================================================================
