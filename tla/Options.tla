------------------------------ MODULE Options ------------------------------
(***************************************************************************)
(* A program that reads an option as a letter, as the testers do, and      *)
(* calls a wrapper with it, again and again: the letter is parsed, goes to *)
(* LAPACK as the letter LAPACK knows, and in the expert drivers gesvx,     *)
(* gbsvx, posvx, ppsvx and pbsvx a letter comes back: equed, how A was     *)
(* scaled, which the caller hands in again to solve with the factors of an *)
(* earlier call.                                                           *)
(*                                                                         *)
(* LAPACK is external: how it scales a matrix, and what it does with       *)
(* letters that the wrapper does not document, is its choice.              *)
(***************************************************************************)
EXTENDS Letters, Naturals

CONSTANTS
  Builds,       \* [errors, ndebug]: errors is "throw", "assert" or "ignore"
  Enumerations, \* the enumerations whose options are read
  MaxCalls      \* bound: calls that the program makes

ASSUME BuildsAssumption ==
  Builds \subseteq [errors : {"throw", "assert", "ignore"}, ndebug : BOOLEAN]
ASSUME EnumerationsAssumption == Enumerations \subseteq DOMAIN Enums
ASSUME MaxCallsAssumption == MaxCalls \in Nat

VARIABLES
  build,   \* how the library and the program were compiled
  option,  \* the argument that is read, and the wrappers it is for
  pc,      \* next step of the program, or how it ended
  typed,   \* the character that was read, [letter, small]
  value,   \* the enumerator, known by its representation
  sent,    \* the letter that LAPACK is given
  calls,   \* calls made
  scaled,  \* how the matrix in A is scaled
  factors, \* how the matrix was scaled whose factors AF holds
  equed,   \* the caller's variable
  equed_,  \* the wrapper's
  settled  \* a call that factored the matrix in A has returned

vars == <<build, option, pc, typed, value, sent, calls, scaled, factors, equed,
          equed_, settled>>
matrix == <<scaled, factors, equed, equed_, settled>>

-----------------------------------------------------------------------------
(* The options, each with the letters that LAPACK wants for the enumerators *)
(* that the wrapper documents.  (Op and LAPACK's letters are external.)     *)

Option(e, table, takes) ==
  [enum |-> e, table |-> table, takes |-> takes, scales |-> {}]

JobOptions ==
  { Option("job", Same, [NoVec |-> "N", Vec |-> "V"]),   \* heev, geev, ...
    Option("job", Same, [NoVec |-> "N", Vec |-> "V", UpdateVec |-> "U"]),
    Option("job", Same, [AllVec |-> "A", SomeVec |-> "S",
                         OverwriteVec |-> "O", NoVec |-> "N"]),
    Option("job", Csd, [NoVec |-> "N", Vec |-> "Y", UpdateVec |-> "Y"]),
    Option("job", Comp, [NoVec |-> "N", Vec |-> "I", UpdateVec |-> "V"]),
    Option("job", Comp, [NoVec |-> "N", Vec |-> "I", CompactVec |-> "P"]),
    Option("job", CompU, [NoVec |-> "N", Vec |-> "I", UpdateVec |-> "U"]),
    Option("job", CompQ, [NoVec |-> "N", Vec |-> "I", UpdateVec |-> "Q"]),
    Option("job", JobU, [NoVec |-> "N", Vec |-> "U"]),
    Option("job", JobQ, [NoVec |-> "N", Vec |-> "Q"]) }

OpOptions ==
  { Option("op", Same, [NoTrans |-> "N", Trans |-> "T", ConjTrans |-> "C"]),
    Option("op", Same, [NoTrans |-> "N", ConjTrans |-> "C"]),
    Option("op", RealOp, [NoTrans |-> "N", Trans |-> "T", ConjTrans |-> "T"]),
    Option("op", ComplexOp, [NoTrans |-> "N", ConjTrans |-> "C"]) }

\* The enumerator's letter is LAPACK's own; some wrappers take fewer.
PlainOptions ==
  { Option("norm", Same, [One |-> "1", Inf |-> "I", Fro |-> "F", Max |-> "M"]),
    Option("norm", Same, [One |-> "1", Inf |-> "I"]),
    Option("vect", Same, [Q |-> "Q", P |-> "P"]),
    Option("matrixtype", Same,
           [General |-> "G", Lower |-> "L", Upper |-> "U"]),
    Option("equed", Same, [None |-> "N", Yes |-> "Y"]),
    Option("equed", Same, [None |-> "N", Row |-> "R", Col |-> "C",
                           Both |-> "B"]),
    Option("factored", Same, [Factored |-> "F", NotFactored |-> "N"]) }
  \cup { Option(e, Same, Enums[e].letters) :
           e \in {"sides", "jobschur", "sort", "range", "vect", "direction",
                  "storev", "matrixtype", "howmany", "sense", "jobcond",
                  "balance"} }
  \cup { Option(e, Same, Same) : e \in {"order", "rowcol"} } \* no wrapper's

\* fact of gesvx and gbsvx, which scale rows and columns, and of posvx, ppsvx
\* and pbsvx, which scale both at once.
ExpertOptions ==
  { [Option("factored", Same, Factored.letters) EXCEPT !.scales = s] :
      s \in {{"N", "R", "C", "B"}, {"N", "Y"}} }

OptionsOf(enumerations) ==
  { o \in JobOptions \cup OpOptions \cup PlainOptions \cup ExpertOptions :
      o.enum \in enumerations }

Expert == option.scales # {}

-----------------------------------------------------------------------------
Init ==
  /\ build \in Builds
  /\ option \in OptionsOf(Enumerations)
  /\ pc = "read"
  /\ typed = [letter |-> Foreign, small |-> FALSE]
  /\ value = Foreign
  /\ sent = Foreign
  /\ calls = 0
  /\ scaled = "N"
  /\ factors = Foreign
  /\ equed \in option.scales \cup {Foreign}  \* need not be initialised
  /\ equed_ = Foreign
  /\ settled = FALSE

\* A parameter is read.  One does not ask to solve with factors that no call
\* has delivered.
Read ==
  /\ pc = "read"
  /\ calls < MaxCalls
  /\ typed' \in [letter : Alphabet, small : BOOLEAN]
  /\ Expert /\ typed'.letter = "F" => settled
  /\ pc' = "parse"
  /\ UNCHANGED <<build, option, value, sent, calls, matrix>>

\* lapack_error_if in its three forms.  char2sides asserts instead.
Failed ==
  IF option.enum = "sides"
  THEN IF build.ndebug THEN "unnoticed" ELSE "aborted"
  ELSE IF build.errors = "ignore" \/ (build.errors = "assert" /\ build.ndebug)
       THEN "unnoticed"
       ELSE IF build.errors = "assert" THEN "aborted" ELSE "rejected"

\* Mutant: the letter is checked before toupper.
ParseBeforeUpper ==
  LET letter == Alias(option.enum, typed.letter)
      good == letter \in Enums[option.enum].parses /\ ~typed.small
  IN  /\ pc = "parse"
      /\ \/ /\ good \/ Failed = "unnoticed"
            /\ value' = letter
            /\ pc' = "call"
         \/ /\ ~good /\ Failed # "unnoticed"
            /\ pc' = Failed
            /\ UNCHANGED value
      /\ UNCHANGED <<build, option, typed, sent, calls, matrix>>

\* char2job( c ): toupper, the check, and a cast.
Parse ==
  LET letter == Alias(option.enum, typed.letter)
      good == letter \in Enums[option.enum].parses
  IN  /\ pc = "parse"
      /\ \/ /\ good \/ Failed = "unnoticed"
            /\ value' = letter
            /\ pc' = "call"
         \/ /\ ~good /\ Failed # "unnoticed"
            /\ pc' = Failed
            /\ UNCHANGED value
      /\ UNCHANGED <<build, option, typed, sent, calls, matrix>>

\* char compz_ = job_comp2char( compz ), and equed_ = equed2char( *equed ),
\* before vectors are allocated.  What is not Factored is about a new matrix.
Call ==
  /\ pc = "call"
  /\ pc' \in {"lapack", "thrown"}
  /\ sent' = Sent(option.table, value)
  /\ equed_' = equed
  /\ calls' = calls + 1
  /\ IF Expert /\ value # "F"
     THEN scaled' = "N" /\ settled' = FALSE
     ELSE UNCHANGED <<scaled, settled>>
  /\ UNCHANGED <<build, option, typed, value, factors, equed>>

\* LAPACK finds fault with this or another argument and does nothing.
Refuse ==
  /\ pc = "lapack"
  /\ pc' = "thrown"
  /\ UNCHANGED <<build, option, typed, value, sent, calls, matrix>>

\* Any other wrapper returns what LAPACK made of the option.
Return ==
  /\ pc = "lapack"
  /\ ~Expert
  /\ pc' = "read"
  /\ UNCHANGED <<build, option, typed, value, sent, calls, matrix>>

\* LAPACK_sgesvx with fact = 'N' or 'E' (external): A is scaled, or left alone,
\* and factored, for a singular matrix as well.
Factor ==
  /\ pc = "lapack"
  /\ Expert
  /\ sent \in {"N", "E"}
  /\ equed_' \in IF sent = "E" THEN option.scales ELSE {"N"}
  /\ scaled' = equed_'
  /\ factors' = equed_'
  /\ pc' = "copyout"
  /\ UNCHANGED <<build, option, typed, value, sent, calls, equed, settled>>

\* LAPACK_sgesvx with fact = 'F' (external).
Solve ==
  /\ pc = "lapack"
  /\ Expert
  /\ sent = "F"
  /\ equed_ \in option.scales
  /\ pc' = "copyout"
  /\ UNCHANGED <<build, option, typed, value, sent, calls, matrix>>

\* Mutant: without a wish to equilibrate there is nothing to report.
CopyOutIfAsked ==
  /\ pc = "copyout"
  /\ equed' = IF sent = "E" THEN Alias("equed", equed_) ELSE equed
  /\ settled' = TRUE
  /\ pc' = "read"
  /\ UNCHANGED <<build, option, typed, value, sent, calls, scaled, factors,
                 equed_>>

\* *equed = char2equed( equed_ ), whether or not info > 0.
CopyOut ==
  /\ pc = "copyout"
  /\ equed' = Alias("equed", equed_)
  /\ settled' = TRUE
  /\ pc' = "read"
  /\ UNCHANGED <<build, option, typed, value, sent, calls, scaled, factors,
                 equed_>>

\* The program catches what was thrown and goes on.
Catch ==
  /\ pc \in {"thrown", "rejected"}
  /\ pc' = "read"
  /\ UNCHANGED <<build, option, typed, value, sent, calls, matrix>>

Next ==
  \/ Read \/ Parse \/ Call \/ Refuse \/ Return \/ Factor \/ Solve \/ CopyOut
  \/ Catch

Spec == Init /\ [][Next]_vars

-----------------------------------------------------------------------------
(* Properties.                                                             *)

TypeOK ==
  /\ build \in Builds
  /\ option \in OptionsOf(Enumerations)
  /\ pc \in {"read", "parse", "call", "lapack", "copyout", "thrown",
             "rejected", "aborted"}
  /\ typed \in [letter : Alphabet, small : BOOLEAN]
  /\ {value, sent, scaled, factors, equed, equed_} \subseteq Alphabet
  /\ calls \in 0 .. MaxCalls
  /\ settled \in BOOLEAN

\* The name of an enumerator.
IsNamed(e, x, letter) ==
  x \in DOMAIN Enums[e].letters /\ Enums[e].letters[x] = letter

\* char2X takes the letters that X2char writes, small ones too, and makes an
\* enumerator of what it takes, in every build that checks at all.
ParsesExactly ==
  LET own == LettersOf(option.enum)
  IN  /\ pc \in {"rejected", "aborted"} => typed.letter \notin own
      /\ pc = "call" /\ Failed # "unnoticed" => value \in own

\* An enumerator that the wrapper documents reaches LAPACK as the letter that
\* has the same meaning there, however many maps are on the way: the letter 'V'
\* of Job::Vec must become 'I', 'U', 'Q', 'Y' or stay.
SaysWhatIsMeant ==
  pc = "lapack" =>
    \A x \in DOMAIN option.takes :
      IsNamed(option.enum, x, value) => sent = option.takes[x]

\* When an expert driver solves with the factors of an earlier call, LAPACK is
\* told the scaling of the matrix they are of, and that matrix is still in A,
\* whatever was called, thrown or refused in between.
SolvesAsFactored ==
  pc = "lapack" /\ Expert /\ sent = "F" =>
    equed_ = factors /\ factors = scaled
=============================================================================
