------------------------------ MODULE Letters ------------------------------
(***************************************************************************)
(* The options of LAPACK++ and the letters they travel as.  A program says *)
(* lapack::Job::Vec, LAPACK wants a character, and the programs of test/   *)
(* read their options as characters.  util.hh has, for every enumeration,  *)
(* X2char to the letter and char2X from it, and a few maps for routines    *)
(* whose LAPACK letter is another one.                                     *)
(*                                                                         *)
(* An enumeration is the table of its enumerators' letters, with the       *)
(* letters that char2X lets through.                                       *)
(***************************************************************************)

\* A letter of no enumeration.
Foreign == "X"

Sides == [letters |-> [Left |-> "L", Right |-> "R", Both |-> "B"],
          parses |-> {"L", "R", "B"}]

Norm == [letters |-> [One |-> "1", Two |-> "2", Inf |-> "I", Fro |-> "F",
                      Max |-> "M"],
         parses |-> {"1", "2", "I", "F", "M"}]

Job == [letters |-> [NoVec |-> "N", Vec |-> "V", UpdateVec |-> "U",
                     AllVec |-> "A", SomeVec |-> "S", OverwriteVec |-> "O",
                     CompactVec |-> "P", SomeVecTol |-> "C",
                     VecJacobi |-> "J", Workspace |-> "W"],
        parses |-> {"N", "V", "U", "A", "S", "O", "P", "C", "J", "W"}]

JobSchur == [letters |-> [Eigenvalues |-> "E", Schur |-> "S"],
             parses |-> {"E", "S"}]

Sort == [letters |-> [NotSorted |-> "N", Sorted |-> "S"],
         parses |-> {"N", "S"}]

Range == [letters |-> [All |-> "A", Value |-> "V", Index |-> "I"],
          parses |-> {"A", "V", "I"}]

Vect == [letters |-> [Q |-> "Q", P |-> "P", None |-> "N", Both |-> "B"],
         parses |-> {"Q", "P", "N", "B"}]

Direction == [letters |-> [Forward |-> "F", Backward |-> "B"],
              parses |-> {"F", "B"}]

StoreV == [letters |-> [Columnwise |-> "C", Rowwise |-> "R"],
           parses |-> {"C", "R"}]

MatrixType == [letters |-> [General |-> "G", Lower |-> "L", Upper |-> "U",
                            Hessenberg |-> "H", LowerBand |-> "B",
                            UpperBand |-> "Q", Band |-> "Z"],
               parses |-> {"G", "L", "U", "H", "B", "Q", "Z"}]

HowMany == [letters |-> [All |-> "A", Backtransform |-> "B", Select |-> "S"],
            parses |-> {"A", "B", "S"}]

Equed == [letters |-> [None |-> "N", Row |-> "R", Col |-> "C", Both |-> "B",
                       Yes |-> "Y"],
          parses |-> {"N", "R", "C", "B", "Y"}]

Factored == [letters |-> [Factored |-> "F", NotFactored |-> "N",
                          Equilibrate |-> "E"],
             parses |-> {"F", "N", "E"}]

Sense == [letters |-> [None |-> "N", Eigenvalues |-> "E", Subspace |-> "V",
                       Both |-> "B"],
          parses |-> {"N", "E", "V", "B"}]

\* char2jobcond checks for the letters of Sense.
JobCond == [letters |-> [EigenVec |-> "E", LeftSingularVec |-> "L",
                         RightSingularVec |-> "R"],
            parses |-> {"N", "E", "V", "B"}]

Balance == [letters |-> [None |-> "N", Permute |-> "P", Scale |-> "S",
                         Both |-> "B"],
            parses |-> {"N", "P", "S", "B"}]

Order == [letters |-> [Block |-> "B", Entire |-> "E"],
          parses |-> {"B", "E"}]

RowCol == [letters |-> [Col |-> "C", Row |-> "R"],
           parses |-> {"C", "R"}]

\* blas::Op, blas::char2op.
Op == [letters |-> [NoTrans |-> "N", Trans |-> "T", ConjTrans |-> "C"],
       parses |-> {"N", "T", "C"}]

Enums ==
  [sides |-> Sides, norm |-> Norm, job |-> Job, jobschur |-> JobSchur,
   sort |-> Sort, range |-> Range, vect |-> Vect, direction |-> Direction,
   storev |-> StoreV, matrixtype |-> MatrixType, howmany |-> HowMany,
   equed |-> Equed, factored |-> Factored, sense |-> Sense,
   jobcond |-> JobCond, balance |-> Balance, order |-> Order,
   rowcol |-> RowCol, op |-> Op]

\* The letters that stand for an enumerator of e.
LettersOf(e) == {Enums[e].letters[x] : x \in DOMAIN Enums[e].letters}

Alphabet == (UNION {LettersOf(e) : e \in DOMAIN Enums}) \cup {Foreign}

\* Mutant: a zero for the letter O.
AliasZero(e, letter) ==
  IF e # "norm" THEN letter
  ELSE IF letter = "O" THEN "0"
  ELSE IF letter = "E" THEN "F"
  ELSE letter

\* char2norm alone knows a second letter for two of its norms.
Alias(e, letter) ==
  IF e # "norm" THEN letter
  ELSE IF letter = "O" THEN "1"
  ELSE IF letter = "E" THEN "F"
  ELSE letter

-----------------------------------------------------------------------------
(* What a wrapper does to a value on its way to LAPACK.  Most letters stay  *)
(* as they are: a table lists those that change.                            *)

\* bbcsd, orcsd2by1
Csd == [V |-> "Y", U |-> "Y"]

\* Mutant: the unit matrix and the given one are mixed up.
CompSwapped == [V |-> "V", U |-> "I"]

\* bdsdc, gghrd, hgeqz, hseqr, pteqr, stedc, steqr, tgsja, trexc, trsen
Comp == [V |-> "I", U |-> "V"]

\* tgsja
CompU == [V |-> "I", U |-> "U"]
CompQ == [V |-> "I", U |-> "Q"]

\* ggsvd3, ggsvp3
JobU == [V |-> "U"]
JobQ == [V |-> "Q"]

\* "for real, map ConjTrans to Trans": gels, getsls, gemqrt, tpmqrt, tpmlqt,
\* opmtr and the orm family.
RealOp == [C |-> "T"]

\* "for complex, map Trans to ConjTrans": gemqrt.
ComplexOp == [T |-> "C"]

Same == [x \in {} |-> x]

Sent(table, letter) ==
  IF letter \in DOMAIN table THEN table[letter] ELSE letter
=============================================================================
