------------------------------ MODULE MC_Host ------------------------------
(***************************************************************************)
(* HostCall for all host wrappers.                                         *)
(***************************************************************************)
EXTENDS HostDocumented

-----------------------------------------------------------------------------
\* PlanProofs is about calls with such arguments.
ASSUME TriedAssumption ==
  \A d \in Shapes \cup {Probe(x, v) : x \in Sizes \cup Leading,
                                     v \in {-1, NarrowMax, TooLarge, WideMin}} :
    IsArguments(d)

\* Without integer arrays the small, empty, tall and wide shapes suffice.
Corner(d) == d.m # 1 /\ d.n # 1 /\ d.vec

Documented ==
  LET plans == Plans(Middling)
      Tried(r, d) ==
        AsDocumented(r, d) /\ (DOMAIN plans[r].ints = {} => Corner(d))
  IN  {c \in Selected(Plans, DOMAIN plans, Tried) : Countable(c)}

GetrfCalls == Selected(LUPlans, {"getrf"}, NoPivots)
HeevrCalls == Selected(EigenPlans, {"heevr"}, UnfilledSupport)

\* With eigenvectors, which have a support.
VectorSupport(r, d) == HalfSupport(r, d) /\ d.vec
StemrCalls == Selected(EigenPlans, {"stemr"}, VectorSupport)

HseqrCalls == Selected(EigenPlans, {"hseqr"}, RoundedMerge)

\* C is 6 by 6 and nb is 3: both fit, and their product, 18, becomes a plausible 2.
Blocked == [x \in DOMAIN Middling |->
              IF x = "nb" THEN 3
              ELSE IF x \in {"m", "n", "k"} \cup Leading THEN 6 ELSE Middling[x]]
DerivedCalls ==
  {c \in CallsOf("gemqrt", gemqrt(Blocked), {"LP64", "ILP64"}, {"throw"}) :
     ~c.refused}
=============================================================================
