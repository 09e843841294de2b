----------------------------- MODULE PlanProofs -----------------------------
(***************************************************************************)
(* That the plans of all wrappers are sound, for matrices of every size:   *)
(* what the theorems of HostCallProofs suppose of a call is so of every    *)
(* call on which the documentation is right, and where it is not, so is    *)
(* all that the call is not an exception to.                               *)
(***************************************************************************)
EXTENDS HostCallProofs, HostDocumented

-----------------------------------------------------------------------------
(* Argument lists.                                                          *)

\* The arguments that lengths depend on.
LEMMA ArgumentTypes ==
  ASSUME NEW d, IsArguments(d)
  PROVE  /\ d.m \in Int /\ d.n \in Int /\ d.p \in Int /\ d.q \in Int
         /\ d.k \in Int /\ d.nrhs \in Int /\ d.nb \in Int /\ d.mb \in Int
         /\ d.i \in Int /\ d.k1 \in Int /\ d.k2 \in Int /\ d.incx \in Int
         /\ d.incy \in Int /\ d.lda \in Int
         /\ d.vec \in BOOLEAN /\ d.all \in BOOLEAN /\ d.double \in BOOLEAN
         /\ d.mkl \in BOOLEAN /\ d.left \in BOOLEAN /\ d.lower \in BOOLEAN
         /\ d.all => d.n <= MaxCount
  BY DEF IsArguments, Sizes, Choices, Leading

-----------------------------------------------------------------------------
(* Sound plans, array by array.                                             *)

\* LAPACK has reason to refuse the call: an integer that it looks at, and that
\* was not worked out by the wrapper, is negative.
Illegal(p) ==
  \E x \in DOMAIN p.args :
    x \notin p.derived /\ x \notin p.signed /\ p.args[x] < 0

\* Each integer is checked, or worked out from some that are, and so is a
\* workspace whose length goes through lapack_int.
Bounded(p) ==
  /\ \A x \in DOMAIN p.args : x \in p.checked \/ x \in p.derived
  /\ \A x \in p.derived :
       Fit(p.args[x]) \/ \E y \in p.checked : ~Fit(p.args[y])
  /\ p.narrowed => Fit(p.work) \/ \E y \in p.checked : ~Fit(p.args[y])

\* Besides, no legal call has a negative workspace.
Regular(p) ==
  /\ Bounded(p)
  /\ Illegal(p) \/ p.work >= 0
  /\ Illegal(p) \/ \A x \in p.derived : p.args[x] >= 0

\* No more is read than the caller has.
Reads(array, f) == \A i \in Nat : i < array.in => i < array.doc[f]

\* The copy back brings all results, and nothing else, to where there is room.
Writes(array, f) ==
  \A i \in Nat :
    /\ i < array.fill[f] => i < array.out[f] /\ ~array.lossy
    /\ i < array.out[f] => i < array.doc[f] /\ i < array.local
    /\ i < array.out[f] => i < array.fill[f] \/ i < array.in

Suits(p, f, need) ==
  /\ Regular(p)
  /\ \A a \in DOMAIN p.ints :
       LET array == p.ints[a]
       IN  /\ Reads(array, f)
           /\ Writes(array, f) \/ (p.status /\ Illegal(p))
           /\ Illegal(p) \/ array.local >= 0
           /\ array.eager => p.query # "none" /\ need <= Exact

LEMMA BoundedChecked ==
  ASSUME call \in Calls, Wide \/ Bounded(plan) PROVE Checked
<1> SUFFICES ASSUME Wide \/ \A y \in plan.checked : Fit(plan.args[y])
             PROVE  /\ \A x \in Names \ plan.checked : Narrow(plan.args[x]) = plan.args[x]
                    /\ WorkLength = plan.work
  BY DEF Checked, Fit
<1>0. WorkLength = plan.work
  BY NarrowKeeps DEF WorkLength, Narrow, Bounded, Fit
<1> SUFFICES ASSUME NEW x \in Names \ plan.checked
             PROVE  Narrow(plan.args[x]) = plan.args[x]
  BY <1>0
<1>1. CASE Wide
  BY <1>1 DEF Narrow
<1>2. CASE ~Wide
  <2>1. Fit(plan.args[x])
    BY <1>2 DEF Names, Bounded
  <2> QED
    BY <2>1, NarrowKeeps DEF Fit
<1> QED
  BY <1>1, <1>2

LEMMA IllegalStops ==
  ASSUME call \in Calls, Illegal(plan)
  PROVE  ~Legal /\ (plan.status => Stops)
<1>1. PICK x \in Names : x \notin plan.derived /\ x \notin plan.signed /\ plan.args[x] < 0
  BY DEF Illegal, Names
<1>2. plan.args[x] \in Int
  BY CallsAssumption DEF plan, Names
<1>3. ~Legal
  BY <1>1, <1>2 DEF Legal
<1>4. ASSUME plan.status, ~Truncated PROVE Hopeless
  BY <1>1, <1>4 DEF Hopeless, Truncated
<1> QED
  BY <1>3, <1>4 DEF Stops

LEMMA SuitsSound ==
  ASSUME call \in Calls, Suits(plan, call.found, call.need) PROVE Sound
<1> USE DEF Suits, Regular
<1>1. Checked
  BY BoundedChecked
<1>2. Roomy
  BY IllegalStops DEF Roomy, Arrays
<1>3. ASSUME NEW a \in Arrays PROVE Fits(a)
  <2>1. \A i \in Cells : i \in Nat
    BY SpanAssumption DEF Cells
  <2>2. Reads(plan.ints[a], call.found)
    BY DEF Arrays
  <2>3. Writes(plan.ints[a], call.found) \/ Stops
    BY IllegalStops DEF Arrays
  <2>4. ReadsWithin(a)
    BY <2>1, <2>2 DEF Reads, ReadsWithin, Given
  <2>5. HasRoom(a)
    BY <2>1, <2>3 DEF Writes, HasRoom, Filled
  <2>6. EndsWithin(a)
    BY <2>1, <2>3 DEF Writes, EndsWithin, Given, Filled, Back
  <2>7. GivesBack(a)
    BY <2>1, <2>3 DEF Writes, GivesBack, Filled, Back
  <2> QED
    BY <2>4, <2>5, <2>6, <2>7 DEF Fits
<1>4. \A a \in Arrays : Settled(a)
  BY DEF Settled, Asked, Arrays
<1> QED
  BY <1>1, <1>2, <1>3, <1>4 DEF Sound

-----------------------------------------------------------------------------
(* The arrays of HostPlan.                                                  *)

LEMMA LeastMost ==
  ASSUME NEW x \in Int, NEW y \in Int
  PROVE  /\ Least(x, y) \in Int /\ Least(x, y) <= x /\ Least(x, y) <= y
         /\ Least(x, y) \in {x, y}
         /\ Most(x, y) \in Int /\ Most(x, y) >= x /\ Most(x, y) >= y
         /\ Most(x, y) \in {x, y}
         /\ NonNeg(x) \in Nat /\ NonNeg(x) >= x /\ NonNeg(x) \in {0, x}
  BY DEF Least, Most, NonNeg

\* Copied in, out, or both, at the length of the documentation.
Good(array, f) ==
  Reads(array, f) /\ Writes(array, f) /\ ~array.eager

LEMMA InGood ==
  ASSUME NEW n \in Int, NEW f \in Counts
  PROVE  /\ Good(In(n), f) /\ In(n).local = n
         /\ Good(Flags(n), f) /\ Flags(n).local = n
  BY LeastMost DEF In, Flags, Good, Reads, Writes, Always

LEMMA InOutGood ==
  ASSUME NEW n \in Int, NEW f \in Counts
  PROVE  Good(InOut(n), f) /\ InOut(n).local = n
  BY LeastMost DEF In, InOut, Good, Reads, Writes, Always

LEMMA OutGood ==
  ASSUME NEW n \in Int, NEW f \in Counts
  PROVE  Good(Out(n, n), f) /\ Out(n, n).local = n
  BY LeastMost DEF In, Out, Good, Reads, Writes, Always

LEMMA ScalarGood ==
  ASSUME NEW f \in Counts
  PROVE  /\ Good(Scalar, f) /\ Scalar.local = 1
         /\ Good(OutScalar, f) /\ OutScalar.local = 1
  BY DEF In, InOut, Scalar, OutScalar, Good, Reads, Writes, Always, NonNeg, Most

LEMMA SplitGood ==
  ASSUME NEW n \in Int, NEW f \in Counts
  PROVE  /\ Good(Split(n), f) /\ Split(n).local >= 1
         /\ n <= 0 => Good(SplitFloat(n), f) /\ SplitFloat(n).local >= 1
  BY LeastMost DEF In, Out, Split, SplitFloat, Good, Reads, Writes, Always

\* Pivots: a vector that is never empty, for an array that is not.
LEMMA NonEmptyGood ==
  ASSUME NEW n \in Int, NEW f \in Counts
  PROVE  /\ Reads(Out(n, Most(1, n)), f) /\ ~Out(n, Most(1, n)).eager
         /\ n >= 1 => Writes(Out(n, Most(1, n)), f)
         /\ Out(n, Most(1, n)).local >= 1
  BY LeastMost, SMTT(20) DEF In, Out, Reads, Writes, Always
-----------------------------------------------------------------------------
(* The plans of HostPlan.                                                   *)

\* A plan without integer arrays.
Simple(p) == Regular(p) /\ p.ints = <<>>

LEMMA SimpleSuits ==
  ASSUME NEW p, Simple(p), NEW f, NEW need PROVE Suits(p, f, need)
  BY DEF Simple, Suits

LEMMA PlainRegular ==
  ASSUME NEW d, NEW names, NEW work, NEW ints,
         work >= 0 \/ \E x \in names : d[x] < 0
  PROVE  /\ Regular(Plain(d, names, work, ints))
         /\ Regular(Queried(d, names, work, ints))
         /\ Plain(d, names, work, ints).ints = ints
         /\ Queried(d, names, work, ints).ints = ints
  BY DEF Regular, Bounded, Illegal, Plain, Queried

LEMMA PlainSimple ==
  ASSUME NEW d, NEW names, NEW work,
         work >= 0 \/ \E x \in names : d[x] < 0
  PROVE  /\ Simple(Plain(d, names, work, <<>>))
         /\ Simple(Queried(d, names, work, <<>>))
         /\ Simple(Unchecked(Plain(d, names, work, <<>>)))
  BY DEF Simple, Regular, Bounded, Illegal, Plain, Queried, Unchecked

LEMMA RejectedSimple ==
  ASSUME NEW d, NEW names, NEW condition
  PROVE  /\ Simple(RejectedIf(condition, Plain(d, names, 0, <<>>)))
         /\ Simple(Unchecked(RejectedIf(condition, Plain(d, names, 0, <<>>))))
  BY DEF Simple, Regular, Bounded, Illegal, Plain, Unchecked, RejectedIf

\* With integers whose sign has a meaning, whatever they are.
LEMMA SignedSimple ==
  ASSUME NEW d, NEW names, NEW signed, NEW work,
         work >= 0 \/ \E x \in names \ signed : d[x] < 0
  PROVE  /\ Simple(EitherSign(Plain(d, names, work, <<>>), signed))
         /\ Simple(EitherSign(Queried(d, names, work, <<>>), signed))
  BY DEF Simple, Regular, Bounded, Illegal, Plain, Queried, EitherSign

\* A negative integer that LAPACK looks at.
LEMMA NegativeIllegal ==
  ASSUME NEW d, NEW names, NEW work, NEW ints, NEW x \in names, d[x] < 0
  PROVE  /\ Illegal(Plain(d, names, work, ints))
         /\ Illegal(Queried(d, names, work, ints))
<1>1. Illegal(Plain(d, names, work, ints))
  BY DEF Illegal, Plain
<1>2. Illegal(Queried(d, names, work, ints))
  BY DEF Illegal, Plain, Queried
<1> QED
  BY <1>1, <1>2

LEMMA ArraysSuit ==
  ASSUME NEW p, NEW f, NEW need, Regular(p),
         \A a \in DOMAIN p.ints :
           Good(p.ints[a], f) /\ (p.ints[a].local >= 0 \/ Illegal(p))
  PROVE  Suits(p, f, need)
<1>1. ASSUME NEW a \in DOMAIN p.ints
      PROVE  /\ Reads(p.ints[a], f)
             /\ Writes(p.ints[a], f)
             /\ ~p.ints[a].eager
             /\ Illegal(p) \/ p.ints[a].local >= 0
  BY DEF Good
<1> QED
  BY <1>1, Zenon DEF Suits

LEMMA PlainSuits ==
  ASSUME NEW d, NEW names, NEW work, NEW ints, NEW f, NEW need,
         work >= 0 \/ \E x \in names : d[x] < 0,
         \A a \in DOMAIN ints :
           /\ Good(ints[a], f)
           /\ ints[a].local >= 0 \/ \E x \in names : d[x] < 0
  PROVE  /\ Suits(Plain(d, names, work, ints), f, need)
         /\ Suits(Queried(d, names, work, ints), f, need)
<1>1. /\ Regular(Plain(d, names, work, ints))
      /\ Regular(Queried(d, names, work, ints))
      /\ Plain(d, names, work, ints).ints = ints
      /\ Queried(d, names, work, ints).ints = ints
  BY PlainRegular
<1>2. (\E x \in names : d[x] < 0)
        => /\ Illegal(Plain(d, names, work, ints))
           /\ Illegal(Queried(d, names, work, ints))
  BY NegativeIllegal
<1> QED
  BY <1>1, <1>2, ArraysSuit

LEMMA Products == \A x, y \in Nat : x * y \in Nat
  OBVIOUS

\* Workspaces of so many columns.
LEMMA Columns ==
  ASSUME NEW d, IsArguments(d)
  PROVE  /\ d.n \in Int
         /\ \/ d.n < 0
            \/ d.n >= 0 /\ 2*d.n >= 0 /\ 3*d.n >= 0 /\ 4*d.n >= 0 /\ 8*d.n >= 0
<1>1. d.n \in Int
  BY ArgumentTypes
<1> QED
  BY <1>1

LEMMA ColumnsSimple ==
  ASSUME NEW d, IsArguments(d), NEW names, "n" \in names
  PROVE  /\ Simple(Plain(d, names, d.n, <<>>))
         /\ Simple(Plain(d, names, 2*d.n, <<>>))
         /\ Simple(Plain(d, names, 3*d.n, <<>>))
         /\ Simple(Plain(d, names, 4*d.n, <<>>))
         /\ Simple(Plain(d, names, 8*d.n, <<>>))
         /\ Simple(Unchecked(Plain(d, names, d.n, <<>>)))
  BY Columns, PlainSimple

-----------------------------------------------------------------------------
(* Family by family.  Most plans have no integer arrays.                    *)

LEMMA CholeskySuits ==
  ASSUME NEW d, IsArguments(d), NEW r \in DOMAIN CholeskyPlans(d),
         NEW f \in Counts, NEW need
  PROVE  Suits(CholeskyPlans(d)[r], f, need)
<1>1. /\ Simple(gtsv(d)) /\ Simple(pbequ(d)) /\ Simple(pbstf(d))
      /\ Simple(pbsv(d)) /\ Simple(pbtrf(d)) /\ Simple(pbtrs(d))
      /\ Simple(pftrf(d)) /\ Simple(pftri(d)) /\ Simple(pftrs(d))
      /\ Simple(poequ(d)) /\ Simple(poequb(d)) /\ Simple(posv(d))
      /\ Simple(potf2(d)) /\ Simple(potrf(d)) /\ Simple(potrf2(d))
      /\ Simple(potri(d)) /\ Simple(potrs(d)) /\ Simple(ppequ(d))
      /\ Simple(ppsv(d)) /\ Simple(pptrf(d)) /\ Simple(pptri(d))
      /\ Simple(pptrs(d)) /\ Simple(ptsv(d)) /\ Simple(pttrf(d))
      /\ Simple(pttrs(d)) /\ Simple(tbtrs(d)) /\ Simple(tfsm(d))
      /\ Simple(tftri(d)) /\ Simple(tfttp(d)) /\ Simple(tfttr(d))
      /\ Simple(tptri(d)) /\ Simple(tptrs(d)) /\ Simple(tpttf(d))
      /\ Simple(tpttr(d)) /\ Simple(trtri(d)) /\ Simple(trtrs(d))
      /\ Simple(trttf(d)) /\ Simple(trttp(d))
  BY PlainSimple
     DEF gtsv, pbequ, pbstf, pbsv, pbtrf, pbtrs, pftrf, pftri, pftrs, poequ,
         poequb, posv, potf2, potrf, potrf2, potri, potrs, ppequ, ppsv, pptrf,
         pptri, pptrs, ptsv, pttrf, pttrs, tbtrs, tfsm, tftri, tfttp, tfttr,
         tptri, tptrs, tpttf, tpttr, trtri, trtrs, trttf, trttp
<1>2. /\ Simple(pbcon(d)) /\ Simple(pbrfs(d)) /\ Simple(pbsvx(d))
      /\ Simple(pocon(d)) /\ Simple(porfs(d)) /\ Simple(posvx(d))
      /\ Simple(ppcon(d)) /\ Simple(pprfs(d)) /\ Simple(ppsvx(d))
      /\ Simple(ptcon(d)) /\ Simple(ptrfs(d)) /\ Simple(ptsvx(d))
      /\ Simple(tbcon(d)) /\ Simple(tbrfs(d)) /\ Simple(tpcon(d))
      /\ Simple(tprfs(d)) /\ Simple(trcon(d)) /\ Simple(trrfs(d))
  BY ColumnsSimple
     DEF pbcon, pbrfs, pbsvx, pocon, porfs, posvx, ppcon, pprfs, ppsvx, ptcon,
         ptrfs, ptsvx, tbcon, tbrfs, tpcon, tprfs, trcon, trrfs
<1>3. Simple(porfsx(d))
  BY Columns, SignedSimple DEF porfsx
<1>4. Suits(posvIter(d), f, need)
  <2>1. \/ d.n < 0 \/ d.nrhs < 0
        \/ Least(d.n*d.nrhs, d.n*(d.n + d.nrhs)) >= 0
    BY ArgumentTypes, Products DEF Least
  <2> QED
    BY <2>1, PlainSuits, ScalarGood DEF posvIter
<1> QED
  BY <1>1, <1>2, <1>3, <1>4, SimpleSuits DEF CholeskyPlans

LEMMA NormsSuits ==
  ASSUME NEW d, IsArguments(d), NEW r \in DOMAIN NormsPlans(d),
         NEW f \in Counts, NEW need
  PROVE  Suits(NormsPlans(d)[r], f, need)
<1>1. /\ Simple(lacgv(d)) /\ Simple(lacp2(d)) /\ Simple(lacpy(d))
      /\ Simple(langb(d)) /\ Simple(lange(d)) /\ Simple(langt(d))
      /\ Simple(lanhb(d)) /\ Simple(lanhe(d)) /\ Simple(lanhp(d))
      /\ Simple(lanhs(d)) /\ Simple(lanht(d)) /\ Simple(lansb(d))
      /\ Simple(lansp(d)) /\ Simple(lanst(d)) /\ Simple(lansy(d))
      /\ Simple(lantb(d)) /\ Simple(lantp(d)) /\ Simple(lapy2(d))
      /\ Simple(lapy3(d)) /\ Simple(lartg(d)) /\ Simple(lartgp(d))
      /\ Simple(lartgs(d)) /\ Simple(laset(d)) /\ Simple(lassq(d))
      /\ Simple(lauum(d))
  BY PlainSimple
     DEF lacgv, lacp2, lacpy, langb, lange, langt, lanhb, lanhe, lanhp, lanhs,
         lanht, lansb, lansp, lanst, lansy, lantb, lantp, lapy2, lapy3, lartg,
         lartgp, lartgs, laset, lassq, lauum
<1>2. Simple(lag2c(d)) /\ Simple(lag2d(d)) /\ Simple(lag2s(d)) /\ Simple(lag2z(d))
      /\ Simple(lascl(d))
  BY SignedSimple DEF lag2c, lag2d, lag2s, lag2z, lascl, AnySign
<1>3. Simple(lantr(d))
  <2>1. \A safe, condition :
          Simple(Unchecked(RejectedIf(condition, Plain(safe, {"m", "n", "lda"}, 0, <<>>))))
    BY RejectedSimple
  <2> QED
    BY <2>1 DEF lantr
<1> QED
  BY <1>1, <1>2, <1>3, SimpleSuits DEF NormsPlans

LEMMA GeneralSuits ==
  ASSUME NEW d, IsArguments(d), NEW r \in DOMAIN GeneralPlans(d),
         NEW f \in Counts, NEW need
  PROVE  Suits(GeneralPlans(d)[r], f, need)
<1>1. /\ Simple(gbequ(d)) /\ Simple(gbequb(d)) /\ Simple(gebak(d))
      /\ Simple(gebrd(d)) /\ Simple(geequ(d)) /\ Simple(geequb(d))
      /\ Simple(gehrd(d)) /\ Simple(ggbak(d)) /\ Simple(gghrd(d))
  BY PlainSimple
     DEF gbequ, gbequb, gebak, gebrd, geequ, geequb, gehrd, ggbak, gghrd
<1>2. Simple(bdsdc(d)) /\ Simple(bdsqr(d)) /\ Simple(gecon(d))
  BY ColumnsSimple DEF bdsdc, bdsqr, gecon
<1>3. Simple(symv(d)) /\ Simple(syr(d))
  BY RejectedSimple DEF symv, syr
<1>4. Simple(gbbrd(d)) /\ Simple(gesdd(d)) /\ Simple(gesvd(d)) /\ Simple(tgsyl(d))
  <2>1. \/ d.m < 0 \/ d.n < 0
        \/ /\ Most(d.m, d.n) >= 0 /\ 8*Least(d.m, d.n) >= 0
           /\ 5*Least(d.m, d.n) >= 0 /\ d.m + d.n + 2 >= 0
    BY ArgumentTypes DEF Most, Least
  <2> QED
    BY <2>1, PlainSimple, SignedSimple DEF gbbrd, gesdd, gesvd, tgsyl
<1>5. /\ Suits(gbrfsx(d), f, need) /\ Suits(gerfsx(d), f, need)
      /\ Suits(herfsx(d), f, need) /\ Suits(syrfsx(d), f, need)
  <2>1. ASSUME NEW names, "n" \in names, NEW work, work >= 0 \/ d.n < 0
        PROVE  Suits(Rfsx(d, names, work), f, need)
    <3> DEFINE p == Rfsx(d, names, work)
    <3>1. Regular(p) /\ p.ints = [ipiv |-> In(d.n)]
      BY <2>1 DEF Regular, Bounded, Illegal, Rfsx, Plain, EitherSign
    <3>2. d.n < 0 => Illegal(p)
      BY <2>1 DEF Illegal, Rfsx, Plain, EitherSign
    <3>3. Good(In(d.n), f) /\ In(d.n).local = d.n /\ d.n \in Int
      BY Columns, InGood
    <3> HIDE DEF p
    <3>4. \A a \in DOMAIN p.ints : p.ints[a] = In(d.n)
      BY <3>1
    <3>5. \A a \in DOMAIN p.ints :
            Good(p.ints[a], f) /\ (p.ints[a].local >= 0 \/ Illegal(p))
      BY <3>2, <3>3, <3>4
    <3>6. Suits(p, f, need)
      BY <3>1, <3>5, ArraysSuit
    <3> QED
      BY <3>6 DEF p
  <2> QED
    BY <2>1, Columns DEF gbrfsx, gerfsx, herfsx, syrfsx
<1> QED
  BY <1>1, <1>2, <1>3, <1>4, <1>5, SimpleSuits DEF GeneralPlans

LEMMA SymmetricSuits ==
  ASSUME NEW d, IsArguments(d), NEW r \in DOMAIN SymmetricPlans(d),
         NEW f \in Counts, NEW need, AsDocumented(r, d)
  PROVE  Suits(SymmetricPlans(d)[r], f, need)
<1>1. /\ Simple(disna(d)) /\ Simple(hbev_2stage(d)) /\ Simple(hbevd(d))
      /\ Simple(hbevd_2stage(d)) /\ Simple(hbgvd(d)) /\ Simple(heev(d))
      /\ Simple(heev_2stage(d)) /\ Simple(heevd(d))
      /\ Simple(heevd_2stage(d)) /\ Simple(hegst(d)) /\ Simple(hegv(d))
      /\ Simple(hegv_2stage(d)) /\ Simple(hegvd(d)) /\ Simple(heswapr(d))
      /\ Simple(hetrd(d)) /\ Simple(hfrk(d)) /\ Simple(hpev(d))
      /\ Simple(hpevd(d)) /\ Simple(hpgst(d)) /\ Simple(hpgv(d))
      /\ Simple(hpgvd(d)) /\ Simple(hptrd(d)) /\ Simple(sbev(d))
      /\ Simple(sbev_2stage(d)) /\ Simple(sbevd(d))
      /\ Simple(sbevd_2stage(d)) /\ Simple(sbgvd(d)) /\ Simple(sfrk(d))
      /\ Simple(spevd(d)) /\ Simple(spgst(d)) /\ Simple(spgvd(d))
      /\ Simple(sptrd(d)) /\ Simple(stedc(d)) /\ Simple(steqr(d))
      /\ Simple(sterf(d)) /\ Simple(stev(d)) /\ Simple(stevd(d))
      /\ Simple(syev(d)) /\ Simple(syev_2stage(d)) /\ Simple(syevd(d))
      /\ Simple(syevd_2stage(d)) /\ Simple(sygst(d)) /\ Simple(sygv(d))
      /\ Simple(sygv_2stage(d)) /\ Simple(sygvd(d)) /\ Simple(syswapr(d))
      /\ Simple(sytrd(d))
  BY PlainSimple
     DEF disna, hbev_2stage, hbevd, hbevd_2stage, hbgvd, heev, heev_2stage,
         heevd, heevd_2stage, hegst, hegv, hegv_2stage, hegvd, heswapr, hetrd,
         hfrk, hpev, hpevd, hpgst, hpgv, hpgvd, hptrd, sbev, sbev_2stage,
         sbevd, sbevd_2stage, sbgvd, sfrk, spevd, spgst, spgvd, sptrd, stedc,
         steqr, sterf, stev, stevd, syev, syev_2stage, syevd, syevd_2stage,
         sygst, sygv, sygv_2stage, sygvd, syswapr, sytrd
<1>2. /\ Simple(hbev(d)) /\ Simple(hbgst(d)) /\ Simple(hbgv(d))
      /\ Simple(heequb(d)) /\ Simple(pteqr(d)) /\ Simple(sbgst(d))
      /\ Simple(sbgv(d)) /\ Simple(spev(d)) /\ Simple(spgv(d))
      /\ Simple(syequb(d))
  BY ColumnsSimple
     DEF hbev, hbgst, hbgv, heequb, pteqr, sbgst, sbgv, spev, spgv, syequb
<1>3. Simple(hbtrd(d)) /\ Simple(sbtrd(d)) /\ Simple(hetrd_2stage(d))
      /\ Simple(sytrd_2stage(d))
  BY Columns, SignedSimple DEF hbtrd, sbtrd, hetrd_2stage, sytrd_2stage
<1>4. r = "laed4" => Simple(laed4(d))
  <2>1. r = "laed4" => ~Fit(d.i) \/ Fit(d.i + 1)
    BY DEF AsDocumented, DerivedTooLarge
  <2> QED
    <3> DEFINE p == laed4(d)
    <3>1. /\ p.args = [x \in {"n", "i", "i_"} |-> IF x = "i_" THEN d.i + 1 ELSE d[x]]
          /\ p.derived = {"i_"}
          /\ ~p.narrowed /\ p.checked = {"n", "i"} /\ p.signed = {}
          /\ p.work = 0 /\ p.ints = <<>>
      BY DEF laed4, Unchecked, Deriving, Plain
    <3>2. d.i < 0 \/ d.i + 1 >= 0
      BY ArgumentTypes
    <3> QED
      BY <2>1, <3>1, <3>2 DEF Simple, Regular, Bounded, Illegal
<1> QED
  BY <1>1, <1>2, <1>3, <1>4, SimpleSuits DEF SymmetricPlans

\* A workspace for the dimension along which the factor does not act.
LEMMA Opposites ==
  ASSUME NEW d, IsArguments(d)
  PROVE  /\ Opposite(d) \in Int
         /\ Opposite(d) \in {d.m, d.n}
         /\ d.m < 0 \/ d.n < 0 \/ Opposite(d) >= 0
         /\ d.m < 0 \/ d.n < 0 \/ d.k < 0 \/ Opposite(d)*d.k >= 0
         /\ d.m < 0 \/ d.n < 0 \/ d.nb < 0 \/ Opposite(d)*d.nb >= 0
         /\ d.m < 0 \/ d.n < 0 \/ d.mb < 0 \/ Opposite(d)*d.mb >= 0
         /\ d.m < 0 \/ d.n < 0 \/ Most(1, Opposite(d)) >= 0
<1>1. /\ d.m \in Int /\ d.n \in Int /\ d.k \in Int /\ d.nb \in Int
      /\ d.mb \in Int /\ d.left \in BOOLEAN
  BY ArgumentTypes
<1>2. Opposite(d) \in Int /\ Opposite(d) \in {d.m, d.n}
  BY <1>1 DEF Opposite
<1>3. d.m < 0 \/ d.n < 0 \/ Opposite(d) \in Nat
  BY <1>1, <1>2
<1>4. ASSUME NEW k \in Int PROVE d.m < 0 \/ d.n < 0 \/ k < 0 \/ Opposite(d)*k >= 0
  <2>1. k < 0 \/ k \in Nat
    OBVIOUS
  <2> QED
    BY <1>3, <2>1, Products
<1>5. Most(1, Opposite(d)) >= 0
  BY <1>2 DEF Most
<1> QED
  BY <1>1, <1>2, <1>3, <1>4, <1>5

\* One more integer, worked out from some that are checked.
LEMMA DerivingSimple ==
  ASSUME NEW d, NEW names, NEW work, NEW name, name \notin names, NEW value,
         work >= 0 \/ \E x \in names : d[x] < 0,
         value >= 0 \/ \E x \in names : d[x] < 0,
         Fit(value) \/ \E y \in names : ~Fit(d[y])
  PROVE  /\ Simple(Deriving(Plain(d, names, work, <<>>), name, value))
         /\ Simple(Unchecked(Deriving(Plain(d, names, work, <<>>), name, value)))
<1> DEFINE p == Deriving(Plain(d, names, work, <<>>), name, value)
           u == Unchecked(p)
<1>1. /\ p.args = [x \in names \cup {name} |-> IF x = name THEN value ELSE d[x]]
      /\ p.checked = names /\ p.derived = {name} /\ ~p.narrowed /\ p.signed = {}
      /\ p.work = work /\ p.ints = <<>>
  BY DEF Deriving, Plain
<1>2. /\ u.args = p.args /\ u.checked = p.checked /\ u.derived = p.derived
      /\ u.narrowed = p.narrowed
      /\ u.signed = p.signed /\ u.work = p.work /\ u.ints = p.ints
  BY DEF Deriving, Plain, Unchecked
<1> HIDE DEF p, u
<1>3. Simple(p)
  BY <1>1 DEF Simple, Regular, Bounded, Illegal
<1>4. Simple(u)
  BY <1>2, <1>3 DEF Simple, Regular, Bounded, Illegal
<1> QED
  BY <1>3, <1>4 DEF p, u

\* A workspace of a length that goes through lapack_int.
LEMMA NarrowingSimple ==
  ASSUME NEW d, NEW names, NEW work,
         work >= 0 \/ \E x \in names : d[x] < 0,
         Fit(work) \/ \E y \in names : ~Fit(d[y])
  PROVE  Simple(NarrowingWork(Plain(d, names, work, <<>>)))
  BY DEF Simple, Regular, Bounded, Illegal, NarrowingWork, Plain

LEMMA OrthogonalSuits ==
  ASSUME NEW d, IsArguments(d), NEW r \in DOMAIN OrthogonalPlans(d),
         NEW f \in Counts, NEW need, AsDocumented(r, d)
  PROVE  Suits(OrthogonalPlans(d)[r], f, need)
<1>1. /\ Simple(gelqf(d)) /\ Simple(gemlq(d)) /\ Simple(gemqr(d))
      /\ Simple(geqlf(d)) /\ Simple(geqrf(d)) /\ Simple(geqrfp(d))
      /\ Simple(geqrt2(d)) /\ Simple(geqrt3(d)) /\ Simple(gerqf(d))
      /\ Simple(ggglm(d)) /\ Simple(gglse(d)) /\ Simple(ggqrf(d))
      /\ Simple(ggrqf(d)) /\ Simple(larfg(d)) /\ Simple(larfgp(d))
      /\ Simple(larft(d)) /\ Simple(orgbr(d)) /\ Simple(orghr(d))
      /\ Simple(orglq(d)) /\ Simple(orgql(d)) /\ Simple(orgqr(d))
      /\ Simple(orgrq(d)) /\ Simple(orgtr(d)) /\ Simple(ormbr(d))
      /\ Simple(ormhr(d)) /\ Simple(ormlq(d)) /\ Simple(ormql(d))
      /\ Simple(ormqr(d)) /\ Simple(ormrq(d)) /\ Simple(ormrz(d))
      /\ Simple(ormtr(d)) /\ Simple(tplqt2(d)) /\ Simple(tpqrt2(d))
      /\ Simple(tzrzf(d)) /\ Simple(ungbr(d)) /\ Simple(unghr(d))
      /\ Simple(unglq(d)) /\ Simple(ungql(d)) /\ Simple(ungqr(d))
      /\ Simple(ungrq(d)) /\ Simple(ungtr(d)) /\ Simple(unmbr(d))
      /\ Simple(unmhr(d)) /\ Simple(unmlq(d)) /\ Simple(unmql(d))
      /\ Simple(unmqr(d)) /\ Simple(unmrq(d)) /\ Simple(unmrz(d))
      /\ Simple(unmtr(d))
  BY PlainSimple
     DEF gelqf, gemlq, gemqr, geqlf, geqrf, geqrfp, geqrt2, geqrt3, gerqf,
         ggglm, gglse, ggqrf, ggrqf, larfg, larfgp, larft, orgbr, orghr,
         orglq, orgql, orgqr, orgrq, orgtr, ormbr, ormhr, ormlq, ormql, ormqr,
         ormrq, ormrz, ormtr, tplqt2, tpqrt2, tzrzf, ungbr, unghr, unglq,
         ungql, ungqr, ungrq, ungtr, unmbr, unmhr, unmlq, unmql, unmqr, unmrq,
         unmrz, unmtr
<1>2. Simple(geql2(d)) /\ Simple(geqr2(d)) /\ Simple(larfy(d))
  BY ColumnsSimple DEF geql2, geqr2, larfy
<1>3. Simple(bbcsd(d)) /\ Simple(gelq(d)) /\ Simple(geqr(d))
  BY SignedSimple DEF bbcsd, gelq, geqr
<1>4. Simple(orcsd2by1(d))
  <2>1. \/ d.m < 0 \/ d.p < 0
        \/ d.m - Least(Least(d.p, d.m - d.p), Least(d.q, d.m - d.q)) >= 0
    BY ArgumentTypes DEF Least
  <2> QED
    BY <2>1, SignedSimple DEF orcsd2by1
<1>5. /\ Simple(gelq2(d)) /\ Simple(gerq2(d)) /\ Simple(geqrt(d))
      /\ Simple(tplqt(d)) /\ Simple(tpqrt(d))
  <2>1. d.m >= 0 \/ d.m < 0
    BY ArgumentTypes
  <2>2. /\ d.nb < 0 \/ d.n < 0 \/ d.nb*d.n >= 0
        /\ d.mb < 0 \/ d.m < 0 \/ d.mb*d.m >= 0
    BY ArgumentTypes, Products
  <2> QED
    BY <2>1, <2>2, PlainSimple DEF gelq2, gerq2, geqrt, tplqt, tpqrt
<1>6. /\ Simple(larf(d)) /\ Simple(larfx(d)) /\ Simple(opmtr(d))
      /\ Simple(upmtr(d)) /\ Simple(tpmlqt(d)) /\ Simple(tpmqrt(d))
  BY Opposites, PlainSimple DEF larf, larfx, opmtr, upmtr, tpmlqt, tpmqrt
<1>7. Simple(larfb(d)) /\ Simple(tprfb(d))
  <2>1. Simple(larfb(d))
    BY Opposites, DerivingSimple DEF larfb
  <2>2. d.left \in BOOLEAN /\ d.k \in Int /\ d.m \in Int
    BY ArgumentTypes
  <2>3. Simple(tprfb(d))
    <3> DEFINE names == {"m", "n", "k", "l", "ldv", "ldt", "lda", "ldb"}
               rows == IF d.left THEN d.k ELSE d.m
    <3>1. /\ rows >= 0 \/ \E x \in names : d[x] < 0
          /\ Fit(rows) \/ \E x \in names : ~Fit(d[x])
          /\ Opposite(d)*d.k >= 0 \/ \E x \in names : d[x] < 0
      BY <2>2, Opposites
    <3>2. "ldwork" \notin names
      OBVIOUS
    <3> HIDE DEF names, rows
    <3>3. Simple(Unchecked(Deriving(Plain(d, names, Opposite(d)*d.k, <<>>),
                                    "ldwork", rows)))
      BY <3>1, <3>2, DerivingSimple
    <3> QED
      BY <3>3 DEF tprfb, names, rows
  <2> QED
    BY <2>1, <2>3
<1>8. r = "gemqrt" => Simple(gemqrt(d))
  <2>1. r = "gemqrt" => \/ Fit(Opposite(d)*d.nb)
                        \/ ~Fit(d.m) \/ ~Fit(d.n) \/ ~Fit(d.nb)
    BY DEF AsDocumented, DerivedTooLarge
  <2> QED
    BY <2>1, Opposites, NarrowingSimple DEF gemqrt
<1>9. r \in {"opgtr", "upgtr"} => Simple(opgtr(d)) /\ Simple(upgtr(d))
  <2>1. r \in {"opgtr", "upgtr"} => d.n < 0 \/ d.n - 1 >= 0
    BY ArgumentTypes DEF AsDocumented, EmptyReflectors
  <2> QED
    BY <2>1, PlainSimple DEF opgtr, upgtr
<1>10. Simple(orhr_col(d)) /\ Simple(unhr_col(d))
  BY RejectedSimple DEF orhr_col, unhr_col
<1> QED
  BY <1>1, <1>2, <1>3, <1>4, <1>5, <1>6, <1>7, <1>8, <1>9, <1>10, SimpleSuits
     DEF OrthogonalPlans

-----------------------------------------------------------------------------
(* Plans with integer arrays.                                              *)

\* One array of n, in, out or both.
LEMMA PivotsSuit ==
  ASSUME NEW d, IsArguments(d), NEW names, "n" \in names, NEW work,
         work \in {0, d.n, 2*d.n}, NEW f \in Counts, NEW need
  PROVE  /\ Suits(Plain(d, names, work, [ipiv |-> In(d.n)]), f, need)
         /\ Suits(Queried(d, names, work, [ipiv |-> In(d.n)]), f, need)
         /\ Suits(Plain(d, names, work, [ipiv |-> InOut(d.n)]), f, need)
         /\ Suits(Queried(d, names, work, [ipiv |-> InOut(d.n)]), f, need)
         /\ Suits(Plain(d, names, work, [ipiv |-> Out(d.n, d.n)]), f, need)
         /\ Suits(Queried(d, names, work, [ipiv |-> Out(d.n, d.n)]), f, need)
<1>1. ASSUME NEW array, Good(array, f), array.local = d.n
      PROVE  /\ Suits(Plain(d, names, work, [ipiv |-> array]), f, need)
             /\ Suits(Queried(d, names, work, [ipiv |-> array]), f, need)
  BY <1>1, Columns, PlainSuits
<1> QED
  BY <1>1, Columns, InGood, InOutGood, OutGood

\* The copy is never empty; the array is not either, or the call is illegal.
LEMMA NonEmptySuits ==
  ASSUME NEW d, NEW names, NEW n \in Int, NEW f \in Counts, NEW need,
         n >= 1 \/ \E x \in names : d[x] < 0
  PROVE  Suits(Plain(d, names, 0, [ipiv |-> Out(n, Most(1, n))]), f, need)
<1> DEFINE p == Plain(d, names, 0, [ipiv |-> Out(n, Most(1, n))])
<1>1. /\ Regular(p) /\ p.ints = [ipiv |-> Out(n, Most(1, n))]
      /\ n >= 1 \/ Illegal(p)
  BY PlainRegular, NegativeIllegal
<1>2. p.status
  BY DEF Plain
<1>3. /\ Reads(Out(n, Most(1, n)), f) /\ ~Out(n, Most(1, n)).eager
      /\ Out(n, Most(1, n)).local >= 0
      /\ n >= 1 => Writes(Out(n, Most(1, n)), f)
  <2>1. Out(n, Most(1, n)).local = Most(1, n) /\ Most(1, n) \in Int
    BY DEF Out, In, Most
  <2> QED
    BY <2>1, NonEmptyGood
<1> HIDE DEF p
<1>4. \A a \in DOMAIN p.ints : p.ints[a] = Out(n, Most(1, n))
  BY <1>1
<1>5. Suits(p, f, need)
  BY <1>1, <1>2, <1>3, <1>4 DEF Suits
<1> QED
  BY <1>5 DEF p

LEMMA LUSuits ==
  ASSUME NEW d, IsArguments(d), NEW r \in DOMAIN LUPlans(d),
         NEW f \in Counts, NEW need, AsDocumented(r, d)
  PROVE  Suits(LUPlans(d)[r], f, need)
<1>1. /\ Suits(gbcon(d), f, need) /\ Suits(gbrfs(d), f, need)
      /\ Suits(gbsv(d), f, need) /\ Suits(gbsvx(d), f, need)
      /\ Suits(gbtrs(d), f, need) /\ Suits(gerfs(d), f, need)
      /\ Suits(gesvx(d), f, need) /\ Suits(gtcon(d), f, need)
      /\ Suits(gtrfs(d), f, need) /\ Suits(gtsvx(d), f, need)
      /\ Suits(gttrf(d), f, need) /\ Suits(gttrs(d), f, need)
  BY PivotsSuit
     DEF gbcon, gbrfs, gbsv, gbsvx, gbtrs, gerfs, gesvx, gtcon, gtrfs, gtsvx,
         gttrf, gttrs
<1>2. Suits(gbtrf(d), f, need) /\ Suits(zgetrf2(d), f, need)
  <2> DEFINE mn == Least(d.m, d.n)
  <2>1. mn \in Int /\ (mn >= 0 \/ d.m < 0 \/ d.n < 0)
    BY ArgumentTypes DEF Least
  <2> HIDE DEF mn
  <2>2. ASSUME NEW names, {"m", "n"} \subseteq names
        PROVE  Suits(Plain(d, names, 0, [ipiv |-> Out(mn, mn)]), f, need)
    BY <2>1, <2>2, OutGood, PlainSuits
  <2> QED
    BY <2>2 DEF gbtrf, zgetrf2, mn
<1>3. r = "gesv" => Suits(gesv(d), f, need)
  <2>1. d.n \in Int /\ (r = "gesv" => d.n >= 1 \/ d.n < 0)
    BY Columns DEF AsDocumented, NoPivots
  <2> QED
    BY <2>1, NonEmptySuits DEF gesv
<1>4. r \in OfM => /\ Suits(getf2(d), f, need) /\ Suits(getrf(d), f, need)
                   /\ Suits(getrf2(d), f, need)
  <2> DEFINE mn == Least(d.m, d.n)
  <2>1. mn \in Int /\ (r \in OfM => mn >= 1 \/ d.m < 0 \/ d.n < 0)
    BY ArgumentTypes DEF AsDocumented, NoPivots, Least
  <2> HIDE DEF mn
  <2>2. r \in OfM =>
          Suits(Plain(d, {"m", "n", "lda"}, 0, [ipiv |-> Out(mn, Most(1, mn))]),
                f, need)
    BY <2>1, NonEmptySuits
  <2> QED
    BY <2>2 DEF getf2, getrf, getrf2, mn
<1>5. r = "gesvIter" => Suits(gesvIter(d), f, need)
  <2> DEFINE p == gesvIter(d)
             pivots == Out(d.n, Most(1, d.n))
  <2>1. \/ d.n < 0 \/ d.nrhs < 0
        \/ Least(d.n*d.nrhs, d.n*(d.n + d.nrhs)) >= 0
    BY ArgumentTypes, Products DEF Least
  <2>2. /\ Regular(p) /\ p.ints = [ipiv |-> pivots, iter |-> Scalar]
        /\ d.n < 0 => Illegal(p)
    BY <2>1, PlainRegular, NegativeIllegal DEF gesvIter
  <2>3. p.status
    BY DEF gesvIter, Plain
  <2>4. d.n \in Int /\ (r = "gesvIter" => d.n >= 1 \/ d.n < 0)
    BY Columns DEF AsDocumented, NoPivots
  <2>5. /\ Reads(pivots, f) /\ ~pivots.eager /\ pivots.local >= 0
        /\ d.n >= 1 => Writes(pivots, f)
    <3>1. /\ pivots.local = Most(1, d.n) /\ Most(1, d.n) \in Int
      BY <2>4 DEF Out, In, Most
    <3> QED
      BY <2>4, <3>1, NonEmptyGood
  <2>6. Good(Scalar, f) /\ Scalar.local >= 0
    BY ScalarGood
  <2> HIDE DEF p, pivots
  <2>7. r = "gesvIter" => Suits(p, f, need)
    BY <2>2, <2>3, <2>4, <2>5, <2>6 DEF Suits, Good
  <2> QED
    BY <2>7 DEF p
<1>6. Suits(getri(d), f, need) /\ Suits(getrs(d), f, need)
  <2> DEFINE pivots == [In(d.n) EXCEPT !.local = Most(1, d.n)]
  <2>1. Good(pivots, f) /\ pivots.local >= 0
    <3>1. /\ d.n \in Int /\ Most(1, d.n) \in Int /\ Most(1, d.n) >= 1
          /\ NonNeg(d.n) \in Int /\ NonNeg(d.n) >= d.n
      BY Columns DEF Most, NonNeg
    <3>2. /\ pivots.doc[f] = NonNeg(d.n) /\ pivots.in = d.n
          /\ pivots.local = Most(1, d.n) /\ pivots.fill[f] = 0
          /\ pivots.out[f] = 0 /\ pivots.eager = FALSE
      BY DEF In, Always
    <3> HIDE DEF pivots
    <3> QED
      BY <3>1, <3>2 DEF Good, Reads, Writes
  <2> HIDE DEF pivots
  <2> QED
    <3>1. ASSUME NEW names
          PROVE  /\ Suits(Plain(d, names, 0, [ipiv |-> pivots]), f, need)
                 /\ Suits(Queried(d, names, 0, [ipiv |-> pivots]), f, need)
      BY <2>1, PlainSuits
    <3> QED
      BY <3>1 DEF getri, getrs, pivots
<1>7. r = "laswp" => Suits(laswp(d), f, need)
  <2> DEFINE p == laswp(d)
  <2>1. d.k1 \in Int /\ d.k2 \in Int /\ Interchanges(d) \in Int
    BY ArgumentTypes DEF Interchanges
  <2>2. r = "laswp" => d.k1 < 0 \/ d.k2 < 0 \/ Interchanges(d) >= 0
    BY <2>1 DEF AsDocumented, NoInterchanges
  <2>3. Regular(p) /\ p.ints = [ipiv |-> In(Interchanges(d))]
    BY DEF laswp, Regular, Bounded, Illegal, EitherSign, Unchecked, Plain
  <2>4. d.k1 < 0 \/ d.k2 < 0 => Illegal(p)
    BY DEF laswp, Illegal, EitherSign, Unchecked, Plain
  <2>5. /\ Good(In(Interchanges(d)), f)
        /\ In(Interchanges(d)).local = Interchanges(d)
    BY <2>1, InGood
  <2> HIDE DEF p
  <2>6. r = "laswp" => \A a \in DOMAIN p.ints :
          Good(p.ints[a], f) /\ (p.ints[a].local >= 0 \/ Illegal(p))
    BY <2>2, <2>3, <2>4, <2>5
  <2>7. r = "laswp" => Suits(p, f, need)
    BY <2>3, <2>6, ArraysSuit
  <2> QED
    BY <2>7 DEF p
<1>8. Suits(pstrf(d), f, need)
  <2> DEFINE ints == [piv |-> Out(d.n, d.n), rank |-> Scalar]
             names == {"n", "lda"}
  <2>1. 2*d.n >= 0 \/ \E x \in names : d[x] < 0
    BY Columns
  <2>2. Good(Out(d.n, d.n), f) /\ (Out(d.n, d.n).local >= 0 \/ d.n < 0)
    BY Columns, OutGood
  <2>3. Good(Scalar, f) /\ Scalar.local >= 0
    BY ScalarGood
  <2>4. \A a \in DOMAIN ints :
          /\ Good(ints[a], f)
          /\ ints[a].local >= 0 \/ \E x \in names : d[x] < 0
    BY <2>2, <2>3
  <2> HIDE DEF ints, names
  <2>5. Suits(Plain(d, names, 2*d.n, ints), f, need)
    BY <2>1, <2>4, PlainSuits
  <2> QED
    BY <2>5 DEF pstrf, ints, names
<1> QED
  BY <1>1, <1>2, <1>3, <1>4, <1>5, <1>6, <1>7, <1>8 DEF LUPlans, OfM

LEMMA IndefiniteSuits ==
  ASSUME NEW d, IsArguments(d), NEW r \in DOMAIN IndefinitePlans(d),
         NEW f \in Counts, NEW need, AsDocumented(r, d)
  PROVE  Suits(IndefinitePlans(d)[r], f, need)
<1>1. /\ Suits(Sv(d), f, need) /\ Suits(Trf(d), f, need)
      /\ Suits(Tri(d), f, need) /\ Suits(Con(d), f, need)
      /\ Suits(Rfs(d), f, need) /\ Suits(Svx(d), f, need)
      /\ Suits(PackedSv(d), f, need) /\ Suits(PackedSvx(d), f, need)
      /\ Suits(PackedRfs(d), f, need)
  BY PivotsSuit
     DEF Sv, Trf, Tri, Con, Rfs, Svx, PackedSv, PackedSvx, PackedRfs
<1>2. /\ Suits(hesv(d), f, need) /\ Suits(hesv_aa(d), f, need)
      /\ Suits(hesv_rk(d), f, need) /\ Suits(hesv_rook(d), f, need)
      /\ Suits(sysv(d), f, need) /\ Suits(sysv_rk(d), f, need)
      /\ Suits(sysv_rook(d), f, need) /\ Suits(hetrf(d), f, need)
      /\ Suits(hetrf_aa(d), f, need) /\ Suits(hetrf_rk(d), f, need)
      /\ Suits(hetrf_rook(d), f, need) /\ Suits(sytrf(d), f, need)
      /\ Suits(sytrf_aa(d), f, need) /\ Suits(sytrf_rk(d), f, need)
      /\ Suits(sytrf_rook(d), f, need) /\ Suits(hetri2(d), f, need)
      /\ Suits(hetri_rk(d), f, need) /\ Suits(sytri2(d), f, need)
      /\ Suits(sytri_rk(d), f, need) /\ Suits(hecon(d), f, need)
      /\ Suits(hecon_rk(d), f, need) /\ Suits(sycon(d), f, need)
      /\ Suits(sycon_rk(d), f, need) /\ Suits(herfs(d), f, need)
      /\ Suits(syrfs(d), f, need) /\ Suits(hesvx(d), f, need)
      /\ Suits(sysvx(d), f, need) /\ Suits(hpsv(d), f, need)
      /\ Suits(spsv(d), f, need) /\ Suits(hpsvx(d), f, need)
      /\ Suits(spsvx(d), f, need) /\ Suits(hprfs(d), f, need)
      /\ Suits(sprfs(d), f, need)
  BY <1>1
     DEF hesv, hesv_aa, hesv_rk, hesv_rook, sysv, sysv_rk, sysv_rook, hetrf,
         hetrf_aa, hetrf_rk, hetrf_rook, sytrf, sytrf_aa, sytrf_rk,
         sytrf_rook, hetri2, hetri_rk, sytri2, sytri_rk, hecon, hecon_rk,
         sycon, sycon_rk, herfs, syrfs, hesvx, sysvx, hpsv, spsv, hpsvx,
         spsvx, hprfs, sprfs
<1>3. /\ Suits(hetrs(d), f, need) /\ Suits(hetrs2(d), f, need)
      /\ Suits(hetrs_rk(d), f, need) /\ Suits(hetrs_rook(d), f, need)
      /\ Suits(sytrs(d), f, need) /\ Suits(sytrs2(d), f, need)
      /\ Suits(sytrs_rk(d), f, need) /\ Suits(sytrs_rook(d), f, need)
  BY PivotsSuit
     DEF Trs, hetrs, hetrs2, hetrs_rk, hetrs_rook, sytrs, sytrs2, sytrs_rk,
         sytrs_rook
<1>4. /\ Suits(hetri(d), f, need) /\ Suits(sytri(d), f, need)
      /\ Suits(hptrf(d), f, need) /\ Suits(sptrf(d), f, need)
      /\ Suits(hptri(d), f, need) /\ Suits(sptri(d), f, need)
      /\ Suits(hptrs(d), f, need) /\ Suits(sptrs(d), f, need)
      /\ Suits(hpcon(d), f, need) /\ Suits(spcon(d), f, need)
  BY PivotsSuit
     DEF hetri, sytri, hptrf, sptrf, hptri, sptri, hptrs, sptrs, hpcon, spcon
<1>5. Suits(sysv_aa(d), f, need)
  <2> DEFINE p == Sv(d)
             q == sysv_aa(d)
  <2>1. /\ q.args = p.args /\ q.checked = p.checked /\ q.derived = p.derived
        /\ q.narrowed = p.narrowed
        /\ q.signed = p.signed /\ q.work = p.work /\ q.ints = p.ints
        /\ q.status = p.status
    BY DEF sysv_aa, Sv, Queried, Plain
  <2>2. \A a \in DOMAIN p.ints : ~p.ints[a].eager
    <3>1. p.ints = [ipiv |-> Out(d.n, d.n)]
      BY DEF Sv, Queried, Plain
    <3>2. Out(d.n, d.n).eager = FALSE
      BY DEF Out, In
    <3> QED
      BY <3>1, <3>2
  <2> HIDE DEF p, q
  <2>3. Suits(p, f, need)
    BY <1>1 DEF p
  <2>4. Suits(q, f, need)
    BY <2>1, <2>2, <2>3 DEF Suits, Regular, Bounded, Illegal
  <2> QED
    BY <2>4 DEF q
<1>6. r \in {"hetrs_aa", "sytrs_aa"} =>
        Suits(hetrs_aa(d), f, need) /\ Suits(sytrs_aa(d), f, need)
  <2> DEFINE p == TrsAasen(d)
             room == Most(1, 3*d.n - 2)
  <2>1. /\ r \in {"hetrs_aa", "sytrs_aa"} => Fit(room) \/ ~Fit(d.n)
        /\ room >= 0
    BY Columns, NarrowMaxAssumption
       DEF AsDocumented, DerivedTooLarge, Fit, Most
  <2>2. /\ p.args = [x \in {"n", "nrhs", "lda", "ldb", "lwork"} |->
                       IF x = "lwork" THEN room ELSE d[x]]
        /\ p.checked = {"n", "nrhs", "lda", "ldb"} /\ p.derived = {"lwork"}
        /\ ~p.narrowed
        /\ p.signed = {} /\ p.work = 0 /\ p.ints = [ipiv |-> In(d.n)]
    BY DEF TrsAasen, Deriving, Trs, Plain
  <2> HIDE DEF p, room
  <2>3. r \in {"hetrs_aa", "sytrs_aa"} => Regular(p)
    BY <2>1, <2>2 DEF Regular, Bounded, Illegal
  <2>4. /\ \A a \in DOMAIN p.ints : p.ints[a] = In(d.n)
        /\ d.n < 0 => Illegal(p)
    BY <2>2 DEF Illegal
  <2>5. \A a \in DOMAIN p.ints :
          Good(p.ints[a], f) /\ (p.ints[a].local >= 0 \/ Illegal(p))
    BY <2>4, Columns, InGood, ZenonT(20)
  <2>6. r \in {"hetrs_aa", "sytrs_aa"} => Suits(p, f, need)
    BY <2>3, <2>5, ArraysSuit
  <2> QED
    BY <2>6 DEF p, hetrs_aa, sytrs_aa
<1> QED
  BY <1>2, <1>3, <1>4, <1>5, <1>6, SMTT(20) DEF IndefinitePlans

\* Any plan whose arrays are good, and that is illegal where it has no sense.
LEMMA FieldsSuit ==
  ASSUME NEW p, NEW d, NEW names, NEW signed, NEW f, NEW need,
         p.args = [x \in names |-> d[x]], p.checked = names, p.derived = {},
         ~p.narrowed, p.signed = signed,
         p.work >= 0 \/ \E x \in names \ signed : d[x] < 0,
         \A a \in DOMAIN p.ints :
           /\ Good(p.ints[a], f)
           /\ p.ints[a].local >= 0 \/ \E x \in names \ signed : d[x] < 0
  PROVE  Suits(p, f, need)
<1>1. (\E x \in names \ signed : d[x] < 0) => Illegal(p)
  BY DEF Illegal
<1>2. Regular(p)
  BY <1>1 DEF Regular, Bounded
<1> QED
  BY <1>1, <1>2, ArraysSuit

LEMMA LeastSquaresSuits ==
  ASSUME NEW d, IsArguments(d), NEW r \in DOMAIN LeastSquaresPlans(d),
         NEW f \in Counts, NEW need
  PROVE  Suits(LeastSquaresPlans(d)[r], f, need)
<1> USE DEF Ls, Gsvd, Nfound, Kl, Iseed
<1>1. /\ d.n \in Int /\ d.m \in Int
      /\ d.m < 0 \/ d.n < 0 \/ (Least(d.m, d.n) >= 0 /\ d.m + d.n >= 0)
      /\ d.m < 0 \/ d.n < 0 \/ (5*Least(d.m, d.n) >= 0 /\ 12*Least(d.m, d.n) >= 0)
      /\ d.n < 0 \/ 12*d.n >= 0
  BY ArgumentTypes DEF Least
<1>2. Good(Scalar, f) /\ Scalar.local >= 0
  BY ScalarGood
<1>3. \A n \in Int : Good(InOut(n), f) /\ InOut(n).local = n
  BY InOutGood
<1>4. Good(InOut(4), f) /\ InOut(4).local >= 0
  BY InOutGood
<1>5. Suits(gels(d), f, need) /\ Suits(gelsd(d), f, need)
  BY <1>2, PlainSuits DEF gels, gelsd
<1>6. Suits(gelss(d), f, need)
  BY <1>1, <1>2, PlainSuits DEF gelss
<1>7. Suits(gelsy(d), f, need) /\ Suits(geqp3(d), f, need)
  BY <1>1, <1>2, <1>3, Columns, PlainSuits DEF gelsy, geqp3
<1>8. Suits(getsls(d), f, need)
  <2> DEFINE p == getsls(d)
  <2>1. /\ p.args = [x \in Ls |-> d[x]] /\ p.checked = Ls /\ p.derived = {}
        /\ ~p.narrowed
        /\ p.signed = {} /\ p.work = 0 /\ p.ints = <<>>
    BY DEF getsls, Queried, Plain
  <2> HIDE DEF p
  <2>2. Suits(p, f, need)
    BY <2>1, SimpleSuits DEF Simple, Regular, Bounded
  <2> QED
    BY <2>2 DEF p
<1>9. Suits(ggsvd3(d), f, need) /\ Suits(ggsvp3(d), f, need)
  BY <1>2, Columns, PlainSuits DEF ggsvd3, ggsvp3
<1>10. Suits(gesvdx(d), f, need)
  <2> DEFINE p == gesvdx(d)
             names == {"m", "n", "lda", "il", "iu", "ldu", "ldvt"}
  <2>1. /\ p.args = [x \in names |-> d[x]] /\ p.checked = names
        /\ p.derived = {} /\ ~p.narrowed /\ p.signed = {"il", "iu"}
        /\ p.work = 12*Least(d.m, d.n) /\ p.ints = [nfound |-> Scalar]
    BY DEF gesvdx, EitherSign, Queried, Plain
  <2>2. p.work >= 0 \/ \E x \in names \ {"il", "iu"} : d[x] < 0
    BY <1>1, <2>1
  <2> HIDE DEF p, names
  <2>3. Suits(p, f, need)
    BY <1>2, <2>1, <2>2, FieldsSuit
  <2> QED
    BY <2>3 DEF p
<1>11. Suits(bdsvdx(d), f, need)
  <2> DEFINE p == bdsvdx(d)
             names == {"n", "il", "iu", "ldz"}
  <2>1. /\ p.args = [x \in names |-> d[x]] /\ p.checked = names
        /\ p.derived = {} /\ ~p.narrowed /\ p.signed = {"il", "iu"}
        /\ p.work = 12*d.n /\ p.ints = [nfound |-> Scalar]
    BY DEF bdsvdx, EitherSign, Plain
  <2>2. p.work >= 0 \/ \E x \in names \ {"il", "iu"} : d[x] < 0
    BY <1>1, <2>1
  <2> HIDE DEF p, names
  <2>3. Suits(p, f, need)
    BY <1>2, <2>1, <2>2, FieldsSuit
  <2> QED
    BY <2>3 DEF p
<1>12. Suits(lagge(d), f, need) /\ Suits(laghe(d), f, need) /\ Suits(lagsy(d), f, need)
  BY <1>1, <1>4, Columns, PlainSuits DEF lagge, laghe, lagsy
<1>13. Suits(larnv(d), f, need)
  <2> DEFINE p == larnv(d)
  <2>1. /\ p.args = [x \in {"idist", "n"} |-> d[x]] /\ p.checked = {"idist", "n"}
        /\ p.derived = {} /\ ~p.narrowed /\ p.signed = {} /\ p.work = 0
        /\ p.ints = [iseed |-> InOut(4)]
    BY DEF larnv, Unchecked, Plain
  <2> HIDE DEF p
  <2>2. Suits(p, f, need)
    BY <1>4, <2>1, FieldsSuit
  <2> QED
    BY <2>2 DEF p
<1>14. Suits(lapmr(d), f, need) /\ Suits(lapmt(d), f, need)
  <2>1. ASSUME NEW k \in Int, k >= 0 \/ d.m < 0 \/ d.n < 0
        PROVE  Suits(Unchecked(Plain(d, {"m", "n", "ldx"}, 0, [K |-> InOut(k)])),
                     f, need)
    <3> DEFINE p == Unchecked(Plain(d, {"m", "n", "ldx"}, 0, [K |-> InOut(k)]))
    <3>1. /\ p.args = [x \in {"m", "n", "ldx"} |-> d[x]]
          /\ p.checked = {"m", "n", "ldx"} /\ p.derived = {}
          /\ ~p.narrowed /\ p.signed = {}
          /\ p.work = 0 /\ p.ints = [K |-> InOut(k)]
      BY DEF Unchecked, Plain
    <3> HIDE DEF p
    <3>2. k >= 0 \/ \E x \in {"m", "n", "ldx"} \ {} : d[x] < 0
      BY <2>1
    <3>3. \A a \in DOMAIN p.ints : Good(p.ints[a], f) /\ p.ints[a].local = k
      BY <1>3, <2>1, <3>1
    <3>4. Suits(p, f, need)
      BY <3>1, <3>2, <3>3, FieldsSuit, SMTT(20)
    <3> QED
      BY <3>4 DEF p
  <2>2. d.m >= 0 \/ d.m < 0
    BY <1>1
  <2>3. d.n >= 0 \/ d.n < 0
    BY <1>1
  <2> QED
    BY <1>1, <2>1, <2>2, <2>3 DEF lapmr, lapmt
<1> QED
  BY <1>5, <1>6, <1>7, <1>8, <1>9, <1>10, <1>11, <1>12, <1>13, <1>14
     DEF LeastSquaresPlans

\* What LAPACK finds are at most n values, and all n of them for range = All.
LEMMA HitsBound ==
  ASSUME NEW d, IsArguments(d), NEW f \in Hits(d)
  PROVE  /\ f \in Nat /\ f <= NonNeg(d.n)
         /\ d.n <= 0 => f = 0
         /\ d.all /\ d.n >= 0 => f = d.n
<1>1. /\ d.n \in Int /\ d.all \in BOOLEAN /\ MaxCount \in Nat
      /\ d.all => d.n <= MaxCount
  BY ArgumentTypes, MaxCountAssumption
<1> QED
  BY <1>1 DEF Hits, Least, Most, NonNeg

LEMMA IfVecGood ==
  ASSUME NEW n \in Int, NEW vec \in BOOLEAN, NEW f \in Counts, f <= NonNeg(n)
  PROVE  Good(IfVec(vec, n), f) /\ IfVec(vec, n).local = n
<1> DEFINE array == IfVec(vec, n)
           first == IF vec THEN f ELSE 0
<1>1. /\ array.doc[f] = NonNeg(n) /\ array.local = n /\ array.in = 0
      /\ array.fill[f] = first /\ array.out[f] = first
      /\ array.lossy = FALSE /\ array.eager = FALSE
  BY DEF IfVec, Out, In, Always
<1>2. first \in Nat /\ first <= NonNeg(n) /\ (first > 0 => first <= n)
  BY MaxCountAssumption DEF Counts, NonNeg, Most
<1>3. NonNeg(n) \in Nat
  BY LeastMost
<1> HIDE DEF array, first
<1>4. Good(array, f)
  BY <1>1, <1>2, <1>3 DEF Good, Reads, Writes
<1> QED
  BY <1>1, <1>4 DEF array

\* All n supports are filled, or there are none.
LEMMA SupportGood ==
  ASSUME NEW n \in Int, NEW filled \in BOOLEAN, NEW f \in Counts
  PROVE  /\ Reads(Support(filled, n), f) /\ ~Support(filled, n).eager
         /\ Support(filled, n).local >= 0
         /\ filled /\ f = n /\ n > 0 => Writes(Support(filled, n), f)
         /\ Reads(FirstM(filled, n), f) /\ ~FirstM(filled, n).eager
         /\ FirstM(filled, n).local >= 0
         /\ f = 0 => Writes(FirstM(filled, n), f)
<1> DEFINE array == Support(filled, n)
           part == FirstM(filled, n)
           cells == 2 * Most(1, n)
           room == 2 * Most(1, f)
           full == IF filled THEN 2*f ELSE 0
<1>1. /\ array.doc[f] = room /\ array.local = cells /\ array.in = 0
      /\ array.fill[f] = full /\ array.out[f] = cells
      /\ array.lossy = FALSE /\ array.eager = FALSE
  BY DEF Support, Out, In, Always
<1>2. /\ part.doc[f] = room /\ part.local = cells /\ part.in = 0
      /\ part.fill[f] = full /\ part.out[f] = f
      /\ part.lossy = FALSE /\ part.eager = FALSE
  BY DEF FirstM, Support, Out, In, Always
<1>3. /\ cells \in Nat /\ cells >= 2 /\ room \in Nat /\ room >= 2
      /\ f = n => cells = room
      /\ f = n /\ n > 0 => cells = 2*f
      /\ f \in Nat
      /\ full = IF filled THEN 2*f ELSE 0
  BY MaxCountAssumption DEF Most, Counts
<1> HIDE DEF array, part, cells, room, full
<1>4. Reads(array, f) /\ Reads(part, f) /\ array.local >= 0 /\ part.local >= 0
  BY <1>1, <1>2, <1>3 DEF Reads
<1>5. filled /\ f = n /\ n > 0 => Writes(array, f)
  BY <1>1, <1>3 DEF Writes
<1>6. f = 0 => Writes(part, f)
  BY <1>2, <1>3 DEF Writes
<1> QED
  BY <1>1, <1>2, <1>4, <1>5, <1>6 DEF array, part

\* Expert drivers: a count and ifail.
LEMMA VxFields ==
  ASSUME NEW d, NEW names, NEW count \in {"m", "nfound"}
  PROVE  /\ Vx(d, names, count).args = [x \in names |-> d[x]]
         /\ Vx(d, names, count).checked = names
         /\ Vx(d, names, count).derived = {} /\ ~Vx(d, names, count).narrowed
         /\ Vx(d, names, count).signed = IndexRange
         /\ Vx(d, names, count).work = 5*d.n
         /\ Vx(d, names, count).ints = With(count, "ifail", IfVec(d.vec, d.n))
         /\ Vx(d, names, count).found = Hits(d)
  BY DEF Vx, EitherSign, Finding, Plain

LEMMA VxSuits ==
  ASSUME NEW d, IsArguments(d), NEW p, NEW names, NEW signed, NEW need,
         NEW f \in Counts, f \in Hits(d), "n" \in names \ signed,
         p.args = [x \in names |-> d[x]], p.checked = names, p.derived = {},
         ~p.narrowed, p.signed = signed, p.work = 5*d.n,
         \A a \in DOMAIN p.ints :
           p.ints[a] \in {Scalar, OutScalar, IfVec(d.vec, d.n)}
  PROVE  Suits(p, f, need)
<1>1. /\ d.n \in Int /\ d.vec \in BOOLEAN /\ (d.n < 0 \/ 5*d.n >= 0)
  BY ArgumentTypes
<1>2. Good(IfVec(d.vec, d.n), f) /\ IfVec(d.vec, d.n).local = d.n
  BY <1>1, HitsBound, IfVecGood
<1>3. /\ Good(Scalar, f) /\ Scalar.local >= 0
      /\ Good(OutScalar, f) /\ OutScalar.local >= 0
  BY ScalarGood
<1>4. d.n < 0 => \E x \in names \ signed : d[x] < 0
  OBVIOUS
<1>5. d.n >= 0 \/ d.n < 0
  BY <1>1
<1>6. p.work >= 0 \/ \E x \in names \ signed : d[x] < 0
  BY <1>1, <1>4
<1>7. \A a \in DOMAIN p.ints :
        /\ Good(p.ints[a], f)
        /\ p.ints[a].local >= 0 \/ \E x \in names \ signed : d[x] < 0
  BY <1>2, <1>3, <1>4, <1>5
<1> QED
  BY <1>6, <1>7, FieldsSuit

LEMMA ExpertSuits ==
  ASSUME NEW d, IsArguments(d), NEW names, NEW count \in {"m", "nfound"},
         NEW need, NEW f \in Counts, f \in Hits(d),
         "n" \in names
  PROVE  /\ Suits(Vx(d, names, count), f, need)
         /\ Suits(QueriedVx(d, names, count), f, need)
         /\ Suits(UnreadQ(Vx(d, names, count)), f, need)
         /\ Suits(UnreadQ(QueriedVx(d, names, count)), f, need)
         /\ count = "nfound" =>
              Suits([QueriedVx(d, names, count) EXCEPT !.ints["nfound"] = OutScalar],
                    f, need)
<1> DEFINE p == Vx(d, names, count)
           q == QueriedVx(d, names, count)
           o == [q EXCEPT !.ints["nfound"] = OutScalar]
           Outputs == {Scalar, OutScalar, IfVec(d.vec, d.n)}
<1>1. /\ "n" \in names \ IndexRange
      /\ "n" \in names \ (IndexRange \cup {"ldq"})
  BY DEF IndexRange
<1>2. /\ p.args = [x \in names |-> d[x]] /\ p.checked = names
      /\ p.derived = {} /\ ~p.narrowed /\ p.signed = IndexRange /\ p.work = 5*d.n
      /\ p.ints = With(count, "ifail", IfVec(d.vec, d.n))
  BY VxFields
<1>3. \A a \in DOMAIN p.ints : p.ints[a] \in Outputs
  BY <1>2 DEF With
<1>4. /\ q.args = p.args /\ q.checked = p.checked /\ q.derived = p.derived
      /\ q.narrowed = p.narrowed
      /\ q.signed = p.signed /\ q.work = p.work /\ q.ints = p.ints
  BY DEF QueriedVx, Vx, EitherSign, Finding, Plain
<1>5. ASSUME NEW x \in {p, q}
      PROVE  /\ UnreadQ(x).args = p.args /\ UnreadQ(x).checked = p.checked
             /\ UnreadQ(x).derived = p.derived
             /\ UnreadQ(x).narrowed = p.narrowed /\ UnreadQ(x).work = p.work
             /\ UnreadQ(x).ints = p.ints
             /\ UnreadQ(x).signed = IndexRange \cup {"ldq"}
  <2>1. /\ UnreadQ(p).args = p.args /\ UnreadQ(p).checked = p.checked
        /\ UnreadQ(p).derived = p.derived
        /\ UnreadQ(p).narrowed = p.narrowed /\ UnreadQ(p).work = p.work
        /\ UnreadQ(p).ints = p.ints
        /\ UnreadQ(p).signed = IndexRange \cup {"ldq"}
    BY DEF UnreadQ, Vx, EitherSign, Finding, Plain
  <2>2. /\ UnreadQ(q).args = p.args /\ UnreadQ(q).checked = p.checked
        /\ UnreadQ(q).derived = p.derived
        /\ UnreadQ(q).narrowed = p.narrowed /\ UnreadQ(q).work = p.work
        /\ UnreadQ(q).ints = p.ints
        /\ UnreadQ(q).signed = IndexRange \cup {"ldq"}
    BY DEF UnreadQ, QueriedVx, Vx, EitherSign, Finding, Plain
  <2> QED
    BY <2>1, <2>2
<1>6. /\ o.args = p.args /\ o.checked = p.checked /\ o.derived = p.derived
      /\ o.narrowed = p.narrowed
      /\ o.signed = p.signed /\ o.work = p.work
      /\ o.ints = [p.ints EXCEPT !["nfound"] = OutScalar]
  BY DEF QueriedVx, Vx, EitherSign, Finding, Plain
<1> HIDE DEF p, q, o
<1>7. Suits(p, f, need)
  BY <1>1, <1>2, <1>3, VxSuits DEF Outputs
<1>8. Suits(q, f, need)
  BY <1>1, <1>2, <1>3, <1>4, VxSuits DEF Outputs
<1>9. Suits(UnreadQ(p), f, need)
  BY <1>1, <1>2, <1>3, <1>5, VxSuits DEF Outputs
<1>10. Suits(UnreadQ(q), f, need)
  BY <1>1, <1>2, <1>3, <1>5, VxSuits DEF Outputs
<1>11. Suits(o, f, need)
  <2>1. \A a \in DOMAIN o.ints : o.ints[a] \in Outputs
    BY <1>3, <1>6
  <2> QED
    BY <1>1, <1>2, <1>6, <2>1, VxSuits DEF Outputs
<1> QED
  BY <1>7, <1>8, <1>9, <1>10, <1>11 DEF p, q, o

\* Relatively robust representations: a count and isuppz.
LEMMA VrSuits ==
  ASSUME NEW d, NEW p, NEW names, NEW signed, NEW need,
         NEW f \in Counts, NEW isuppz, "n" \in names \ signed,
         p.args = [x \in names |-> d[x]], p.checked = names, p.derived = {},
         ~p.narrowed, p.signed = signed, p.work = 0, p.status,
         \A a \in DOMAIN p.ints : p.ints[a] \in {Scalar, OutScalar, isuppz},
         Reads(isuppz, f), ~isuppz.eager, isuppz.local >= 0,
         d.n < 0 \/ Writes(isuppz, f)
  PROVE  Suits(p, f, need)
<1>1. /\ Reads(Scalar, f) /\ Writes(Scalar, f) /\ ~Scalar.eager
      /\ Reads(OutScalar, f) /\ Writes(OutScalar, f) /\ ~OutScalar.eager
      /\ Scalar.local >= 0 /\ OutScalar.local >= 0
  BY ScalarGood DEF Good
<1>2. Regular(p) /\ (d.n < 0 => Illegal(p))
  BY DEF Regular, Bounded, Illegal
<1>3. ASSUME NEW a \in DOMAIN p.ints
      PROVE  /\ Reads(p.ints[a], f) /\ ~p.ints[a].eager /\ p.ints[a].local >= 0
             /\ Writes(p.ints[a], f) \/ Illegal(p)
  BY <1>1, <1>2
<1> QED
  BY <1>2, <1>3 DEF Suits

LEMMA RobustSuits ==
  ASSUME NEW d, IsArguments(d), NEW count \in {"m", "nfound"}, NEW need,
         NEW names, "n" \in names, NEW f \in Counts, NEW isuppz,
         Reads(isuppz, f), ~isuppz.eager, isuppz.local >= 0,
         d.n < 0 \/ Writes(isuppz, f)
  PROVE  /\ Suits(Vr(d, names, count, isuppz), f, need)
         /\ count = "nfound" =>
              Suits([Vr(d, names, count, isuppz) EXCEPT
                       !.ints["nfound"] = OutScalar], f, need)
<1> DEFINE p == Vr(d, names, count, isuppz)
           o == [p EXCEPT !.ints["nfound"] = OutScalar]
<1>1. /\ p.args = [x \in names |-> d[x]] /\ p.checked = names
      /\ p.derived = {}
      /\ ~p.narrowed /\ p.signed = IndexRange /\ p.work = 0 /\ p.status
      /\ p.ints = With(count, "isuppz", isuppz)
  BY DEF Vr, EitherSign, Finding, Queried, Plain
<1>2. /\ o.args = p.args /\ o.checked = p.checked /\ o.derived = p.derived
      /\ o.narrowed = p.narrowed
      /\ o.signed = p.signed /\ o.work = p.work /\ o.status = p.status
      /\ o.ints = [p.ints EXCEPT !["nfound"] = OutScalar]
  BY DEF Vr, EitherSign, Finding, Queried, Plain
<1>3. "n" \in names \ IndexRange
  BY DEF IndexRange
<1>4. \A a \in DOMAIN p.ints : p.ints[a] \in {Scalar, OutScalar, isuppz}
  BY <1>1 DEF With
<1> HIDE DEF p, o
<1>5. Suits(p, f, need)
  BY <1>1, <1>3, <1>4, VrSuits
<1>6. \A a \in DOMAIN o.ints : o.ints[a] \in {Scalar, OutScalar, isuppz}
  BY <1>2, <1>4
<1>7. Suits(o, f, need)
  <2>1. /\ o.args = [x \in names |-> d[x]] /\ o.checked = names
        /\ o.derived = {}
        /\ ~o.narrowed /\ o.signed = IndexRange /\ o.work = 0 /\ o.status
    BY <1>1, <1>2
  <2> QED
    BY <1>3, <1>6, <2>1, VrSuits
<1> QED
  BY <1>5, <1>7 DEF p, o

\* Eigenvalues merged from two vectors, and what comes with them.
LEMMA SchurSuits ==
  ASSUME NEW d, IsArguments(d), NEW names, "n" \in names, NEW work \in {0, d.n},
         NEW f \in Counts, NEW need
  PROVE  /\ Suits(Queried(d, names, work, W(d)), f, need)
         /\ Suits(Queried(d, names, work, Alpha(d)), f, need)
         /\ Suits(Queried(d, names, work, SdimW(d)), f, need)
         /\ Suits(Queried(d, names, work, SdimAlpha(d)), f, need)
<1>1. /\ Good(Split(d.n), f) /\ Split(d.n).local >= 0
      /\ Good(Scalar, f) /\ Scalar.local >= 0
  <2>1. Split(d.n).local = Most(1, d.n) /\ Most(1, d.n) >= 0
    BY Columns DEF Split, Out, In, Most
  <2> QED
    BY <2>1, Columns, SplitGood, ScalarGood
<1>2. work >= 0 \/ \E x \in names : d[x] < 0
  BY Columns
<1>3. ASSUME NEW ints,
             \A a \in DOMAIN ints : ints[a] \in {Scalar, Split(d.n)}
      PROVE  Suits(Queried(d, names, work, ints), f, need)
  <2>1. \A a \in DOMAIN ints : Good(ints[a], f) /\ ints[a].local >= 0
    BY <1>1, <1>3
  <2> QED
    BY <1>2, <2>1, PlainSuits
<1> QED
  BY <1>3 DEF W, Alpha, SdimW, SdimAlpha

\* The wrappers that find some of the eigenvalues.
Selecting ==
  {"hbevx", "sbevx", "hbevx_2stage", "sbevx_2stage", "hbgvx",
    "sbgvx", "hpevx", "spevx", "hpgvx", "spgvx", "stevx", "heevx",
    "heevx_2stage", "syevx", "hegvx", "sygvx", "syevx_2stage", "heevr",
    "heevr_2stage", "syevr", "syevr_2stage", "stegr", "stevr", "stemr"}

LEMMA SelectingFinds ==
  ASSUME NEW d, NEW r \in Selecting PROVE EigenPlans(d)[r].found = Hits(d)
<1>1. /\ hbevx(d).found = Hits(d) /\ sbevx(d).found = Hits(d)
      /\ hbevx_2stage(d).found = Hits(d) /\ sbevx_2stage(d).found = Hits(d)
      /\ hbgvx(d).found = Hits(d) /\ sbgvx(d).found = Hits(d)
      /\ hpevx(d).found = Hits(d) /\ spevx(d).found = Hits(d)
      /\ hpgvx(d).found = Hits(d) /\ spgvx(d).found = Hits(d)
      /\ stevx(d).found = Hits(d) /\ heevx(d).found = Hits(d)
      /\ heevx_2stage(d).found = Hits(d) /\ syevx(d).found = Hits(d)
      /\ hegvx(d).found = Hits(d) /\ sygvx(d).found = Hits(d)
      /\ syevx_2stage(d).found = Hits(d)
  BY DEF Vx, QueriedVx, UnreadQ, EitherSign, Finding, Queried, Plain, hbevx,
         sbevx, hbevx_2stage, sbevx_2stage, hbgvx, sbgvx, hpevx, spevx, hpgvx,
         spgvx, stevx, heevx, heevx_2stage, syevx, hegvx, sygvx, syevx_2stage
<1>2. /\ heevr(d).found = Hits(d) /\ heevr_2stage(d).found = Hits(d)
      /\ syevr(d).found = Hits(d) /\ syevr_2stage(d).found = Hits(d)
      /\ stegr(d).found = Hits(d) /\ stevr(d).found = Hits(d)
      /\ stemr(d).found = Hits(d)
  BY DEF Vr, EitherSign, Finding, Queried, Plain, heevr, heevr_2stage, syevr,
         syevr_2stage, stegr, stevr, stemr
<1> QED
  BY <1>1, <1>2 DEF EigenPlans, Selecting

LEMMA EigenSuits ==
  ASSUME NEW d, IsArguments(d), NEW r \in DOMAIN EigenPlans(d),
         NEW f \in Counts, NEW need \in Int,
         f \in EigenPlans(d)[r].found, r = "tgsen" => need <= Exact, AsDocumented(r, d)
  PROVE  Suits(EigenPlans(d)[r], f, need)
<1> USE DEF Band, BandPencil, Packed, Full, Pencil
<1>1. r \in Selecting => f \in Hits(d)
  BY SelectingFinds
<1>2. ASSUME f \in Hits(d)
      PROVE  /\ Suits(hbevx(d), f, need) /\ Suits(sbevx(d), f, need)
             /\ Suits(hbevx_2stage(d), f, need) /\ Suits(sbevx_2stage(d), f, need)
             /\ Suits(hbgvx(d), f, need) /\ Suits(sbgvx(d), f, need)
             /\ Suits(hpevx(d), f, need) /\ Suits(spevx(d), f, need)
             /\ Suits(hpgvx(d), f, need) /\ Suits(spgvx(d), f, need)
             /\ Suits(stevx(d), f, need) /\ Suits(heevx(d), f, need)
             /\ Suits(heevx_2stage(d), f, need) /\ Suits(syevx(d), f, need)
             /\ Suits(hegvx(d), f, need) /\ Suits(sygvx(d), f, need)
             /\ Suits(syevx_2stage(d), f, need)
  BY <1>2, ExpertSuits
     DEF hbevx, sbevx, hbevx_2stage, sbevx_2stage, hbgvx, sbgvx, hpevx, spevx,
         hpgvx, spgvx, stevx, heevx, heevx_2stage, syevx, hegvx, sygvx,
         syevx_2stage
<1>3. r \in {"heevr", "heevr_2stage", "syevr", "syevr_2stage"} =>
        /\ Suits(heevr(d), f, need) /\ Suits(heevr_2stage(d), f, need)
        /\ Suits(syevr(d), f, need) /\ Suits(syevr_2stage(d), f, need)
  <2> DEFINE filled == d.vec /\ d.all
  <2> SUFFICES ASSUME r \in {"heevr", "heevr_2stage", "syevr", "syevr_2stage"}
               PROVE  /\ Suits(heevr(d), f, need) /\ Suits(heevr_2stage(d), f, need)
                      /\ Suits(syevr(d), f, need) /\ Suits(syevr_2stage(d), f, need)
    OBVIOUS
  <2>1. d.n \in Int /\ filled \in BOOLEAN /\ filled /\ d.n > 0
    BY ArgumentTypes DEF AsDocumented, UnfilledSupport
  <2>2. f \in Hits(d)
    BY <1>1 DEF Selecting
  <2>3. f = d.n
    BY <2>1, <2>2, HitsBound
  <2>4. /\ Reads(Support(filled, d.n), f) /\ ~Support(filled, d.n).eager
        /\ Support(filled, d.n).local >= 0 /\ Writes(Support(filled, d.n), f)
    BY <2>1, <2>3, SupportGood
  <2> QED
    BY <2>4, RobustSuits DEF heevr, heevr_2stage, syevr, syevr_2stage
<1>4. r \in {"stegr", "stevr", "stemr"} =>
        /\ Suits(stegr(d), f, need) /\ Suits(stevr(d), f, need)
        /\ Suits(stemr(d), f, need)
  <2> SUFFICES ASSUME r \in {"stegr", "stevr", "stemr"}
               PROVE  /\ Suits(stegr(d), f, need) /\ Suits(stevr(d), f, need)
                      /\ Suits(stemr(d), f, need)
    OBVIOUS
  <2>1. /\ d.n \in Int /\ d.n <= 0 /\ d.vec \in BOOLEAN
        /\ (d.vec /\ d.all) \in BOOLEAN
    BY ArgumentTypes DEF AsDocumented, HalfSupport
  <2>2. f \in Hits(d)
    BY <1>1 DEF Selecting
  <2>3. f = 0
    BY <2>1, <2>2, HitsBound
  <2>4. ASSUME NEW filled \in BOOLEAN
        PROVE  /\ Reads(FirstM(filled, d.n), f) /\ ~FirstM(filled, d.n).eager
               /\ FirstM(filled, d.n).local >= 0 /\ Writes(FirstM(filled, d.n), f)
    BY <2>1, <2>3, SupportGood
  <2>5. Suits(stegr(d), f, need) /\ Suits(stevr(d), f, need)
    BY <2>1, <2>4, RobustSuits DEF stegr, stevr
  <2>6. Suits(stemr(d), f, need)
    <3> DEFINE p == stemr(d)
               names == Packed \cup {"nzc"}
               isuppz == FirstM(d.vec, d.n)
    <3>1. /\ p.args = [x \in names |-> d[x]] /\ p.checked = names
          /\ p.derived = {} /\ ~p.narrowed /\ p.signed = IndexRange \cup {"nzc"}
          /\ p.work = 0 /\ p.status
          /\ p.ints = [m |-> Scalar, isuppz |-> isuppz, tryrac |-> Scalar]
      BY DEF stemr, Vr, EitherSign, Finding, Queried, Plain
    <3>2. "n" \in names \ (IndexRange \cup {"nzc"})
      BY DEF IndexRange
    <3>3. /\ Reads(isuppz, f) /\ ~isuppz.eager
          /\ isuppz.local >= 0 /\ Writes(isuppz, f)
      BY <2>1, <2>4
    <3> HIDE DEF p, names, isuppz
    <3>4. Suits(p, f, need)
      BY <3>1, <3>2, <3>3, VrSuits
    <3> QED
      BY <3>4 DEF p
  <2> QED
    BY <2>5, <2>6
<1>5. d.n \in Int /\ d.m \in Int /\ d.double \in BOOLEAN
  BY ArgumentTypes
<1>6. /\ Good(Scalar, f) /\ Scalar.local >= 0
      /\ \A n \in Int : /\ Good(In(n), f) /\ In(n).local = n
                        /\ Good(Out(n, n), f) /\ Out(n, n).local = n
                        /\ Good(Flags(n), f) /\ Flags(n).local = n
  BY ScalarGood, InGood, OutGood
<1>7. Split(d.n).local >= 0 /\ SplitFloat(d.n).local >= 0
  <2>1. /\ Split(d.n).local = Most(1, d.n) /\ SplitFloat(d.n).local = Most(1, d.n)
        /\ Most(1, d.n) >= 0
    BY <1>5 DEF Split, SplitFloat, Out, In, Most
  <2> QED
    BY <2>1
<1>8. Suits(stein(d), f, need)
  BY <1>5, <1>6, Columns, PlainSuits DEF stein
<1>9. /\ Suits(gees(d), f, need) /\ Suits(geesx(d), f, need)
      /\ Suits(geev(d), f, need) /\ Suits(gges(d), f, need)
      /\ Suits(gges3(d), f, need) /\ Suits(ggev(d), f, need)
      /\ Suits(ggev3(d), f, need) /\ Suits(hgeqz(d), f, need)
  BY SchurSuits
     DEF gees, geesx, geev, gges, gges3, ggev, ggev3, hgeqz
<1>10. r \in {"ggesx", "hseqr"} => Suits(ggesx(d), f, need) /\ Suits(hseqr(d), f, need)
  <2> DEFINE merged == IF d.double THEN SplitFloat(d.n) ELSE Split(d.n)
  <2>1. r \in {"ggesx", "hseqr"} => ~d.double \/ d.n <= 0
    BY <1>5 DEF AsDocumented, RoundedMerge
  <2>2. r \in {"ggesx", "hseqr"} => Good(merged, f) /\ merged.local >= 0
    BY <1>5, <1>7, <2>1, SplitGood
  <2> HIDE DEF merged
  <2> QED
    BY <1>6, <2>2, Columns, PlainSuits DEF ggesx, hseqr, merged
<1>11. /\ Suits(gebal(d), f, need) /\ Suits(ggbal(d), f, need)
       /\ Suits(trexc(d), f, need) /\ Suits(tgexc(d), f, need)
  BY <1>6, Columns, PlainSuits DEF gebal, ggbal, trexc, tgexc
<1>12. Suits(trevc(d), f, need) /\ Suits(trevc3(d), f, need)
  <2> DEFINE select == [InOut(d.n) EXCEPT !.always = TRUE]
  <2>1. Good(select, f) /\ select.local = d.n
    BY <1>5, LeastMost DEF InOut, In, Good, Reads, Writes, Always
  <2> DEFINE ints == [m |-> Scalar, select |-> select]
             names == {"n", "ldt", "ldvl", "ldvr", "mm"}
  <2>2. /\ d.n >= 0 \/ \E x \in names : d[x] < 0
        /\ 3*d.n >= 0 \/ \E x \in names : d[x] < 0
    BY Columns
  <2> HIDE DEF select, names
  <2>3. \A a \in DOMAIN ints :
          /\ Good(ints[a], f)
          /\ ints[a].local >= 0 \/ \E x \in names : d[x] < 0
    BY <1>6, <2>1, <2>2
  <2> HIDE DEF ints
  <2>4. /\ Suits(Plain(d, names, 3*d.n, ints), f, need)
        /\ Suits(Queried(d, names, 0, ints), f, need)
    BY <2>2, <2>3, PlainSuits
  <2> QED
    BY <2>4 DEF trevc, trevc3, select, names, ints
<1>13. Suits(trsen(d), f, need)
  BY <1>5, <1>6, <1>7, SplitGood, PlainSuits DEF trsen
<1>14. r = "tgsen" => Suits(tgsen(d), f, need)
  <2> DEFINE p == tgsen(d)
             alpha == [Split(d.n) EXCEPT !.local = d.n, !.eager = TRUE]
             names == {"ijob", "n", "lda", "ldb", "ldq", "ldz"}
  <2>1. /\ p.args = [x \in names |-> d[x]] /\ p.checked = names
        /\ p.derived = {}
        /\ ~p.narrowed /\ p.signed = {} /\ p.work = 0 /\ p.query = "plus"
        /\ p.ints = [sdim |-> Scalar, alpha |-> alpha]
    BY DEF tgsen, Queried, Plain
  <2>2. Reads(alpha, f) /\ Writes(alpha, f) /\ alpha.local = d.n
    BY <1>5, LeastMost DEF Split, Out, In, Reads, Writes, Always
  <2>3. "n" \in names
    OBVIOUS
  <2> HIDE DEF p, alpha, names
  <2>4. Regular(p) /\ (d.n < 0 => Illegal(p))
    BY <2>1, <2>3 DEF Regular, Bounded, Illegal
  <2>5. ASSUME r = "tgsen", NEW a \in DOMAIN p.ints
        PROVE  /\ Reads(p.ints[a], f) /\ Writes(p.ints[a], f)
               /\ Illegal(p) \/ p.ints[a].local >= 0
               /\ p.query # "none" /\ need <= Exact
    BY <1>5, <1>6, <2>1, <2>2, <2>4, <2>5 DEF Good
  <2>6. r = "tgsen" => Suits(p, f, need)
    BY <2>4, <2>5 DEF Suits
  <2> QED
    BY <2>6 DEF p
<1>15. Suits(tgsja(d), f, need)
  BY <1>6, Columns, PlainSuits DEF tgsja
<1> QED
  BY <1>1, <1>2, <1>3, <1>4, <1>8, <1>9, <1>10, <1>11, <1>12, <1>13, <1>14,
     <1>15, SMTT(20) DEF EigenPlans, Selecting

-----------------------------------------------------------------------------
(* Calls that are an exception to the documentation, and what stands of     *)
(* their plans.                                                             *)

\* The copy back is longer than the caller's array; it is not just the results;
\* a legal call is turned away.
Overruns(r, d) == NoPivots(r, d) \/ (UnfilledSupport(r, d) /\ ~d.all)
Miscopies(r, d) == NoPivots(r, d) \/ UnfilledSupport(r, d) \/ HalfSupport(r, d)
TurnsAway(r, d) == EmptyReflectors(r, d) \/ NoInterchanges(r, d)

\* What LAPACK fills is the caller's, and the local copy has room for it.
Lands(array, f) ==
  \A i \in Nat : i < array.fill[f] => i < array.doc[f] /\ i < array.local

\* The copy back ends within the caller's array.
Ends(array, f) == \A i \in Nat : i < array.out[f] => i < array.doc[f]

\* Plan p does for arguments d of routine r what Suits says, but for what d is an
\* exception to.  An array without a local copy in the ILP64 build is none.
Stands(r, d, p, f, need) ==
  /\ DerivedTooLarge(r, d) \/ Bounded(p)
  /\ TurnsAway(r, d) \/ Illegal(p) \/
       (p.work >= 0 /\ \A x \in p.derived : p.args[x] >= 0)
  /\ \A a \in DOMAIN p.ints :
       LET array == p.ints[a]
       IN  /\ Reads(array, f)
           /\ TurnsAway(r, d) \/ Illegal(p) \/ array.local >= 0
           /\ array.eager => p.query # "none" /\ (r = "tgsen" \/ need <= Exact)
           /\ \/ p.status /\ Illegal(p)
              \/ /\ Lands(array, f)
                 /\ array.always \/ ~Overruns(r, d) => Ends(array, f)
                 /\ (array.always \/ ~Miscopies(r, d)) /\ ~RoundedMerge(r, d) =>
                      Writes(array, f)

LEMMA WritesLands ==
  ASSUME NEW array, NEW f, Writes(array, f)
  PROVE  Lands(array, f) /\ Ends(array, f)
  BY DEF Writes, Lands, Ends

LEMMA SuitsStands ==
  ASSUME NEW r, NEW d, NEW p, NEW f, NEW need, Suits(p, f, need)
  PROVE  Stands(r, d, p, f, need)
<1>1. ASSUME NEW a \in DOMAIN p.ints
      PROVE  /\ Reads(p.ints[a], f)
             /\ \/ p.status /\ Illegal(p)
                \/ /\ Lands(p.ints[a], f) /\ Ends(p.ints[a], f)
                   /\ Writes(p.ints[a], f)
             /\ Illegal(p) \/ p.ints[a].local >= 0
             /\ p.ints[a].eager => p.query # "none" /\ need <= Exact
  BY WritesLands, Zenon DEF Suits
<1>2. Bounded(p) /\ (Illegal(p) \/ (p.work >= 0 /\ \A x \in p.derived : p.args[x] >= 0))
  BY DEF Suits, Regular
<1> QED
  BY <1>1, <1>2, Zenon DEF Stands

\* An array with which nothing is wrong but what d is an exception to.
Nearly(array, r, d, f) ==
  /\ Reads(array, f) /\ array.local >= 0 /\ ~array.eager /\ Lands(array, f)
  /\ Ends(array, f) \/ (~array.always /\ Overruns(r, d))
  /\ Writes(array, f) \/ RoundedMerge(r, d) \/ (~array.always /\ Miscopies(r, d))

LEMMA NearlyStands ==
  ASSUME NEW r, NEW d, NEW p, NEW f, NEW need, Regular(p),
         \A a \in DOMAIN p.ints : Nearly(p.ints[a], r, d, f)
  PROVE  Stands(r, d, p, f, need)
<1>1. ASSUME NEW a \in DOMAIN p.ints
      PROVE  /\ Reads(p.ints[a], f) /\ p.ints[a].local >= 0 /\ ~p.ints[a].eager
             /\ Lands(p.ints[a], f)
             /\ p.ints[a].always \/ ~Overruns(r, d) => Ends(p.ints[a], f)
             /\ (p.ints[a].always \/ ~Miscopies(r, d)) /\ ~RoundedMerge(r, d) =>
                  Writes(p.ints[a], f)
  BY Zenon DEF Nearly
<1>2. Bounded(p) /\ (Illegal(p) \/ (p.work >= 0 /\ \A x \in p.derived : p.args[x] >= 0))
  BY DEF Regular
<1> QED
  BY <1>1, <1>2, Zenon DEF Stands

LEMMA GoodNearly ==
  ASSUME NEW array, NEW r, NEW d, NEW f, Good(array, f), array.local >= 0
  PROVE  Nearly(array, r, d, f)
  BY WritesLands DEF Good, Nearly

\* Exceptions that have to do with integers alone.
LEMMA GoodStands ==
  ASSUME NEW r, NEW d, NEW p, NEW f, NEW need,
         DerivedTooLarge(r, d) \/ Bounded(p),
         TurnsAway(r, d) \/ Illegal(p) \/
           (p.work >= 0 /\ \A x \in p.derived : p.args[x] >= 0),
         \A a \in DOMAIN p.ints :
           /\ Good(p.ints[a], f)
           /\ TurnsAway(r, d) \/ Illegal(p) \/ p.ints[a].local >= 0
  PROVE  Stands(r, d, p, f, need)
<1>1. ASSUME NEW a \in DOMAIN p.ints
      PROVE  /\ Reads(p.ints[a], f) /\ ~p.ints[a].eager
             /\ Lands(p.ints[a], f) /\ Ends(p.ints[a], f) /\ Writes(p.ints[a], f)
             /\ TurnsAway(r, d) \/ Illegal(p) \/ p.ints[a].local >= 0
  BY WritesLands, Zenon DEF Good
<1> QED
  BY <1>1, Zenon DEF Stands

\* An ipiv that has one cell where the matrix is empty.
LEMMA PivotsStand ==
  ASSUME NEW r, NEW d, IsArguments(d), NoPivots(r, d), NEW f \in Counts, NEW need
  PROVE  /\ r = "gesv" => Stands(r, d, gesv(d), f, need)
         /\ r = "gesvIter" => Stands(r, d, gesvIter(d), f, need)
         /\ r = "getf2" => Stands(r, d, getf2(d), f, need)
         /\ r = "getrf" => Stands(r, d, getrf(d), f, need)
         /\ r = "getrf2" => Stands(r, d, getrf2(d), f, need)
<1>1. ASSUME NEW n \in Int PROVE Nearly(Out(n, Most(1, n)), r, d, f)
  <2> DEFINE array == Out(n, Most(1, n))
  <2>1. /\ array.local = Most(1, n) /\ array.fill[f] = NonNeg(n)
        /\ array.doc[f] = NonNeg(n) /\ array.always = FALSE
    BY DEF Out, In, Always
  <2>2. /\ Most(1, n) \in Int /\ Most(1, n) >= 0 /\ NonNeg(n) \in Int
        /\ NonNeg(n) <= Most(1, n)
    BY DEF Most, NonNeg
  <2>3. Reads(array, f) /\ ~array.eager
    BY NonEmptyGood
  <2> HIDE DEF array
  <2>4. Lands(array, f) /\ array.local >= 0
    BY <2>1, <2>2 DEF Lands
  <2>5. Overruns(r, d) /\ Miscopies(r, d)
    BY DEF Overruns, Miscopies
  <2> QED
    BY <2>1, <2>3, <2>4, <2>5 DEF Nearly, array
<1>2. Nearly(Scalar, r, d, f)
  BY ScalarGood, GoodNearly
<1>3. d.n \in Int /\ Least(d.m, d.n) \in Int
  BY ArgumentTypes DEF Least
<1>4. ASSUME NEW names, NEW n \in Int
      PROVE  Stands(r, d, Plain(d, names, 0, [ipiv |-> Out(n, Most(1, n))]), f, need)
  <2>1. \A ints : /\ Regular(Plain(d, names, 0, ints))
                  /\ Plain(d, names, 0, ints).ints = ints
    BY PlainRegular
  <2> QED
    BY <1>1, <2>1, NearlyStands
<1>5. Stands(r, d, gesvIter(d), f, need)
  <2> DEFINE p == gesvIter(d)
  <2>1. \/ d.n < 0 \/ d.nrhs < 0
        \/ Least(d.n*d.nrhs, d.n*(d.n + d.nrhs)) >= 0
    BY ArgumentTypes, Products DEF Least
  <2>2. Regular(p) /\ p.ints = [ipiv |-> Out(d.n, Most(1, d.n)), iter |-> Scalar]
    BY <2>1, PlainRegular DEF gesvIter
  <2> HIDE DEF p
  <2>3. \A a \in DOMAIN p.ints : Nearly(p.ints[a], r, d, f)
    BY <1>1, <1>2, <1>3, <2>2
  <2>4. Stands(r, d, p, f, need)
    BY <2>2, <2>3, NearlyStands
  <2> QED
    BY <2>4 DEF p
<1> QED
  BY <1>3, <1>4, <1>5 DEF gesv, getf2, getrf, getrf2

\* An isuppz that is copied back whole, or by half.
LEMMA SupportStands ==
  ASSUME NEW r, NEW d, IsArguments(d), NEW filled \in BOOLEAN, NEW f \in Hits(d),
         f \in Counts
  PROVE  /\ UnfilledSupport(r, d) => Nearly(Support(filled, d.n), r, d, f)
         /\ HalfSupport(r, d) => Nearly(FirstM(filled, d.n), r, d, f)
<1> DEFINE whole == Support(filled, d.n)
           half == FirstM(filled, d.n)
           cells == 2 * Most(1, d.n)
           room == 2 * Most(1, f)
           full == IF filled THEN 2*f ELSE 0
<1>1. /\ whole.doc[f] = room /\ whole.local = cells /\ whole.fill[f] = full
      /\ whole.out[f] = cells /\ whole.always = FALSE
  BY DEF Support, Out, In, Always
<1>2. /\ half.doc[f] = room /\ half.local = cells /\ half.fill[f] = full
      /\ half.out[f] = f /\ half.always = FALSE
  BY DEF FirstM, Support, Out, In, Always
<1>3. /\ cells \in Int /\ room \in Int /\ full \in Int /\ f \in Int
      /\ full <= room /\ full <= cells /\ f <= room /\ cells >= 0
      /\ d.all => cells <= room
  <2>1. d.n \in Int /\ f \in Nat /\ f <= NonNeg(d.n) /\ (d.all /\ d.n >= 0 => f = d.n)
    BY ArgumentTypes, HitsBound
  <2> QED
    BY <2>1 DEF Most, NonNeg
<1>4. Reads(whole, f) /\ Reads(half, f) /\ ~whole.eager /\ ~half.eager
  BY ArgumentTypes, SupportGood
<1> HIDE DEF whole, half, cells, room, full
<1>5. Lands(whole, f) /\ Lands(half, f) /\ Ends(half, f) /\ (d.all => Ends(whole, f))
  BY <1>1, <1>2, <1>3 DEF Lands, Ends
<1>6. UnfilledSupport(r, d) => Nearly(whole, r, d, f)
  BY <1>1, <1>3, <1>4, <1>5 DEF Nearly, Overruns, Miscopies
<1>7. HalfSupport(r, d) => Nearly(half, r, d, f)
  BY <1>2, <1>3, <1>4, <1>5 DEF Nearly, Miscopies
<1> QED
  BY <1>6, <1>7 DEF whole, half

\* The seven drivers with such an isuppz.
LEMMA RobustStand ==
  ASSUME NEW r, NEW d, IsArguments(d), NEW f \in Hits(d), f \in Counts, NEW need
  PROVE  /\ UnfilledSupport(r, d) =>
              /\ Stands(r, d, heevr(d), f, need)
              /\ Stands(r, d, heevr_2stage(d), f, need)
              /\ Stands(r, d, syevr(d), f, need)
              /\ Stands(r, d, syevr_2stage(d), f, need)
         /\ HalfSupport(r, d) =>
              /\ Stands(r, d, stegr(d), f, need)
              /\ Stands(r, d, stevr(d), f, need)
              /\ Stands(r, d, stemr(d), f, need)
<1>1. Nearly(Scalar, r, d, f) /\ Nearly(OutScalar, r, d, f)
  BY ScalarGood, GoodNearly
<1>2. ASSUME NEW p, p.derived = {},
             ~p.narrowed, p.work = 0, p.checked = DOMAIN p.args, NEW isuppz,
             Nearly(isuppz, r, d, f),
             \A a \in DOMAIN p.ints : p.ints[a] \in {Scalar, OutScalar, isuppz}
      PROVE  Stands(r, d, p, f, need)
  <2>1. Regular(p)
    BY <1>2 DEF Regular, Bounded
  <2>2. \A a \in DOMAIN p.ints : Nearly(p.ints[a], r, d, f)
    BY <1>1, <1>2
  <2> QED
    BY <2>1, <2>2, NearlyStands
<1>3. ASSUME NEW names, NEW count \in {"m", "nfound"}, NEW isuppz,
             Nearly(isuppz, r, d, f)
      PROVE  /\ Stands(r, d, Vr(d, names, count, isuppz), f, need)
             /\ count = "nfound" =>
                  Stands(r, d, [Vr(d, names, count, isuppz) EXCEPT
                                  !.ints["nfound"] = OutScalar], f, need)
  <2> DEFINE p == Vr(d, names, count, isuppz)
             o == [p EXCEPT !.ints["nfound"] = OutScalar]
  <2>1. /\ p.args = [x \in names |-> d[x]] /\ p.checked = names
        /\ p.derived = {} /\ ~p.narrowed /\ p.work = 0
        /\ p.ints = With(count, "isuppz", isuppz)
    BY DEF Vr, EitherSign, Finding, Queried, Plain
  <2>2. /\ o.args = p.args /\ o.checked = p.checked /\ o.derived = p.derived
        /\ o.narrowed = p.narrowed
        /\ o.work = p.work /\ o.ints = [p.ints EXCEPT !["nfound"] = OutScalar]
    BY DEF Vr, EitherSign, Finding, Queried, Plain
  <2>3. \A a \in DOMAIN p.ints : p.ints[a] \in {Scalar, OutScalar, isuppz}
    BY <2>1 DEF With
  <2> HIDE DEF p, o
  <2>4. Stands(r, d, p, f, need)
    BY <1>2, <1>3, <2>1, <2>3
  <2>5. \A a \in DOMAIN o.ints : o.ints[a] \in {Scalar, OutScalar, isuppz}
    BY <2>2, <2>3
  <2>6. o.checked = DOMAIN o.args /\ o.derived = {} /\ ~o.narrowed /\ o.work = 0
    BY <2>1, <2>2
  <2>7. Stands(r, d, o, f, need)
    BY <1>2, <1>3, <2>5, <2>6
  <2> QED
    BY <2>4, <2>7 DEF p, o
<1>4. d.vec \in BOOLEAN /\ (d.vec /\ d.all) \in BOOLEAN
  BY ArgumentTypes
<1>5. ASSUME UnfilledSupport(r, d)
      PROVE  /\ Stands(r, d, heevr(d), f, need) /\ Stands(r, d, heevr_2stage(d), f, need)
             /\ Stands(r, d, syevr(d), f, need) /\ Stands(r, d, syevr_2stage(d), f, need)
  <2>1. Nearly(Support(d.vec /\ d.all, d.n), r, d, f)
    BY <1>4, <1>5, SupportStands
  <2> QED
    BY <1>3, <2>1 DEF heevr, heevr_2stage, syevr, syevr_2stage
<1>6. ASSUME HalfSupport(r, d)
      PROVE  /\ Stands(r, d, stegr(d), f, need) /\ Stands(r, d, stevr(d), f, need)
             /\ Stands(r, d, stemr(d), f, need)
  <2>1. /\ Nearly(FirstM(d.vec /\ d.all, d.n), r, d, f)
        /\ Nearly(FirstM(d.vec, d.n), r, d, f)
    BY <1>4, <1>6, SupportStands
  <2>2. Stands(r, d, stemr(d), f, need)
    <3> DEFINE p == stemr(d)
    <3>1. /\ p.checked = DOMAIN p.args /\ p.derived = {}
          /\ ~p.narrowed /\ p.work = 0
          /\ p.ints = [m |-> Scalar, isuppz |-> FirstM(d.vec, d.n), tryrac |-> Scalar]
      BY DEF stemr, Vr, EitherSign, Finding, Queried, Plain
    <3> HIDE DEF p
    <3>2. \A a \in DOMAIN p.ints : p.ints[a] \in {Scalar, OutScalar, FirstM(d.vec, d.n)}
      BY <3>1
    <3>3. Stands(r, d, p, f, need)
      BY <1>2, <2>1, <3>1, <3>2
    <3> QED
      BY <3>3 DEF p
  <2> QED
    BY <1>3, <2>1, <2>2 DEF stegr, stevr
<1> QED
  BY <1>5, <1>6

\* Eigenvalues that are merged through a narrower type.
LEMMA MergesStand ==
  ASSUME NEW r, NEW d, IsArguments(d), RoundedMerge(r, d), NEW f \in Counts, NEW need
  PROVE  Stands(r, d, hseqr(d), f, need) /\ Stands(r, d, ggesx(d), f, need)
<1> DEFINE array == SplitFloat(d.n)
<1>1. d.n \in Int /\ d.double
  BY ArgumentTypes DEF RoundedMerge
<1>2. /\ array.in = 0 /\ array.local = Most(1, d.n) /\ array.eager = FALSE
      /\ array.doc[f] = NonNeg(d.n) /\ array.fill[f] = NonNeg(d.n)
      /\ array.out[f] = NonNeg(d.n)
  BY DEF SplitFloat, Split, Out, In, Always
<1>3. /\ Most(1, d.n) \in Int /\ Most(1, d.n) >= 0 /\ NonNeg(d.n) \in Int
      /\ NonNeg(d.n) <= Most(1, d.n)
  BY <1>1 DEF Most, NonNeg
<1>4. hseqr(d) = Queried(d, {"n", "ilo", "ihi", "ldh", "ldz"}, 0, [W |-> array])
  BY <1>1 DEF hseqr
<1>5. ggesx(d) = Queried(d, Pencil, d.n, [sdim |-> Scalar, alpha |-> array])
  BY <1>1 DEF ggesx
<1> HIDE DEF array
<1>6. Nearly(array, r, d, f) /\ Nearly(Scalar, r, d, f)
  <2>1. Reads(array, f) /\ Lands(array, f) /\ Ends(array, f)
    BY <1>2, <1>3 DEF Reads, Lands, Ends
  <2> QED
    BY <1>2, <1>3, <2>1, ScalarGood, GoodNearly DEF Nearly
<1>7. ASSUME NEW names, "n" \in names, NEW work \in {0, d.n}, NEW ints,
             \A a \in DOMAIN ints : Nearly(ints[a], r, d, f)
      PROVE  Stands(r, d, Queried(d, names, work, ints), f, need)
  <2>1. /\ Regular(Queried(d, names, work, ints))
        /\ Queried(d, names, work, ints).ints = ints
    BY <1>1, <1>7, PlainRegular
  <2> QED
    BY <1>7, <2>1, NearlyStands
<1>8. "n" \in Pencil
  BY DEF Pencil
<1> QED
  BY <1>4, <1>5, <1>6, <1>7, <1>8

\* No reflectors of an empty matrix; lengths and indices that are not checked;
\* interchanges in an array of negative length.
LEMMA IntegersStand ==
  ASSUME NEW r, NEW d, IsArguments(d), NEW f \in Counts, NEW need
  PROVE  /\ EmptyReflectors(r, d) =>
              Stands(r, d, opgtr(d), f, need) /\ Stands(r, d, upgtr(d), f, need)
         /\ DerivedTooLarge(r, d) =>
              /\ Stands(r, d, gemqrt(d), f, need) /\ Stands(r, d, laed4(d), f, need)
              /\ Stands(r, d, hetrs_aa(d), f, need)
              /\ Stands(r, d, sytrs_aa(d), f, need)
         /\ NoInterchanges(r, d) => Stands(r, d, laswp(d), f, need)
<1>1. ASSUME EmptyReflectors(r, d)
      PROVE  Stands(r, d, opgtr(d), f, need) /\ Stands(r, d, upgtr(d), f, need)
  <2>1. /\ Bounded(opgtr(d)) /\ opgtr(d).ints = <<>>
        /\ Bounded(upgtr(d)) /\ upgtr(d).ints = <<>>
    BY DEF Bounded, opgtr, upgtr, Plain
  <2>2. TurnsAway(r, d)
    BY <1>1 DEF TurnsAway
  <2> QED
    BY <2>1, <2>2, GoodStands
<1>2. ASSUME DerivedTooLarge(r, d)
      PROVE  Stands(r, d, gemqrt(d), f, need)
  <2> DEFINE p == gemqrt(d)
             names == {"m", "n", "k", "nb", "ldv", "ldt", "ldc"}
             length == Opposite(d)*d.nb
  <2>1. /\ p.args = [x \in names |-> d[x]]
        /\ p.derived = {} /\ p.signed = {} /\ p.work = length /\ p.ints = <<>>
    BY DEF gemqrt, NarrowingWork, Plain
  <2>2. d.m < 0 \/ d.n < 0 \/ d.nb < 0 \/ length >= 0
    BY Opposites
  <2> HIDE DEF p, length
  <2>3. Illegal(p) \/ (p.work >= 0 /\ \A x \in p.derived : p.args[x] >= 0)
    BY <2>1, <2>2 DEF Illegal
  <2>4. Stands(r, d, p, f, need)
    BY <1>2, <2>1, <2>3, GoodStands
  <2> QED
    BY <2>4 DEF p
<1>3. ASSUME DerivedTooLarge(r, d)
      PROVE  Stands(r, d, laed4(d), f, need)
  <2> DEFINE p == laed4(d)
  <2>1. /\ p.args = [x \in {"n", "i", "i_"} |-> IF x = "i_" THEN d.i + 1 ELSE d[x]]
        /\ p.derived = {"i_"}
        /\ ~p.narrowed /\ p.signed = {} /\ p.work = 0 /\ p.ints = <<>>
    BY DEF laed4, Deriving, Unchecked, Plain
  <2>2. d.i \in Int
    BY ArgumentTypes
  <2> HIDE DEF p
  <2>3. Illegal(p) \/ (p.work >= 0 /\ \A x \in p.derived : p.args[x] >= 0)
    BY <2>1, <2>2 DEF Illegal
  <2>4. Stands(r, d, p, f, need)
    BY <1>3, <2>1, <2>3, GoodStands
  <2> QED
    BY <2>4 DEF p
<1>4. ASSUME DerivedTooLarge(r, d)
      PROVE  Stands(r, d, hetrs_aa(d), f, need) /\ Stands(r, d, sytrs_aa(d), f, need)
  <2> DEFINE p == TrsAasen(d)
             room == Most(1, 3*d.n - 2)
  <2>1. d.n \in Int /\ room >= 0
    BY ArgumentTypes DEF Most
  <2>2. /\ p.args = [x \in {"n", "nrhs", "lda", "ldb", "lwork"} |->
                       IF x = "lwork" THEN room ELSE d[x]]
        /\ p.derived = {"lwork"} /\ ~p.narrowed /\ p.signed = {} /\ p.work = 0
        /\ p.ints = [ipiv |-> In(d.n)]
    BY DEF TrsAasen, Deriving, Trs, Plain
  <2> HIDE DEF p, room
  <2>3. p.work >= 0 /\ \A x \in p.derived : p.args[x] >= 0
    BY <2>1, <2>2
  <2>4. \A a \in DOMAIN p.ints : p.ints[a] = In(d.n)
    BY <2>2
  <2>5. d.n >= 0 \/ Illegal(p)
    BY <2>1, <2>2 DEF Illegal
  <2>6. \A a \in DOMAIN p.ints :
          Good(p.ints[a], f) /\ (Illegal(p) \/ p.ints[a].local >= 0)
    BY <2>1, <2>4, <2>5, InGood, ZenonT(20)
  <2>7. Stands(r, d, p, f, need)
    BY <1>4, <2>3, <2>6, GoodStands
  <2> QED
    BY <2>7 DEF p, hetrs_aa, sytrs_aa
<1>5. ASSUME NoInterchanges(r, d)
      PROVE  Stands(r, d, laswp(d), f, need)
  <2> DEFINE p == laswp(d)
  <2>1. Interchanges(d) \in Int
    BY ArgumentTypes DEF Interchanges
  <2>2. Bounded(p) /\ p.ints = [ipiv |-> In(Interchanges(d))]
    BY DEF laswp, Bounded, EitherSign, Unchecked, Plain
  <2>3. Good(In(Interchanges(d)), f)
    BY <2>1, InGood
  <2> HIDE DEF p
  <2>4. \A a \in DOMAIN p.ints : Good(p.ints[a], f)
    BY <2>2, <2>3
  <2>5. Stands(r, d, p, f, need)
    BY <1>5, <2>2, <2>4, GoodStands DEF TurnsAway
  <2> QED
    BY <2>5 DEF p
<1> QED
  BY <1>1, <1>2, <1>3, <1>4, <1>5

\* alpha is merged before info is looked at, however much workspace is needed.
LEMMA TgsenStands ==
  ASSUME NEW d, IsArguments(d), NEW f \in Counts, NEW need
  PROVE  Stands("tgsen", d, tgsen(d), f, need)
<1> DEFINE p == tgsen(d)
           alpha == [Split(d.n) EXCEPT !.local = d.n, !.eager = TRUE]
           names == {"ijob", "n", "lda", "ldb", "ldq", "ldz"}
<1>1. /\ p.args = [x \in names |-> d[x]] /\ p.checked = names
      /\ p.derived = {}
      /\ ~p.narrowed /\ p.signed = {} /\ p.work = 0 /\ p.query = "plus"
      /\ p.ints = [sdim |-> Scalar, alpha |-> alpha]
  BY DEF tgsen, Queried, Plain
<1>2. Reads(alpha, f) /\ Writes(alpha, f) /\ alpha.local = d.n /\ d.n \in Int
  BY ArgumentTypes, LeastMost DEF Split, Out, In, Reads, Writes, Always
<1>3. "n" \in names
  OBVIOUS
<1>4. Reads(Scalar, f) /\ Writes(Scalar, f) /\ Scalar.local >= 0
  BY ScalarGood DEF Good
<1> HIDE DEF p, alpha, names
<1>5. Bounded(p) /\ p.work >= 0 /\ p.derived = {} /\ (d.n < 0 => Illegal(p))
  BY <1>1, <1>3 DEF Bounded, Illegal
<1>6. ASSUME NEW a \in DOMAIN p.ints
      PROVE  /\ Reads(p.ints[a], f) /\ Writes(p.ints[a], f)
             /\ Lands(p.ints[a], f) /\ Ends(p.ints[a], f)
             /\ Illegal(p) \/ p.ints[a].local >= 0
  BY <1>1, <1>2, <1>4, <1>5, WritesLands
<1> QED
  BY <1>1, <1>5, <1>6 DEF Stands, p

-----------------------------------------------------------------------------
(* Every wrapper.                                                           *)

\* Call c is one of a routine of family P.
Of(c, P) == c.routine \in DOMAIN P /\ c.plan = P[c.routine]

\* It is made with arguments d.
Made(c, d) ==
  /\ IsArguments(d)
  /\ \/ Of(c, LUPlans(d))
     \/ Of(c, IndefinitePlans(d))
     \/ Of(c, EigenPlans(d))
     \/ Of(c, LeastSquaresPlans(d))
     \/ Of(c, CholeskyPlans(d))
     \/ Of(c, OrthogonalPlans(d))
     \/ Of(c, SymmetricPlans(d))
     \/ Of(c, GeneralPlans(d))
     \/ Of(c, NormsPlans(d))

\* All calls are calls of wrappers, with any arguments.
Wrapped == \A c \in Calls : c.found \in Counts /\ \E d : Made(c, d)

\* Besides, the documentation is right about all of them.
Planned ==
  \A c \in Calls :
    /\ c.found \in Counts /\ Countable(c)
    /\ \E d : Made(c, d) /\ AsDocumented(c.routine, d)

LEMMA PlannedSuits ==
  ASSUME NEW c \in Calls, NEW d, Made(c, d), AsDocumented(c.routine, d),
         c.found \in Counts, Countable(c)
  PROVE  Suits(c.plan, c.found, c.need)
<1>1. CASE Of(c, LUPlans(d))
  BY <1>1, LUSuits DEF Of, Made
<1>2. CASE Of(c, IndefinitePlans(d))
  BY <1>2, IndefiniteSuits DEF Of, Made
<1>3. CASE Of(c, EigenPlans(d))
  <2>1. c.need \in Int /\ c.found \in c.plan.found
    BY CallsAssumption
  <2>2. AsDocumented(c.routine, d) /\ (c.routine = "tgsen" => c.need <= Exact)
    BY DEF Countable
  <2> QED
    BY <1>3, <2>1, <2>2, EigenSuits DEF Of, Made
<1>4. CASE Of(c, LeastSquaresPlans(d))
  BY <1>4, LeastSquaresSuits DEF Of, Made
<1>5. CASE Of(c, CholeskyPlans(d))
  BY <1>5, CholeskySuits DEF Of, Made
<1>6. CASE Of(c, OrthogonalPlans(d))
  BY <1>6, OrthogonalSuits DEF Of, Made
<1>7. CASE Of(c, SymmetricPlans(d))
  BY <1>7, SymmetricSuits DEF Of, Made
<1>8. CASE Of(c, GeneralPlans(d))
  BY <1>8, GeneralSuits DEF Of, Made
<1>9. CASE Of(c, NormsPlans(d))
  BY <1>9, NormsSuits DEF Of, Made
<1> QED
  BY <1>1, <1>2, <1>3, <1>4, <1>5, <1>6, <1>7, <1>8, <1>9 DEF Made

\* Whatever its size, the plan of a call of which the documentation is right is
\* sound: what a wrapper reads, allocates, fills and copies back fits together.
THEOREM PlansAreSound == Spec /\ Planned => []Sound
<1>1. Init /\ Planned => Sound
  BY PlannedSuits, SuitsSound DEF Init, Planned, plan
<1>2. Sound /\ [Next]_vars => Sound'
  BY SoundKept
<1> QED
  BY <1>1, <1>2, PTL DEF Spec

\* Nothing of the wrapper's own making fails, and LAPACK looks at every integer.
Sturdy(p) ==
  /\ ~p.invalid /\ p.status /\ p.signed = {} /\ p.work >= 0 /\ ~p.narrowed
  /\ \A a \in DOMAIN p.ints : p.ints[a].local >= 0

LEMMA TestedSturdy ==
  ASSUME NEW c, NEW d, Made(c, d), c.routine \in ErrorTested
  PROVE  Sturdy(c.plan)
<1>1. d.n \in Int /\ d.m \in Int /\ Least(d.m, d.n) \in Int
  BY ArgumentTypes DEF Least, Made
<1>2. \A n \in Int : Most(1, n) >= 0
  BY DEF Most
<1>3. ASSUME NEW names, NEW array, array.local >= 0
      PROVE  /\ Sturdy(Plain(d, names, 0, [ipiv |-> array]))
             /\ Sturdy(Queried(d, names, 0, [ipiv |-> array]))
  BY <1>3 DEF Sturdy, Plain, Queried
<1>4. \A n \in Int : Out(n, Most(1, n)).local >= 0
  <2>1. \A n : Out(n, Most(1, n)).local = Most(1, n)
    BY DEF Out, In
  <2> QED
    BY <1>2, <2>1
<1>5. [In(d.n) EXCEPT !.local = Most(1, d.n)].local >= 0
  <2>1. [In(d.n) EXCEPT !.local = Most(1, d.n)].local = Most(1, d.n)
    BY DEF In
  <2> QED
    BY <1>1, <1>2, <2>1
<1>6. Sturdy(gesv(d)) /\ Sturdy(getrf(d))
  BY <1>1, <1>3, <1>4 DEF gesv, getrf
<1>7. Sturdy(getri(d)) /\ Sturdy(getrs(d))
  BY <1>3, <1>5 DEF getri, getrs
<1>8. /\ Sturdy(posv(d)) /\ Sturdy(potrf(d)) /\ Sturdy(potri(d))
      /\ Sturdy(potrs(d))
  BY DEF Sturdy, Plain, posv, potrf, potri, potrs
<1>9. CASE Of(c, LUPlans(d))
  <2>1. c.plan \in {gesv(d), getrf(d), getri(d), getrs(d)}
    BY <1>9 DEF Of, ErrorTested, LUPlans
  <2> QED
    BY <1>6, <1>7, <2>1
<1>10. CASE Of(c, CholeskyPlans(d))
  <2>1. c.plan \in {posv(d), potrf(d), potri(d), potrs(d)}
    BY <1>10 DEF Of, ErrorTested, CholeskyPlans
  <2> QED
    BY <1>8, <2>1
<1>11. ~Of(c, IndefinitePlans(d))
  BY DEF Of, ErrorTested, IndefinitePlans
<1>12. ~Of(c, EigenPlans(d))
  BY DEF Of, ErrorTested, EigenPlans
<1>13. ~Of(c, LeastSquaresPlans(d))
  BY DEF Of, ErrorTested, LeastSquaresPlans
<1>14. ~Of(c, OrthogonalPlans(d))
  BY DEF Of, ErrorTested, OrthogonalPlans
<1>15. ~Of(c, SymmetricPlans(d))
  BY DEF Of, ErrorTested, SymmetricPlans
<1>16. ~Of(c, GeneralPlans(d))
  BY DEF Of, ErrorTested, GeneralPlans
<1>17. ~Of(c, NormsPlans(d))
  BY DEF Of, ErrorTested, NormsPlans
<1> QED
  BY <1>9, <1>10, <1>11, <1>12, <1>13, <1>14, <1>15, <1>16, <1>17 DEF Made

\* A negative argument that fits lapack_int ends in lapack::Error, or for want of
\* memory, as the drivers in test/ expect of these eight.
LEMMA SturdyExit == Inductive /\ Sturdy(plan) => ErrorExit
<1> SUFFICES ASSUME Inductive, Sturdy(plan), pc \in Ended,
                    \A x \in Names : plan.args[x] \in -NarrowMax .. NarrowMax,
                    NEW x \in Names, plan.args[x] < 0
             PROVE  pc \in {"error", "memory"}
  BY DEF ErrorExit
<1> USE DEF Inductive
<1>1. \A y \in Names : Narrow(plan.args[y]) = plan.args[y]
  BY NarrowKeeps
<1>2. ~Strayed
  BY <1>1 DEF Strayed, Truncated, WorkLength, Sturdy
<1>3. Hopeless
  BY <1>1 DEF Hopeless, Sturdy
<1>4. ~BadLength
  <2>1. \A a \in Arrays : plan.ints[a].local \in Int
    BY CallsAssumption DEF Typed, Arrays, plan
  <2> QED
    BY <2>1 DEF BadLength, Sturdy, Arrays
<1>5. ~(plan.work < 0)
  <2>1. plan.work \in Int
    BY CallsAssumption DEF Typed, plan
  <2> QED
    BY <2>1 DEF Sturdy
<1>6. pc \notin {"overflow", "aborted"}
  <2>1. plan.checked \subseteq Names
    BY CallsAssumption DEF Typed, plan, Names
  <2> QED
    BY <2>1 DEF Blamed, Sturdy
<1>7. pc # "length" /\ pc # "astray" /\ pc # "done"
  BY <1>2, <1>3, <1>4, <1>5 DEF Blamed, Converted, Answered, Strayed
<1> QED
  BY <1>6, <1>7 DEF Ended, Thrown

\* A negative argument of gesv, getrf, getri, getrs, posv, potrf, potri or potrs
\* ends the call with lapack::Error (or the lack of memory) in either build,
\* never with std::length_error or a result.
THEOREM NegativeArgumentsAreErrors == Spec /\ Wrapped => []ErrorExit
<1> DEFINE Tested == call.routine \in ErrorTested => Sturdy(plan)
<1>1. Init /\ Wrapped => Tested
  BY TestedSturdy DEF Init, Wrapped, plan
<1>2. Tested /\ [Next]_vars => Tested'
  BY CallKept
<1>3. Inductive /\ Tested => ErrorExit
  BY SturdyExit DEF ErrorExit
<1> HIDE DEF Tested
<1> QED
  BY <1>1, <1>2, <1>3, AlwaysInductive, PTL DEF Spec

\* What HostCallProofs shows of sound plans is so of every wrapper: the integers
\* it passes (lantr's after its safeguard) and the workspace it works out reach
\* LAPACK whole, arrays are touched within their documented lengths, all
\* results are delivered, a throw leaves the caller's arrays alone, the local
\* vectors and workspaces suffice, and no legal call is turned away.
THEOREM WrappersAreSafe ==
  Spec /\ Planned =>
    [](/\ NoTruncation /\ InBounds /\ Delivered /\ ThrowsClean
       /\ LocalsSuffice /\ QuerySuffices /\ TakesLegalCalls)
<1>1. Sound => Checked /\ Roomy /\ Inside /\ Faithful /\ Patient /\ Spacious
  BY DEF Sound, Fits, Settled, Inside, Faithful, Patient, Spacious
<1> QED
  BY <1>1, PlansAreSound, WholeIntegers, WithinArrays, ResultsArrive, ThrownClean,
     LocalsHold, LegalTaken, QueriesSuffice, AlwaysInductive, PTL
-----------------------------------------------------------------------------
(* Exceptions are no worse than that.                                       *)

Exceptions ==
  {"getf2", "getrf", "getrf2", "gesv", "gesvIter", "laswp", "heevr", "heevr_2stage",
   "syevr", "syevr_2stage", "stegr", "stemr", "stevr", "hseqr", "ggesx", "tgsen",
   "opgtr", "upgtr", "gemqrt", "hetrs_aa", "sytrs_aa", "laed4"}

\* Each is of one family only.
LEMMA ExceptionPlans ==
  ASSUME NEW c, NEW d, Made(c, d), c.routine \in Exceptions
  PROVE  \/ Of(c, LUPlans(d)) /\ c.routine \in OfM \cup {"gesv", "gesvIter", "laswp"}
         \/ /\ Of(c, EigenPlans(d))
            /\ c.routine \in {"heevr", "heevr_2stage", "syevr", "syevr_2stage", "stegr",
                              "stemr", "stevr", "hseqr", "ggesx", "tgsen"}
         \/ Of(c, OrthogonalPlans(d)) /\ c.routine \in {"opgtr", "upgtr", "gemqrt"}
         \/ Of(c, IndefinitePlans(d)) /\ c.routine \in {"hetrs_aa", "sytrs_aa"}
         \/ Of(c, SymmetricPlans(d)) /\ c.routine = "laed4"
<1>1. Of(c, LUPlans(d)) =>
        c.routine \in OfM \cup {"gesv", "gesvIter", "laswp"}
  BY DEF Of, LUPlans, Exceptions, OfM
<1>2. Of(c, EigenPlans(d)) =>
        c.routine \in {"heevr", "heevr_2stage", "syevr", "syevr_2stage", "stegr",
                       "stemr", "stevr", "hseqr", "ggesx", "tgsen"}
  BY DEF Of, EigenPlans, Exceptions
<1>3. Of(c, OrthogonalPlans(d)) => c.routine \in {"opgtr", "upgtr", "gemqrt"}
  BY DEF Of, OrthogonalPlans, Exceptions
<1>4. Of(c, IndefinitePlans(d)) => c.routine \in {"hetrs_aa", "sytrs_aa"}
  BY DEF Of, IndefinitePlans, Exceptions
<1>5. Of(c, SymmetricPlans(d)) => c.routine = "laed4"
  BY DEF Of, SymmetricPlans, Exceptions
<1>6. ~Of(c, LeastSquaresPlans(d))
  BY DEF Of, LeastSquaresPlans, Exceptions
<1>7. ~Of(c, CholeskyPlans(d))
  BY DEF Of, CholeskyPlans, Exceptions
<1>8. ~Of(c, GeneralPlans(d))
  BY DEF Of, GeneralPlans, Exceptions
<1>9. ~Of(c, NormsPlans(d))
  BY DEF Of, NormsPlans, Exceptions
<1> QED
  BY <1>1, <1>2, <1>3, <1>4, <1>5, <1>6, <1>7, <1>8, <1>9 DEF Made

LEMMA MadeStands ==
  ASSUME NEW c \in Calls, NEW d, Made(c, d), c.found \in Counts
  PROVE  Stands(c.routine, d, c.plan, c.found, c.need)
<1> DEFINE r == c.routine
<1>1. IsArguments(d) /\ c.found \in c.plan.found
  BY CallsAssumption DEF Made
<1>2. CASE AsDocumented(r, d) /\ Countable(c)
  BY <1>2, PlannedSuits, SuitsStands
<1>3. CASE NoPivots(r, d)
  <2>1. Of(c, LUPlans(d)) /\ r \in OfM \cup {"gesv", "gesvIter"}
    BY <1>3, ExceptionPlans DEF NoPivots, OfM, Exceptions
  <2>2. /\ r = "gesv" => c.plan = gesv(d)
        /\ r = "gesvIter" => c.plan = gesvIter(d)
        /\ r = "getf2" => c.plan = getf2(d)
        /\ r = "getrf" => c.plan = getrf(d)
        /\ r = "getrf2" => c.plan = getrf2(d)
    BY <2>1 DEF Of, LUPlans
  <2> QED
    BY <1>1, <1>3, <2>1, <2>2, PivotsStand DEF OfM
<1>4. CASE UnfilledSupport(r, d) \/ HalfSupport(r, d)
  <2>1. /\ Of(c, EigenPlans(d)) /\ r \in Selecting
        /\ r \in {"heevr", "heevr_2stage", "syevr", "syevr_2stage", "stegr",
                  "stemr", "stevr"}
    BY <1>4, ExceptionPlans DEF UnfilledSupport, HalfSupport, OfM, Exceptions, Selecting
  <2>2. c.found \in Hits(d)
    BY <1>1, <2>1, SelectingFinds DEF Of
  <2>3. /\ r = "heevr" => c.plan = heevr(d)
        /\ r = "heevr_2stage" => c.plan = heevr_2stage(d)
        /\ r = "syevr" => c.plan = syevr(d)
        /\ r = "syevr_2stage" => c.plan = syevr_2stage(d)
        /\ r = "stegr" => c.plan = stegr(d)
        /\ r = "stemr" => c.plan = stemr(d)
        /\ r = "stevr" => c.plan = stevr(d)
    BY <2>1 DEF Of, EigenPlans
  <2>4. CASE UnfilledSupport(r, d)
    <3>1. /\ Stands(r, d, heevr(d), c.found, c.need)
          /\ Stands(r, d, heevr_2stage(d), c.found, c.need)
          /\ Stands(r, d, syevr(d), c.found, c.need)
          /\ Stands(r, d, syevr_2stage(d), c.found, c.need)
      BY <1>1, <2>2, <2>4, RobustStand
    <3> QED
      BY <2>3, <2>4, <3>1 DEF UnfilledSupport
  <2>5. CASE HalfSupport(r, d)
    <3>1. /\ Stands(r, d, stegr(d), c.found, c.need)
          /\ Stands(r, d, stevr(d), c.found, c.need)
          /\ Stands(r, d, stemr(d), c.found, c.need)
      BY <1>1, <2>2, <2>5, RobustStand
    <3> QED
      BY <2>3, <2>5, <3>1 DEF HalfSupport
  <2> QED
    BY <1>4, <2>4, <2>5
<1>5. CASE RoundedMerge(r, d)
  <2>1. Of(c, EigenPlans(d)) /\ r \in {"hseqr", "ggesx"}
    BY <1>5, ExceptionPlans DEF RoundedMerge, OfM, Exceptions
  <2>2. /\ r = "hseqr" => c.plan = hseqr(d)
        /\ r = "ggesx" => c.plan = ggesx(d)
    BY <2>1 DEF Of, EigenPlans
  <2> QED
    BY <1>1, <1>5, <2>1, <2>2, MergesStand
<1>6. CASE EmptyReflectors(r, d)
  <2>1. Of(c, OrthogonalPlans(d)) /\ r \in {"opgtr", "upgtr"}
    BY <1>6, ExceptionPlans DEF EmptyReflectors, OfM, Exceptions
  <2>2. c.plan \in {opgtr(d), upgtr(d)}
    BY <2>1 DEF Of, OrthogonalPlans
  <2> QED
    BY <1>1, <1>6, <2>2, IntegersStand
<1>7. CASE DerivedTooLarge(r, d)
  <2>1. /\ r \in {"gemqrt", "hetrs_aa", "sytrs_aa", "laed4"}
        /\ r = "gemqrt" => Of(c, OrthogonalPlans(d))
        /\ r \in {"hetrs_aa", "sytrs_aa"} => Of(c, IndefinitePlans(d))
        /\ r = "laed4" => Of(c, SymmetricPlans(d))
    BY <1>7, ExceptionPlans DEF DerivedTooLarge, OfM, Exceptions
  <2>2. r = "gemqrt" => c.plan = gemqrt(d)
    BY <2>1 DEF Of, OrthogonalPlans
  <2>3. /\ r = "hetrs_aa" => c.plan = hetrs_aa(d)
        /\ r = "sytrs_aa" => c.plan = sytrs_aa(d)
    BY <2>1 DEF Of, IndefinitePlans
  <2>4. r = "laed4" => c.plan = laed4(d)
    BY <2>1 DEF Of, SymmetricPlans
  <2> QED
    BY <1>1, <1>7, <2>1, <2>2, <2>3, <2>4, IntegersStand
<1>8. CASE NoInterchanges(r, d)
  <2>1. Of(c, LUPlans(d)) /\ r = "laswp"
    BY <1>8, ExceptionPlans DEF NoInterchanges, OfM, Exceptions
  <2>2. c.plan = laswp(d)
    BY <2>1 DEF Of, LUPlans
  <2> QED
    BY <1>1, <1>8, <2>2, IntegersStand
<1>9. CASE r = "tgsen"
  <2>1. Of(c, EigenPlans(d))
    BY <1>9, ExceptionPlans DEF OfM, Exceptions
  <2>2. c.plan = tgsen(d)
    BY <1>9, <2>1 DEF Of, EigenPlans
  <2> QED
    BY <1>1, <1>9, <2>2, TgsenStands
<1> QED
  BY <1>2, <1>3, <1>4, <1>5, <1>6, <1>7, <1>8, <1>9 DEF AsDocumented, Countable

\* What the call being made can rely on, if it is made with arguments d.
Confined(d) ==
  /\ Spacious
  /\ Countable(call) => Patient
  /\ Wide \/ ~DerivedTooLarge(call.routine, d) => Checked
  /\ Wide \/ ~Overruns(call.routine, d) => Inside
  /\ (Wide \/ ~Miscopies(call.routine, d)) /\ ~RoundedMerge(call.routine, d) => Faithful
  /\ ~TurnsAway(call.routine, d) => Roomy

LEMMA StandsConfined ==
  ASSUME call \in Calls, NEW d,
         Stands(call.routine, d, plan, call.found, call.need)
  PROVE  Confined(d)
<1> DEFINE r == call.routine
           f == call.found
<1>1. Wide \/ ~DerivedTooLarge(r, d) => Checked
  BY BoundedChecked DEF Stands
<1>2. ~TurnsAway(r, d) => Roomy
  BY IllegalStops DEF Stands, Roomy, Arrays
<1>3. Countable(call) => Patient
  BY DEF Stands, Patient, Settled, Asked, Countable, Arrays
<1>4. \A i \in Cells : i \in Nat
  BY SpanAssumption DEF Cells
<1>5. ASSUME NEW a \in Arrays
      PROVE  /\ ReadsWithin(a) /\ Asked(a) /\ HasRoom(a)
             /\ Wide \/ ~Overruns(r, d) => EndsWithin(a)
             /\ (Wide \/ ~Miscopies(r, d)) /\ ~RoundedMerge(r, d) => GivesBack(a)
  <2> DEFINE array == plan.ints[a]
  <2>1. /\ Reads(array, f)
        /\ array.eager => plan.query # "none"
        /\ \/ plan.status /\ Illegal(plan)
           \/ /\ Lands(array, f)
              /\ array.always \/ ~Overruns(r, d) => Ends(array, f)
              /\ (array.always \/ ~Miscopies(r, d)) /\ ~RoundedMerge(r, d) =>
                   Writes(array, f)
    BY Zenon DEF Stands, Arrays
  <2>2. \/ Stops
        \/ /\ Lands(array, f)
           /\ array.always \/ ~Overruns(r, d) => Ends(array, f)
           /\ (array.always \/ ~Miscopies(r, d)) /\ ~RoundedMerge(r, d) =>
                Writes(array, f)
    BY <2>1, IllegalStops
  <2>3. ReadsWithin(a) /\ Asked(a)
    BY <1>4, <2>1 DEF Reads, ReadsWithin, Given, Asked
  <2>4. HasRoom(a)
    BY <1>4, <2>2 DEF Lands, HasRoom, Filled
  <2>5. Wide \/ ~Overruns(r, d) => EndsWithin(a)
    BY <1>4, <2>2 DEF Lands, Ends, EndsWithin, Given, Filled, Back, Direct
  <2>6. (Wide \/ ~Miscopies(r, d)) /\ ~RoundedMerge(r, d) => GivesBack(a)
    BY <1>4, <2>2 DEF Writes, GivesBack, Filled, Back, Direct
  <2> QED
    BY <2>3, <2>4, <2>5, <2>6
<1> QED
  BY <1>1, <1>2, <1>3, <1>5 DEF Confined, Spacious, Inside, Faithful

LEMMA ConfinedKept == ASSUME [Next]_vars, NEW d PROVE Confined(d) => Confined(d)'
<1>1. call' = call /\ (Wide <=> Wide') /\ (Countable(call) <=> Countable(call)')
  BY CallKept DEF Countable
<1> QED
  BY <1>1, SoundKept DEF Confined, Spacious, Patient, Inside, Faithful

\* The findings go no further than they say.  With any arguments at all, a local
\* vector is long enough and a query that was answered suffices; what throws has
\* left the caller's arrays alone, unless the workspace cannot be counted; and
\* each kind of exception is one to the properties that its finding names, in
\* the LP64 build alone if it has to do with local copies or conversions.
THEOREM FindingsAreConfined ==
  Spec /\ Wrapped =>
    [](/\ LocalsSuffice /\ QuerySuffices
       /\ Countable(call) => ThrowsClean
       /\ \A d : Made(call, d) =>
            /\ Wide \/ ~DerivedTooLarge(call.routine, d) => NoTruncation
            /\ Wide \/ ~Overruns(call.routine, d) => InBounds
            /\ (Wide \/ ~Miscopies(call.routine, d)) /\ ~RoundedMerge(call.routine, d)
                 => Delivered
            /\ (Wide \/ ~DerivedTooLarge(call.routine, d)) /\ ~TurnsAway(call.routine, d)
                 => TakesLegalCalls)
<1> DEFINE Basis == (\E d : Made(call, d)) /\ \A d : Made(call, d) => Confined(d)
           Safe == /\ LocalsSuffice /\ QuerySuffices
                   /\ Countable(call) => ThrowsClean
                   /\ \A d : Made(call, d) =>
                        /\ Wide \/ ~DerivedTooLarge(call.routine, d) => NoTruncation
                        /\ Wide \/ ~Overruns(call.routine, d) => InBounds
                        /\ (Wide \/ ~Miscopies(call.routine, d))
                             /\ ~RoundedMerge(call.routine, d) => Delivered
                        /\ (Wide \/ ~DerivedTooLarge(call.routine, d))
                             /\ ~TurnsAway(call.routine, d) => TakesLegalCalls
<1>1. Init /\ Wrapped => Basis
  BY MadeStands, StandsConfined DEF Init, Wrapped, plan
<1>2. Basis /\ [Next]_vars => Basis'
  <2> SUFFICES ASSUME Basis, [Next]_vars PROVE Basis'
    OBVIOUS
  <2>1. call' = call
    BY CallKept
  <2>2. \A d : Made(call, d)' <=> Made(call, d)
    BY <2>1 DEF Made, Of
  <2>3. \A d : Confined(d) => Confined(d)'
    BY ConfinedKept
  <2> HIDE DEF Made, Confined
  <2> QED
    BY <2>2, <2>3
<1>3. Inductive /\ Basis => Safe
  <2> SUFFICES ASSUME Inductive, Basis PROVE Safe
    OBVIOUS
  <2>1. LocalsSuffice /\ (Countable(call) => ThrowsClean)
    BY LocalsHold, ThrownClean DEF Confined
  <2>2. QuerySuffices
    BY DEF Inductive, Answered
  <2>3. ASSUME NEW d, Made(call, d)
        PROVE  /\ Wide \/ ~DerivedTooLarge(call.routine, d) => NoTruncation
               /\ Wide \/ ~Overruns(call.routine, d) => InBounds
               /\ (Wide \/ ~Miscopies(call.routine, d))
                    /\ ~RoundedMerge(call.routine, d) => Delivered
               /\ (Wide \/ ~DerivedTooLarge(call.routine, d))
                    /\ ~TurnsAway(call.routine, d) => TakesLegalCalls
    <3>1. Confined(d)
      BY <2>3
    <3> QED
      BY <3>1, WholeIntegers, WithinArrays, ResultsArrive, LegalTaken DEF Confined
  <2> QED
    BY <2>1, <2>2, <2>3
<1>4. Spec /\ Wrapped => []Basis
  <2> HIDE DEF Basis
  <2> QED
    BY <1>1, <1>2, PTL DEF Spec
<1>5. Spec /\ Wrapped => []Safe
  <2> HIDE DEF Basis, Safe
  <2> QED
    BY <1>3, <1>4, AlwaysInductive, PTL
<1> QED
  BY <1>5

\* Calls of wrappers whose results come back: no copy is of the wrong length,
\* none is through a narrower type, and no workspace is beyond counting.
Delivering ==
  \A c \in Calls :
    /\ c.found \in Counts /\ Countable(c)
    /\ \E d : /\ Made(c, d) /\ ~RoundedMerge(c.routine, d)
              /\ c.build = "ILP64" \/ ~Miscopies(c.routine, d)

\* Every wrapper, in either build, implements the call with int64_t integers
\* that its documentation describes; so it does on the calls that it turns away
\* though they are legal, or that go astray.
THEOREM WrappersKeepTheirPromise == Spec /\ Delivering => KeepsPromise
<1>1. Init /\ Delivering => Faithful /\ Patient
  <2> SUFFICES ASSUME Init, Delivering PROVE Faithful /\ Patient
    OBVIOUS
  <2>1. PICK d : /\ Made(call, d) /\ ~RoundedMerge(call.routine, d)
                 /\ Wide \/ ~Miscopies(call.routine, d)
    BY DEF Init, Delivering, Wide
  <2>2. call \in Calls /\ call.found \in Counts /\ Countable(call)
    BY DEF Init, Delivering
  <2>3. Confined(d)
    BY <2>1, <2>2, MadeStands, StandsConfined DEF plan
  <2> QED
    BY <2>1, <2>2, <2>3 DEF Confined
<1> QED
  BY <1>1, KeepsItsPromise, PTL DEF Spec

\* In particular where the documentation is right.
COROLLARY PlannedKeepTheirPromise == Spec /\ Planned => KeepsPromise
<1>1. Planned => Delivering
  <2>1. ASSUME Planned, NEW c \in Calls
        PROVE  /\ c.found \in Counts /\ Countable(c)
               /\ \E d : /\ Made(c, d) /\ ~RoundedMerge(c.routine, d)
                         /\ c.build = "ILP64" \/ ~Miscopies(c.routine, d)
    <3>1. PICK d : Made(c, d) /\ AsDocumented(c.routine, d)
      BY <2>1 DEF Planned
    <3>2. ~RoundedMerge(c.routine, d) /\ ~Miscopies(c.routine, d)
      BY <3>1 DEF AsDocumented, Miscopies
    <3> QED
      BY <2>1, <3>1, <3>2 DEF Planned
  <2> QED
    BY <2>1, Zenon DEF Delivering
<1> QED
  BY <1>1, WrappersKeepTheirPromise
=============================================================================
