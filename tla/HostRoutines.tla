---------------------------- MODULE HostRoutines ----------------------------
(***************************************************************************)
(* The plans of all host wrappers, by name.                                *)
(***************************************************************************)
EXTENDS RoutinesLU, RoutinesIndefinite, RoutinesEigen, RoutinesLeastSquares,
        RoutinesCholesky, RoutinesOrthogonal, RoutinesSymmetric,
        RoutinesGeneral, RoutinesNorms, TLC

LUPlans(d) == [
  gbcon |-> gbcon(d), gbrfs |-> gbrfs(d), gbsv |-> gbsv(d),
  gbsvx |-> gbsvx(d), gbtrf |-> gbtrf(d), gbtrs |-> gbtrs(d),
  gerfs |-> gerfs(d), gesv |-> gesv(d), gesvIter |-> gesvIter(d),
  gesvx |-> gesvx(d), getf2 |-> getf2(d), getrf |-> getrf(d),
  getrf2 |-> getrf2(d), zgetrf2 |-> zgetrf2(d), getri |-> getri(d),
  getrs |-> getrs(d), gtcon |-> gtcon(d), gtrfs |-> gtrfs(d),
  gtsvx |-> gtsvx(d), gttrf |-> gttrf(d), gttrs |-> gttrs(d),
  laswp |-> laswp(d), pstrf |-> pstrf(d)]

IndefinitePlans(d) == [
  hesv |-> hesv(d), hesv_aa |-> hesv_aa(d), hesv_rk |-> hesv_rk(d),
  hesv_rook |-> hesv_rook(d), sysv |-> sysv(d), sysv_rk |-> sysv_rk(d),
  sysv_rook |-> sysv_rook(d), sysv_aa |-> sysv_aa(d), hetrf |-> hetrf(d),
  hetrf_aa |-> hetrf_aa(d), hetrf_rk |-> hetrf_rk(d),
  hetrf_rook |-> hetrf_rook(d), sytrf |-> sytrf(d), sytrf_aa |-> sytrf_aa(d),
  sytrf_rk |-> sytrf_rk(d), sytrf_rook |-> sytrf_rook(d),
  hetri2 |-> hetri2(d), hetri_rk |-> hetri_rk(d), sytri2 |-> sytri2(d),
  sytri_rk |-> sytri_rk(d), hetri |-> hetri(d), sytri |-> sytri(d),
  hetrs |-> hetrs(d), hetrs2 |-> hetrs2(d), hetrs_aa |-> hetrs_aa(d),
  hetrs_rk |-> hetrs_rk(d), hetrs_rook |-> hetrs_rook(d), sytrs |-> sytrs(d),
  sytrs2 |-> sytrs2(d), sytrs_aa |-> sytrs_aa(d), sytrs_rk |-> sytrs_rk(d),
  sytrs_rook |-> sytrs_rook(d), hecon |-> hecon(d), hecon_rk |-> hecon_rk(d),
  sycon |-> sycon(d), sycon_rk |-> sycon_rk(d), herfs |-> herfs(d),
  syrfs |-> syrfs(d), hesvx |-> hesvx(d), sysvx |-> sysvx(d),
  hpsv |-> hpsv(d), spsv |-> spsv(d), hpsvx |-> hpsvx(d), spsvx |-> spsvx(d),
  hprfs |-> hprfs(d), sprfs |-> sprfs(d), hptrf |-> hptrf(d),
  sptrf |-> sptrf(d), hptri |-> hptri(d), sptri |-> sptri(d),
  hptrs |-> hptrs(d), sptrs |-> sptrs(d), hpcon |-> hpcon(d),
  spcon |-> spcon(d)]

EigenPlans(d) == [
  hbevx |-> hbevx(d), sbevx |-> sbevx(d), hbevx_2stage |-> hbevx_2stage(d),
  sbevx_2stage |-> sbevx_2stage(d), hbgvx |-> hbgvx(d), sbgvx |-> sbgvx(d),
  hpevx |-> hpevx(d), spevx |-> spevx(d), hpgvx |-> hpgvx(d),
  spgvx |-> spgvx(d), stevx |-> stevx(d), heevx |-> heevx(d),
  heevx_2stage |-> heevx_2stage(d), syevx |-> syevx(d), hegvx |-> hegvx(d),
  sygvx |-> sygvx(d), syevx_2stage |-> syevx_2stage(d), heevr |-> heevr(d),
  heevr_2stage |-> heevr_2stage(d), syevr |-> syevr(d),
  syevr_2stage |-> syevr_2stage(d), stegr |-> stegr(d), stevr |-> stevr(d),
  stemr |-> stemr(d), stein |-> stein(d), gees |-> gees(d),
  geesx |-> geesx(d), geev |-> geev(d), gges |-> gges(d), gges3 |-> gges3(d),
  ggesx |-> ggesx(d), ggev |-> ggev(d), ggev3 |-> ggev3(d),
  hgeqz |-> hgeqz(d), hseqr |-> hseqr(d), gebal |-> gebal(d),
  ggbal |-> ggbal(d), trevc |-> trevc(d), trevc3 |-> trevc3(d),
  trexc |-> trexc(d), trsen |-> trsen(d), tgexc |-> tgexc(d),
  tgsen |-> tgsen(d), tgsja |-> tgsja(d)]

LeastSquaresPlans(d) == [
  gels |-> gels(d), gelsd |-> gelsd(d), gelss |-> gelss(d),
  gelsy |-> gelsy(d), getsls |-> getsls(d), geqp3 |-> geqp3(d),
  ggsvd3 |-> ggsvd3(d), ggsvp3 |-> ggsvp3(d), gesvdx |-> gesvdx(d),
  bdsvdx |-> bdsvdx(d), lagge |-> lagge(d), laghe |-> laghe(d),
  lagsy |-> lagsy(d), larnv |-> larnv(d), lapmr |-> lapmr(d),
  lapmt |-> lapmt(d)]

OrthogonalPlans(d) == [
  bbcsd |-> bbcsd(d), gelq |-> gelq(d), gelq2 |-> gelq2(d), gelqf |-> gelqf(d),
  gemlq |-> gemlq(d), gemqr |-> gemqr(d), gemqrt |-> gemqrt(d),
  geql2 |-> geql2(d), geqlf |-> geqlf(d), geqr |-> geqr(d), geqr2 |-> geqr2(d),
  geqrf |-> geqrf(d), geqrfp |-> geqrfp(d), geqrt |-> geqrt(d),
  geqrt2 |-> geqrt2(d), geqrt3 |-> geqrt3(d), gerq2 |-> gerq2(d),
  gerqf |-> gerqf(d), ggglm |-> ggglm(d), gglse |-> gglse(d),
  ggqrf |-> ggqrf(d), ggrqf |-> ggrqf(d), larf |-> larf(d), larfb |-> larfb(d),
  larfg |-> larfg(d), larfgp |-> larfgp(d), larft |-> larft(d),
  larfx |-> larfx(d), larfy |-> larfy(d), opgtr |-> opgtr(d),
  opmtr |-> opmtr(d), orcsd2by1 |-> orcsd2by1(d), orgbr |-> orgbr(d),
  orghr |-> orghr(d), orglq |-> orglq(d), orgql |-> orgql(d),
  orgqr |-> orgqr(d), orgrq |-> orgrq(d), orgtr |-> orgtr(d),
  orhr_col |-> orhr_col(d), ormbr |-> ormbr(d), ormhr |-> ormhr(d),
  ormlq |-> ormlq(d), ormql |-> ormql(d), ormqr |-> ormqr(d),
  ormrq |-> ormrq(d), ormrz |-> ormrz(d), ormtr |-> ormtr(d),
  tplqt |-> tplqt(d), tplqt2 |-> tplqt2(d), tpmlqt |-> tpmlqt(d),
  tpmqrt |-> tpmqrt(d), tpqrt |-> tpqrt(d), tpqrt2 |-> tpqrt2(d),
  tprfb |-> tprfb(d), tzrzf |-> tzrzf(d), ungbr |-> ungbr(d),
  unghr |-> unghr(d), unglq |-> unglq(d), ungql |-> ungql(d),
  ungqr |-> ungqr(d), ungrq |-> ungrq(d), ungtr |-> ungtr(d),
  unhr_col |-> unhr_col(d), unmbr |-> unmbr(d), unmhr |-> unmhr(d),
  unmlq |-> unmlq(d), unmql |-> unmql(d), unmqr |-> unmqr(d),
  unmrq |-> unmrq(d), unmrz |-> unmrz(d), unmtr |-> unmtr(d),
  upgtr |-> upgtr(d), upmtr |-> upmtr(d)]

GeneralPlans(d) == [
  bdsdc |-> bdsdc(d), bdsqr |-> bdsqr(d), gbbrd |-> gbbrd(d),
  gbequ |-> gbequ(d), gbequb |-> gbequb(d), gbrfsx |-> gbrfsx(d),
  gebak |-> gebak(d), gebrd |-> gebrd(d), gecon |-> gecon(d),
  geequ |-> geequ(d), geequb |-> geequb(d), gehrd |-> gehrd(d),
  gerfsx |-> gerfsx(d), gesdd |-> gesdd(d), gesvd |-> gesvd(d),
  ggbak |-> ggbak(d), gghrd |-> gghrd(d), herfsx |-> herfsx(d),
  symv |-> symv(d), syr |-> syr(d), syrfsx |-> syrfsx(d), tgsyl |-> tgsyl(d)]

SymmetricPlans(d) == [
  disna |-> disna(d), hbev |-> hbev(d), hbev_2stage |-> hbev_2stage(d),
  hbevd |-> hbevd(d), hbevd_2stage |-> hbevd_2stage(d), hbgst |-> hbgst(d),
  hbgv |-> hbgv(d), hbgvd |-> hbgvd(d), hbtrd |-> hbtrd(d),
  heequb |-> heequb(d), heev |-> heev(d), heev_2stage |-> heev_2stage(d),
  heevd |-> heevd(d), heevd_2stage |-> heevd_2stage(d), hegst |-> hegst(d),
  hegv |-> hegv(d), hegv_2stage |-> hegv_2stage(d), hegvd |-> hegvd(d),
  heswapr |-> heswapr(d), hetrd |-> hetrd(d), hetrd_2stage |-> hetrd_2stage(d),
  hfrk |-> hfrk(d), hpev |-> hpev(d), hpevd |-> hpevd(d), hpgst |-> hpgst(d),
  hpgv |-> hpgv(d), hpgvd |-> hpgvd(d), hptrd |-> hptrd(d), laed4 |-> laed4(d),
  pteqr |-> pteqr(d),
  sbev |-> sbev(d), sbev_2stage |-> sbev_2stage(d), sbevd |-> sbevd(d),
  sbevd_2stage |-> sbevd_2stage(d), sbgst |-> sbgst(d), sbgv |-> sbgv(d),
  sbgvd |-> sbgvd(d), sbtrd |-> sbtrd(d), sfrk |-> sfrk(d), spev |-> spev(d),
  spevd |-> spevd(d), spgst |-> spgst(d), spgv |-> spgv(d), spgvd |-> spgvd(d),
  sptrd |-> sptrd(d), stedc |-> stedc(d), steqr |-> steqr(d),
  sterf |-> sterf(d), stev |-> stev(d), stevd |-> stevd(d),
  syequb |-> syequb(d), syev |-> syev(d), syev_2stage |-> syev_2stage(d),
  syevd |-> syevd(d), syevd_2stage |-> syevd_2stage(d), sygst |-> sygst(d),
  sygv |-> sygv(d), sygv_2stage |-> sygv_2stage(d), sygvd |-> sygvd(d),
  syswapr |-> syswapr(d), sytrd |-> sytrd(d), sytrd_2stage |-> sytrd_2stage(d)]

CholeskyPlans(d) == [
  gtsv |-> gtsv(d), pbcon |-> pbcon(d), pbequ |-> pbequ(d), pbrfs |-> pbrfs(d),
  pbstf |-> pbstf(d), pbsv |-> pbsv(d), pbsvx |-> pbsvx(d), pbtrf |-> pbtrf(d),
  pbtrs |-> pbtrs(d), pftrf |-> pftrf(d), pftri |-> pftri(d),
  pftrs |-> pftrs(d), pocon |-> pocon(d), poequ |-> poequ(d),
  poequb |-> poequb(d), porfs |-> porfs(d), porfsx |-> porfsx(d),
  posv |-> posv(d), posvIter |-> posvIter(d), posvx |-> posvx(d),
  potf2 |-> potf2(d), potrf |-> potrf(d), potrf2 |-> potrf2(d),
  potri |-> potri(d), potrs |-> potrs(d), ppcon |-> ppcon(d),
  ppequ |-> ppequ(d), pprfs |-> pprfs(d), ppsv |-> ppsv(d), ppsvx |-> ppsvx(d),
  pptrf |-> pptrf(d), pptri |-> pptri(d), pptrs |-> pptrs(d),
  ptcon |-> ptcon(d), ptrfs |-> ptrfs(d), ptsv |-> ptsv(d), ptsvx |-> ptsvx(d),
  pttrf |-> pttrf(d), pttrs |-> pttrs(d), tbcon |-> tbcon(d),
  tbrfs |-> tbrfs(d), tbtrs |-> tbtrs(d), tfsm |-> tfsm(d), tftri |-> tftri(d),
  tfttp |-> tfttp(d), tfttr |-> tfttr(d), tpcon |-> tpcon(d),
  tprfs |-> tprfs(d), tptri |-> tptri(d), tptrs |-> tptrs(d),
  tpttf |-> tpttf(d), tpttr |-> tpttr(d), trcon |-> trcon(d),
  trrfs |-> trrfs(d), trtri |-> trtri(d), trtrs |-> trtrs(d),
  trttf |-> trttf(d), trttp |-> trttp(d)]

NormsPlans(d) == [
  lacgv |-> lacgv(d), lacp2 |-> lacp2(d), lacpy |-> lacpy(d),
  lag2c |-> lag2c(d), lag2d |-> lag2d(d), lag2s |-> lag2s(d),
  lag2z |-> lag2z(d), langb |-> langb(d), lange |-> lange(d),
  langt |-> langt(d), lanhb |-> lanhb(d), lanhe |-> lanhe(d),
  lanhp |-> lanhp(d), lanhs |-> lanhs(d), lanht |-> lanht(d),
  lansb |-> lansb(d), lansp |-> lansp(d), lanst |-> lanst(d),
  lansy |-> lansy(d), lantb |-> lantb(d), lantp |-> lantp(d),
  lantr |-> lantr(d), lapy2 |-> lapy2(d),
  lapy3 |-> lapy3(d), lartg |-> lartg(d), lartgp |-> lartgp(d),
  lartgs |-> lartgs(d), lascl |-> lascl(d), laset |-> laset(d),
  lassq |-> lassq(d), lauum |-> lauum(d)]

Plans(d) ==
  LUPlans(d) @@ IndefinitePlans(d) @@ EigenPlans(d) @@ LeastSquaresPlans(d)
    @@ CholeskyPlans(d) @@ OrthogonalPlans(d) @@ SymmetricPlans(d)
    @@ GeneralPlans(d) @@ NormsPlans(d)
=============================================================================
