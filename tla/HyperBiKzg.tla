------------------------------ MODULE HyperBiKzg ------------------------------
(***************************************************************************)
(* poly_commit/src/kzg: HyperKZG, for one process, and HyperBiKZG, whose   *)
(* ranks each hold a polynomial in X and together one in X and Y.  The     *)
(* state is Hyrax's: here ps is what the root has gathered, local what a   *)
(* rank keeps between two of its calls.  The messages and the transcript   *)
(* of the dialogue are GkrScript's.                                        *)
(*                                                                         *)
(* A point of the curve is its exponent to the generator, a pairing the    *)
(* product of exponents.                                                   *)
(***************************************************************************)
EXTENDS Hyrax

IsKzg == job.scheme \in {"unikzg", "bikzg"}

(* invert().unwrap(): zero has no inverse, and the step is not enabled.    *)
EInverse(a) == <<CHOOSE n \in 1 .. P - 1 : (a[1] * n) % P = 1>>
Neg(a) == VSub(EZero, a)
At(coeffs, k) == IF k <= Len(coeffs) THEN coeffs[k] ELSE EZero

-----------------------------------------------------------------------------
(* kzg/utils.rs.  The shorter of the two decides how far they are read.    *)
UnivariateEvaluate(coeffs, powers) ==
  ESum([k \in 1 .. (IF Len(coeffs) < Len(powers) THEN Len(coeffs) ELSE Len(powers)) |->
          EMul(coeffs[k], powers[k])])
EvaluateAt(coeffs, x) == UnivariateEvaluate(coeffs, PowersSeries(x, Len(coeffs)))

PolynomialAdd(coeffs, weight, other) ==
  [k \in 1 .. GreatestOf({Len(coeffs), Len(other)}) |-> VAdd(At(coeffs, k), EMul(weight, At(other, k)))]

(* The remainder first, then the quotient by X - alpha.                    *)
Divided(coeffs, alpha) ==
  FoldRight(LAMBDA c, done : <<VAdd(c, EMul(alpha, At(done, 1)))>> \o done, coeffs, <<>>)
UnivariateDegreeOneQuotient(coeffs, alpha) ==
  [quotient |-> Append(Tail(Divided(coeffs, alpha)), EZero), remainder |-> Divided(coeffs, alpha)[1]]

UnivariateRootsQuotient(coeffs, roots) ==
  FoldLeft(LAMBDA rest, r : Tail(Divided(rest, r)), coeffs, roots)
(* The assertion in it.                                                    *)
AllAreRoots(coeffs, roots) == \A i \in DOMAIN roots : EvaluateAt(coeffs, roots[i]) = EZero

(* beta, -beta and its square.                                             *)
Roots(beta) == <<beta, Neg(beta), EMul(beta, beta)>>
LagrangeWeight(a, b, c, eval) == EMul(eval, EInverse(EMul(VSub(a, b), VSub(a, c))))
LagrangeTerm(b, c, weight) == <<EMul(weight, EMul(b, c)), EMul(weight, Neg(VAdd(b, c))), weight>>
CoeffFormDegree2Lagrange(roots, evals) ==
  LET Term(a, b, c, eval) == LagrangeTerm(b, c, LagrangeWeight(a, b, c, eval))
  IN [d \in 1 .. 3 |->
        ESum([i \in 1 .. 3 |-> Term(roots[i], roots[(i % 3) + 1], roots[((i + 1) % 3) + 1], evals[i])[d]])]
Vanishing(x, beta) == EProduct([i \in 1 .. 3 |-> VSub(x, Roots(beta)[i])])

-----------------------------------------------------------------------------
(* The parameters: powers of two secrets; a rank's bases carry its power   *)
(* of the second.                                                          *)
TauX == Coin(40)
TauY == Coin(41)
MinimumSupportedNumVars == IF job.scheme = "bikzg" THEN 2 ELSE 1
GenParams == GreatestOf({job.vars[i] : i \in Polys} \cup {MinimumSupportedNumVars})
(* Mutant: every rank commits with the root's bases.                       *)
TauXSrsOfRoot(r) == PowersSeries(TauX, 2^GenParams)
TauXSrs(r) ==
  LET ofRank == Last(PowersSeries(TauY, r + 1))
      powers == PowersSeries(TauX, 2^GenParams)
  IN [k \in DOMAIN powers |-> EMul(ofRank, powers[k])]
TauYSrs == PowersSeries(TauY, job.world)

UniKzgCommit(srs, coeffs) == UnivariateEvaluate(coeffs, srs)
UniKzgVerify(comm, alpha, eval, proof) ==
  VAdd(EMul(proof, VSub(TauX, alpha)), VSub(eval, comm)) = EZero
BiKzgVerify(comm, alpha, beta, eval, qx, qy) ==
  ESum(<<EMul(qx, VSub(TauX, alpha)), EMul(qy, VSub(TauY, beta)), VSub(eval, comm)>>) = EZero

(* A polynomial or point with too few variables is lifted first.           *)
Lift(s, n) == [k \in 1 .. GreatestOf({n, Len(s)}) |-> At(s, k)]
KzgPoly(r) == Lift(RankPoly(r), 2^MinimumSupportedNumVars)
KzgPoint == Lift(Point(1), MinimumSupportedNumVars)

-----------------------------------------------------------------------------
(* hyper_kzg.rs: the polynomial folded variable by variable, and what the  *)
(* oracles are worth at beta, -beta and its square.                        *)
FoldPairs(coeffs, alpha) ==
  [i \in 1 .. Len(coeffs) \div 2 |->
     VAdd(EMul(VSub(EOne, alpha), coeffs[2 * i - 1]), EMul(alpha, coeffs[2 * i]))]
PolyOracles(coeffs, alphas) ==
  FoldLeft(LAMBDA oracles, alpha : Append(oracles, FoldPairs(Last(oracles), alpha)),
           <<coeffs>>, Front(alphas))
OracleCommits(srs, oracles) == [k \in 1 .. Len(oracles) - 1 |-> UniKzgCommit(srs, oracles[k + 1])]

(* The values at the square follow from those at beta and -beta.           *)
LocalEvalsFrom(exported, alphas, beta) ==
  LET half == EInverse(FromBase(2))
      inverse == EInverse(beta)
      Beta2Eval(k) ==
        LET sum == VAdd(exported.pos[k], exported.neg[k])
            difference == EMul(VSub(exported.pos[k], exported.neg[k]), inverse)
        IN EMul(half, VAdd(EMul(sum, VSub(EOne, alphas[k])), EMul(difference, alphas[k])))
  IN [beta2 |-> <<exported.beta2>> \o [k \in DOMAIN alphas |-> Beta2Eval(k)],
      pos |-> exported.pos, neg |-> exported.neg]
ExportedEvals(oracles, beta) ==
  [beta2 |-> EvaluateAt(oracles[1], EMul(beta, beta)),
   pos |-> [k \in DOMAIN oracles |-> EvaluateAt(oracles[k], beta)],
   neg |-> [k \in DOMAIN oracles |-> EvaluateAt(oracles[k], Neg(beta))]]
MultilinearFinalEval(evals) == Last(evals.beta2)

OraclePolysAggregate(oracles, gamma) ==
  FoldLeft(LAMBDA f, k : PolynomialAdd(f, PowersSeries(gamma, Len(oracles))[k], oracles[k]),
           oracles[1], [k \in 1 .. Len(oracles) - 1 |-> k + 1])
(* At beta, -beta and its square; the last value at the square is left out. *)
GammaAggregateEvals(evals, gamma) ==
  LET powers == PowersSeries(gamma, Len(evals.pos))
  IN <<UnivariateEvaluate(evals.pos, powers), UnivariateEvaluate(evals.neg, powers),
       UnivariateEvaluate(evals.beta2, powers)>>
InterpolateDegree2(evals, beta, gamma) ==
  CoeffFormDegree2Lagrange(Roots(beta), GammaAggregateEvals(evals, gamma))

-----------------------------------------------------------------------------
(* coeff_form_uni_hyperkzg_open and verify.                                *)
Beta == Coin(21)
Gamma == Coin(22)
TauPoint == Coin(23)

(* What is left once the values at the roots and the quotient are gone.    *)
UniAggregate(oracles) == OraclePolysAggregate(oracles, Gamma)
UniLagrange(evals, alphas) == InterpolateDegree2(LocalEvalsFrom(evals, alphas, Beta), Beta, Gamma)
UniNumerator(oracles, alphas) ==
  PolynomialAdd(UniAggregate(oracles), Neg(EOne), UniLagrange(ExportedEvals(oracles, Beta), alphas))

UniQuotient(oracles, alphas) == UnivariateRootsQuotient(UniNumerator(oracles, alphas), Roots(Beta))
AtTau(oracles, alphas) ==
  UnivariateDegreeOneQuotient(
    PolynomialAdd(UniAggregate(oracles), Neg(Vanishing(TauPoint, Beta)), UniQuotient(oracles, alphas)),
    TauPoint)

UniHyperkzgOpen(srs, coeffs, alphas) ==
  LET oracles == PolyOracles(coeffs, alphas)
  IN [folded |-> OracleCommits(srs, oracles), evals |-> ExportedEvals(oracles, Beta),
      beta_x |-> UniKzgCommit(srs, UniQuotient(oracles, alphas)),
      delta_x |-> UniKzgCommit(srs, AtTau(oracles, alphas).quotient)]
(* Its assertions, and the value it returns beside the opening.            *)
UniAsserts(coeffs, alphas) ==
  LET oracles == PolyOracles(coeffs, alphas)
      lagrange == UniLagrange(ExportedEvals(oracles, Beta), alphas)
  IN /\ AllAreRoots(UniNumerator(oracles, alphas), Roots(Beta))
     /\ AtTau(oracles, alphas).remainder = EvaluateAt(lagrange, TauPoint)
UniFinalEval(coeffs, alphas) ==
  MultilinearFinalEval(LocalEvalsFrom(ExportedEvals(PolyOracles(coeffs, alphas), Beta), alphas, Beta))

(* The pairing check at the end of the verifier.                           *)
UniPairing(comm, alphas, o) ==
  LET comms == <<comm>> \o o.folded
      aggregated == UnivariateEvaluate(comms, PowersSeries(Gamma, Len(alphas)))
      commitment == VSub(aggregated, EMul(o.beta_x, Vanishing(TauPoint, Beta)))
      lagrange == EvaluateAt(UniLagrange(o.evals, alphas), TauPoint)
  IN UniKzgVerify(commitment, TauPoint, lagrange, o.delta_x)

(* Its result is computed, and dropped.                                    *)
UniHyperkzgVerify(comm, alphas, eval, o) ==
  /\ MultilinearFinalEval(LocalEvalsFrom(o.evals, alphas, Beta)) = eval
  /\ UniPairing(comm, alphas, o) \in BOOLEAN

-----------------------------------------------------------------------------
(* Commitments: of one process's polynomials, or the sum of the ranks'.    *)
KzgCommit ==
  /\ IsKzg /\ commitments = Nothing
  /\ commitments' =
       IF job.call = "expander"
       THEN <<<<ESum([k \in 1 .. job.world |-> UniKzgCommit(TauXSrs(k - 1), KzgPoly(k - 1))])>>>>
       ELSE [i \in Polys |-> <<UniKzgCommit(TauXSrs(0), Evals(i))>>]
  /\ UNCHANGED <<job, local, values, ps, messages, opening, sent, verdict>>

(* HyperKZG, which HyperBiKZG is for one process.                          *)
OpenSingle(poly, point, evals) ==
  /\ UniAsserts(poly, point)
  /\ opening' = UniHyperkzgOpen(TauXSrs(0), poly, point)
  /\ values' = evals
  /\ UNCHANGED <<job, local, commitments, ps, messages, sent, verdict>>

UniOpen ==
  /\ IsKzg /\ job.call = "expander" /\ job.world = 1 /\ commitments # Nothing /\ opening = Nothing
  /\ OpenSingle(KzgPoly(0), KzgPoint, <<EvaluateWithBuffer(RankPoly(0), Point(1))>>)

(* kzg_single_point_batch_open.                                            *)
KzgBatchOpen ==
  /\ IsKzg /\ job.call = "single" /\ commitments # Nothing /\ opening = Nothing
  /\ LET polys  == [i \in Polys |-> Evals(i)]
         powers == PowersSeries(Coin(1), Len(polys))
         merged == Combination(powers, polys, Len(polys[1]))
         evals  == [i \in Polys |-> EvaluateWithBuffer(polys[i], Point(1))]
     IN /\ UniFinalEval(merged, Point(1)) = DotProduct(powers, evals)
        /\ OpenSingle(merged, Point(1), evals)

(* multiple_points_batch_open_impl, after the sumcheck.                    *)
KzgOpenMerged ==
  /\ IsKzg /\ job.call = "multi" /\ ps # Nothing /\ opening = Nothing /\ ps.round = ps.init_num_vars
  /\ LET a2 == ExportPointToExpander(SumcheckPoint) IN OpenSingle(GPrime(a2), a2, values)

-----------------------------------------------------------------------------
(* coeff_form_hyper_bikzg_open: each rank and the root take turns.         *)
BetaX == Coin(21)
BetaY == Coin(22)
BiGamma == Coin(23)
DeltaX == Coin(24)
DeltaY == Coin(25)

IsBi == job.scheme = "bikzg" /\ job.world > 1 /\ commitments # Nothing /\ opening = Nothing
StepOf(state) == IF state = Nothing THEN 0 ELSE state.step
RankTurn(r, n) == IsBi /\ StepOf(local[r]) = n - 1 /\ StepOf(ps) = n - 1
RootTurn(n) == IsBi /\ StepOf(ps) = n - 1 /\ \A r \in Ranks : local[r] # Nothing /\ local[r].step = n
OfRanks(F(_)) == [k \in 1 .. job.world |-> F(local[k - 1])]

RankDoes(r, state) ==
  /\ local' = [local EXCEPT ![r] = state]
  /\ UNCHANGED <<job, commitments, values, ps, messages, opening, sent, verdict>>
RootDoes(state) ==
  /\ ps' = state
  /\ UNCHANGED <<job, local, commitments, values, messages, opening, sent, verdict>>

FoldX(r) ==
  /\ RankTurn(r, 1)
  /\ LET oracles == PolyOracles(KzgPoly(r), KzgPoint)
     IN RankDoes(r, [step |-> 1, oracles |-> oracles, commits |-> OracleCommits(TauXSrs(r), oracles),
                     final |-> FoldPairs(Last(oracles), Last(KzgPoint))[1]])

GatherFolded ==
  /\ RootTurn(1)
  /\ LET finals == OfRanks(LAMBDA l : l.final)
         oracles == PolyOracles(finals, MpiPoint)
         folded_x == [k \in 1 .. Len(KzgPoint) - 1 |-> ESum(OfRanks(LAMBDA l : l.commits[k]))]
     IN RootDoes([step |-> 1, finals |-> finals, oracles |-> oracles,
                  commits |-> folded_x \o <<UniKzgCommit(TauYSrs, finals)>> \o OracleCommits(TauYSrs, oracles)])

EvaluateX(r) ==
  /\ RankTurn(r, 2)
  /\ RankDoes(r, [step |-> 2, evals |-> ExportedEvals(local[r].oracles, BetaX)] @@ local[r])

(* new_from_exported_evals: each value of the ranks is a polynomial in Y.  *)
AggregatedEvals(y) ==
  [beta2 |-> EvaluateAt(OfRanks(LAMBDA l : l.evals.beta2), y),
   pos |-> [k \in DOMAIN KzgPoint |-> EvaluateAt(OfRanks(LAMBDA l : l.evals.pos[k]), y)],
   neg |-> [k \in DOMAIN KzgPoint |-> EvaluateAt(OfRanks(LAMBDA l : l.evals.neg[k]), y)]]

GammaN == EProduct([k \in DOMAIN KzgPoint |-> BiGamma])

GatherEvals ==
  /\ RootTurn(2)
  /\ LET ofY == OraclePolysAggregate(ps.oracles, BiGamma)
     IN RootDoes([step |-> 2, aggregated |-> [i \in 1 .. 3 |-> AggregatedEvals(Roots(BetaY)[i])],
                  leader |-> ExportedEvals(ps.oracles, BetaY),
                  y_coeffs |-> [k \in DOMAIN ofY |-> EMul(GammaN, ofY[k])]] @@ ps)

(* The rank's share of the polynomials in Y is a constant in X.            *)
AddConstant(coeffs, c) == [coeffs EXCEPT ![1] = VAdd(@, c)]

QuotientX(r) ==
  /\ RankTurn(r, 3)
  /\ LET share == ps.y_coeffs[r + 1]
         f == AddConstant(OraclePolysAggregate(local[r].oracles, BiGamma), share)
         lagrange == AddConstant(InterpolateDegree2(LocalEvalsFrom(local[r].evals, KzgPoint, BetaX),
                                                    BetaX, BiGamma), share)
         numerator == PolynomialAdd(f, Neg(EOne), lagrange)
         quotient == UnivariateRootsQuotient(numerator, Roots(BetaX))
     IN /\ AllAreRoots(numerator, Roots(BetaX))
        /\ RankDoes(r, [step |-> 3, f |-> f, quotient |-> quotient,
                        commit |-> UniKzgCommit(TauXSrs(r), quotient),
                        at_delta |-> EvaluateAt(lagrange, DeltaX)] @@ local[r])

GatherQuotients ==
  /\ RootTurn(3)
  /\ LET degree2 == OfRanks(LAMBDA l : l.at_delta)
         atRoots == [i \in 1 .. 3 |-> EvaluateAt(degree2, Roots(BetaY)[i])]
         lagrange == CoeffFormDegree2Lagrange(Roots(BetaY), atRoots)
         numerator == PolynomialAdd(degree2, Neg(EOne), lagrange)
         quotient == UnivariateRootsQuotient(numerator, Roots(BetaY))
     IN /\ AllAreRoots(numerator, Roots(BetaY))
        /\ RootDoes([step |-> 3, beta_x |-> ESum(OfRanks(LAMBDA l : l.commit)),
                     beta_y |-> UniKzgCommit(TauYSrs, quotient),
                     y_quotient |-> Lift(quotient, job.world)] @@ ps)

EvalOpen(r) ==
  /\ RankTurn(r, 4)
  /\ LET left == PolynomialAdd(local[r].f, Neg(Vanishing(DeltaX, BetaX)), local[r].quotient)
         final == AddConstant(left, Neg(EMul(Vanishing(DeltaY, BetaY), ps.y_quotient[r + 1])))
         divided == UnivariateDegreeOneQuotient(final, DeltaX)
     IN RankDoes(r, [step |-> 4, eval |-> divided.remainder,
                     open |-> UniKzgCommit(TauXSrs(r), divided.quotient)] @@ local[r])

(* coeff_form_bi_kzg_open_leader.                                          *)
GatherOpens ==
  /\ RootTurn(4)
  /\ opening' = [folded |-> ps.commits, aggregated |-> ps.aggregated, leader |-> ps.leader,
                 beta_x |-> ps.beta_x, beta_y |-> ps.beta_y,
                 delta_x |-> ESum(OfRanks(LAMBDA l : l.open)),
                 delta_y |-> UniKzgCommit(TauYSrs, UnivariateDegreeOneQuotient(
                                                     OfRanks(LAMBDA l : l.eval), DeltaY).quotient)]
  /\ values' = <<EvaluateWithBuffer(FlattenSeq([k \in 1 .. job.world |-> RankPoly(k - 1)]),
                                    Point(1) \o MpiPoint)>>
  /\ UNCHANGED <<job, local, commitments, ps, messages, sent, verdict>>

-----------------------------------------------------------------------------
(* coeff_form_hyper_bikzg_verify.                                          *)
BiVerify(comm, alphas, mpiAlphas, eval, o) ==
  LET atY    == [i \in 1 .. 3 |-> LocalEvalsFrom(o.aggregated[i], alphas, BetaX)]
      leader == LocalEvalsFrom(o.leader, mpiAlphas, BetaY)
      ofY    == GammaAggregateEvals(leader, BiGamma)
      lagrangeX == [i \in 1 .. 3 |->
                      AddConstant(InterpolateDegree2(atY[i], BetaX, BiGamma), EMul(GammaN, ofY[i]))]
      lagrangeY == CoeffFormDegree2Lagrange(Roots(BetaY), [i \in 1 .. 3 |-> EvaluateAt(lagrangeX[i], DeltaX)])
      aggregated == UnivariateEvaluate(<<comm>> \o o.folded,
                                       PowersSeries(BiGamma, Len(alphas) + Len(mpiAlphas) + 1))
      commitment == VSub(aggregated, VAdd(EMul(o.beta_x, Vanishing(DeltaX, BetaX)),
                                          EMul(o.beta_y, Vanishing(DeltaY, BetaY))))
  IN /\ [i \in 1 .. 3 |-> MultilinearFinalEval(atY[i])] = <<o.leader.pos[1], o.leader.neg[1], o.leader.beta2>>
     /\ eval = MultilinearFinalEval(leader)
     /\ BiKzgVerify(commitment, DeltaX, DeltaY, EvaluateAt(lagrangeY, DeltaY), o.delta_x, o.delta_y)

(* The single-process commitment, point and value that are left to check.  *)
MergedClaim(got) ==
  LET a2 == ExportPointToExpander(SumcheckPoint)
      sum == ESum([i \in DOMAIN got.values |-> EMul(EqT[i], got.values[i])])
      powers == PowersSeries(Coin(1), Len(got.commitments))
  IN CASE job.call = "expander" -> [comm |-> got.commitments[1][1], point |-> KzgPoint,
                                    eval |-> got.values[1]]
       [] job.call = "single" -> [comm |-> DotProduct(powers, [i \in Polys |-> got.commitments[i][1]]),
                                  point |-> Point(1), eval |-> DotProduct(powers, got.values)]
       [] job.call = "multi" -> [comm |-> GPrimeCommit(got.commitments, a2)[1], point |-> a2,
                                 eval |-> Last(ClaimsFrom(sum, got.messages, SumcheckPoint))]
SumcheckHolds(got) ==
  job.call = "multi" =>
    SumsHold(ESum([i \in DOMAIN got.values |-> EMul(EqT[i], got.values[i])]), got.messages, SumcheckPoint)

IsUni == IsKzg /\ ~(job.scheme = "bikzg" /\ job.world > 1)

VerifyUni ==
  /\ IsUni /\ sent # Nothing /\ verdict = Nothing
  /\ LET claim == MergedClaim(sent)
     IN verdict' = (/\ SumcheckHolds(sent)
                    /\ UniHyperkzgVerify(claim.comm, claim.point, claim.eval, sent.opening))
  /\ UNCHANGED <<job, local, commitments, values, ps, messages, opening, sent>>

VerifyBi ==
  /\ IsKzg /\ ~IsUni /\ sent # Nothing /\ verdict = Nothing
  /\ verdict' = BiVerify(sent.commitments[1][1], KzgPoint, MpiPoint, sent.values[1], sent.opening)
  /\ UNCHANGED <<job, local, commitments, values, ps, messages, opening, sent>>

(* Anything the verifier is given, with one number changed.                *)
ChangedEvals(evals) ==
  {[evals EXCEPT !.beta2 = PlusOne(@)]}
  \cup {[evals EXCEPT !.pos[k] = PlusOne(@)] : k \in DOMAIN evals.pos}
  \cup {[evals EXCEPT !.neg[k] = PlusOne(@)] : k \in DOMAIN evals.neg}
ChangedOpenings ==
  {[opening EXCEPT !.folded[k] = PlusOne(@)] : k \in DOMAIN opening.folded}
  \cup {[opening EXCEPT !.beta_x = PlusOne(@)], [opening EXCEPT !.delta_x = PlusOne(@)]}
  \cup IF IsUni THEN {[opening EXCEPT !.evals = e] : e \in ChangedEvals(opening.evals)}
       ELSE {[opening EXCEPT !.beta_y = PlusOne(@)], [opening EXCEPT !.delta_y = PlusOne(@)]}
            \cup {[opening EXCEPT !.leader = e] : e \in ChangedEvals(opening.leader)}
            \cup UNION {{[opening EXCEPT !.aggregated[i] = e] : e \in ChangedEvals(opening.aggregated[i])} :
                        i \in 1 .. 3}

DeliverKzg ==
  /\ IsKzg /\ opening # Nothing /\ sent = Nothing
  /\ sent' \in {Honest} \cup ClaimsTampered \cup {[Honest EXCEPT !.opening = o] : o \in ChangedOpenings}
  /\ UNCHANGED <<job, local, commitments, values, ps, messages, opening, verdict>>

-----------------------------------------------------------------------------
KzgNext ==
  \/ KzgCommit \/ UniOpen \/ KzgBatchOpen \/ KzgOpenMerged
  \/ \E r \in Ranks : FoldX(r) \/ EvaluateX(r) \/ QuotientX(r) \/ EvalOpen(r)
  \/ GatherFolded \/ GatherEvals \/ GatherQuotients \/ GatherOpens
  \/ DeliverKzg \/ VerifyUni \/ VerifyBi

PcsSpec == Init /\ [][Next \/ KzgNext]_vars

-----------------------------------------------------------------------------
(* HyperBiKZG accepts what its ranks made together and nothing with a      *)
(* commitment, value or part of the opening changed.  So does HyperKZG     *)
(* with the pairing check whose result its verifier computes.              *)
KzgDecidesRightly ==
  verdict # Nothing /\ IsKzg =>
    LET claim == MergedClaim(sent)
    IN (verdict /\ (IsUni => UniPairing(claim.comm, claim.point, sent.opening))) = (sent = Honest)

(* Every scheme's openings are decided rightly, one by one, at one point,  *)
(* or merged (hyrax_verify, coeff_form_hyper_bikzg_verify and the batched  *)
(* openings over them).                                                    *)
OpeningsDecideRightly == HyraxDecidesRightly /\ KzgDecidesRightly

(* HyperKZG's own verdict is that of the check                             *)
(* (coeff_form_uni_hyperkzg_verify).                                       *)
HyperKzgDecidesRightly == verdict # Nothing /\ IsUni => verdict = (sent = Honest)
=============================================================================
