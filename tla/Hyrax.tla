-------------------------------- MODULE Hyrax --------------------------------
(***************************************************************************)
(* poly_commit/src/hyrax and batching.rs: a polynomial is a matrix whose   *)
(* rows are committed to one by one, by every rank for itself or for       *)
(* several polynomials; an opening is a combination of the rows.  Several  *)
(* openings at one point are combined with powers of a challenge, at       *)
(* several points after a sumcheck that turns them into one point.         *)
(*                                                                         *)
(* The bases of a Pedersen commitment are independent: a point of the      *)
(* curve is the vector of its exponents.  What the transcript returns is   *)
(* fixed beforehand.                                                       *)
(***************************************************************************)
EXTENDS SumCheckIOP

CONSTANTS Nothing, Jobs

VARIABLES
  job,         \* the call, with its inputs
  local,       \* each rank's commitment, then each rank's folded rows
  commitments, \* of each polynomial; one, the root's, for the ExpanderPCS calls
  values,      \* of each polynomial at its point
  ps,          \* IOPProverState
  messages,    \* of the rounds so far
  opening,
  sent,        \* what arrives at the verifier
  verdict

vars == <<job, local, commitments, values, ps, messages, opening, sent, verdict>>

IsHyrax == job.scheme = "hyrax"

Ranks == 0 .. job.world - 1
ROOT_RANK == 0
Log2Ceil(n) == CHOOSE k \in 0 .. n : 2^k >= n /\ \A j \in 0 .. k - 1 : 2^j < n
GreatestOf(S) == CHOOSE n \in S : \A m \in S : m <= n

-----------------------------------------------------------------------------
(* The inputs: job.vars holds the number of variables of each polynomial,  *)
(* or of each rank's when there is one call for all ranks.                 *)
Scrambled(i, j) == <<(job.seed * (i + 2) * (i + 5) + i * j * 13 + j * j * 7 + 3 * i + (i * i) \div 3) % P>>
Polys == DOMAIN job.vars
Evals(i) == [k \in 1 .. 2^job.vars[i] |-> Scrambled(k, i)]
Point(i) == [k \in 1 .. job.vars[i] |-> Scrambled(30 + k, IF job.call = "single" THEN 1 ELSE i)]
MpiPoint == [k \in 1 .. Log2Ceil(job.world) |-> Scrambled(50 + k, 1)]
Coin(k)  == Scrambled(70 + k, 2)

RankPoly(r) == [k \in 1 .. 2^job.vars[1] |-> Scrambled(k + r * 2^job.vars[1], 1)]

-----------------------------------------------------------------------------
(* hyrax_setup: as square as the ranks allow, a row never shared by two.   *)
PedersenVars(localVars, mpiVars) ==
  LET total == mpiVars + localVars
      squared == (total + 1) \div 2
  IN IF mpiVars + squared > total THEN total - mpiVars ELSE squared

(* The parameters are those of the largest polynomial.                     *)
RowVars == PedersenVars(GreatestOf({job.vars[i] : i \in Polys}), Len(MpiPoint))
MsmLen == 2^RowVars

PedersenCommit(coeffs) == [k \in 1 .. MsmLen |-> IF k <= Len(coeffs) THEN coeffs[k][1] ELSE 0]
(* A point is the vector of its exponents: one, for KZG.                   *)
Width == IF IsHyrax THEN MsmLen ELSE 1
BestMultiexp(scalars, bases) == VSum(Width, [k \in DOMAIN bases |-> VScale(scalars[k][1], bases[k])])

Rows(coeffs) == [k \in 1 .. Len(coeffs) \div MsmLen |-> SubSeq(coeffs, (k - 1) * MsmLen + 1, k * MsmLen)]

(* A polynomial smaller than a row is padded to one.                       *)
HyraxCommit(coeffs) ==
  IF Len(coeffs) < MsmLen THEN <<PedersenCommit(coeffs)>>
  ELSE [k \in DOMAIN Rows(coeffs) |-> PedersenCommit(Rows(coeffs)[k])]

InRow(point)  == SubSeq(point, 1, RowVars)
OfRows(point) == SubSeq(point, RowVars + 1, Len(point))
Fold(coeffs, point) == FixVariables(coeffs, OfRows(point))

(* hyrax_verify, and verify of the ExpanderPCS with the ranks' variables   *)
(* behind those of the rows.                                               *)
HyraxVerify(commitment, point, eval, row) ==
  /\ PedersenCommit(row) = BestMultiexp(BuildEqXR(OfRows(point)), commitment)
  /\ eval = EvaluateWithBuffer(row, InRow(point))

-----------------------------------------------------------------------------
(* ExpanderPCS::commit and open, by all ranks.                             *)
ExpanderCommit(r) ==
  /\ IsHyrax /\ job.call = "expander" /\ local[r] = Nothing /\ commitments = Nothing
  /\ local' = [local EXCEPT ![r] = HyraxCommit(RankPoly(r))]
  /\ UNCHANGED <<job, commitments, values, ps, messages, opening, sent, verdict>>

GatherCommitments ==
  /\ IsHyrax /\ job.call = "expander" /\ commitments = Nothing /\ \A r \in Ranks : local[r] # Nothing
  /\ commitments' = <<FlattenSeq([k \in 1 .. job.world |-> local[k - 1]])>>
  /\ local' = [r \in Ranks |-> Nothing]
  /\ UNCHANGED <<job, values, ps, messages, opening, sent, verdict>>

ExpanderFold(r) ==
  /\ IsHyrax /\ job.call = "expander" /\ commitments # Nothing /\ opening = Nothing /\ local[r] = Nothing
  /\ local' = [local EXCEPT ![r] = Fold(RankPoly(r), Point(1))]
  /\ UNCHANGED <<job, commitments, values, ps, messages, opening, sent, verdict>>

(* coef_combine_vec at the root.  The value is the claim the proof is for. *)
CombineRanks ==
  /\ IsHyrax /\ job.call = "expander" /\ commitments # Nothing /\ opening = Nothing
  /\ \A r \in Ranks : local[r] # Nothing
  /\ LET eq == BuildEqXR(MpiPoint)
     IN opening' = [k \in 1 .. MsmLen |-> ESum([i \in 1 .. job.world |-> EMul(local[i - 1][k], eq[i])])]
  /\ values' = <<EvaluateWithBuffer(FlattenSeq([i \in 1 .. job.world |-> RankPoly(i - 1)]),
                                    Point(1) \o MpiPoint)>>
  /\ UNCHANGED <<job, local, commitments, ps, messages, sent, verdict>>

-----------------------------------------------------------------------------
(* Several polynomials of one process.                                     *)
CommitAll ==
  /\ IsHyrax /\ job.call # "expander" /\ commitments = Nothing
  /\ commitments' = [i \in Polys |-> HyraxCommit(Evals(i))]
  /\ UNCHANGED <<job, local, values, ps, messages, opening, sent, verdict>>

PowersSeries(c, n) ==
  FoldLeft(LAMBDA powers, k : Append(powers, EMul(Last(powers), c)),
           <<EOne>>, [k \in 1 .. n - 1 |-> k])
Combination(weights, vectors, n) ==
  [k \in 1 .. n |-> ESum([i \in DOMAIN vectors |->
                            IF k <= Len(vectors[i]) THEN EMul(weights[i], vectors[i][k]) ELSE EZero])]

(* hyrax_batch_open, all at the first point.                               *)
BatchOpen ==
  /\ IsHyrax /\ job.call = "single" /\ commitments # Nothing /\ opening = Nothing
  /\ LET folded == [i \in Polys |-> Fold(Evals(i), Point(1))]
     IN /\ opening' = Combination(PowersSeries(Coin(1), Len(job.vars)), folded, MsmLen)
        /\ values' = [i \in Polys |-> EvaluateWithBuffer(folded[i], InRow(Point(1)))]
  /\ UNCHANGED <<job, local, commitments, ps, messages, sent, verdict>>

(* prover_merge_points, up to the sumcheck.                                *)
Ell == Log2Ceil(Len(job.vars))
EqT == BuildEqXR([k \in 1 .. Ell |-> Coin(k)])
TildeG(i) == [k \in 1 .. 2^job.vars[i] |-> EMul(Evals(i)[k], EqT[i])]
TildeEq(i) == BuildEqXR(Point(i))
Challenge(k) == Coin(Ell + k)

MergePoints ==
  /\ job.call = "multi" /\ commitments # Nothing /\ values = Nothing
  /\ values' = [i \in Polys |-> EvaluateWithBuffer(Evals(i), Point(i))]
  /\ ps' = ProverInit([i \in Polys |-> [f |-> TildeG(i), g |-> TildeEq(i)]])
  /\ UNCHANGED <<job, local, commitments, messages, opening, sent, verdict>>

(* prove_round_and_update_state.                                           *)
ProveRound ==
  /\ job.call = "multi" /\ ps # Nothing /\ opening = Nothing /\ ps.round < ps.init_num_vars
  /\ LET fixed == IF ps.round = 0 THEN ps ELSE FixTopVariableForPolyPairs(ps, Challenge(ps.round))
         next  == [fixed EXCEPT !.round = @ + 1]
     IN ps' = next /\ messages' = Append(messages, RoundMessage(next))
  /\ UNCHANGED <<job, local, commitments, values, opening, sent, verdict>>

SumcheckPoint == [k \in 1 .. ps.init_num_vars |-> Challenge(k)]

(* Mutant: the point in the order of the rounds.                           *)
ExportPointInOrder(point) == point
(* export_point_to_expander: the first round was the top variable's.       *)
ExportPointToExpander(point) == Reverse(point)

PaddedPoint(i, n) == Point(i) \o [k \in 1 .. n - job.vars[i] |-> EZero]
EqVec(xs, ys) ==
  EProduct([k \in DOMAIN xs |-> VAdd(EMul(xs[k], ys[k]), EMul(VSub(EOne, xs[k]), VSub(EOne, ys[k])))])

GPrime(a2) ==
  Combination([i \in Polys |-> EqVec(a2, PaddedPoint(i, Len(a2)))], [i \in Polys |-> TildeG(i)], 2^Len(a2))

OpenMerged ==
  /\ IsHyrax /\ job.call = "multi" /\ ps # Nothing /\ opening = Nothing /\ ps.round = ps.init_num_vars
  /\ LET a2 == ExportPointToExpander(SumcheckPoint) IN opening' = Fold(GPrime(a2), a2)
  /\ UNCHANGED <<job, local, commitments, values, ps, messages, sent, verdict>>

-----------------------------------------------------------------------------
(* The verifier.  Anything but the point of the sumcheck may be changed.   *)
Honest == [commitments |-> commitments, values |-> values, messages |-> messages, opening |-> opening]
PlusOne(x) == [x EXCEPT ![1] = (@ + 1) % P]
ClaimsTampered ==
  {[Honest EXCEPT !.commitments[i][1] = PlusOne(@)] : i \in DOMAIN commitments}
  \cup {[Honest EXCEPT !.values[i] = PlusOne(@)] : i \in DOMAIN values}
  \cup {[Honest EXCEPT !.messages[k][1] = PlusOne(@)] : k \in DOMAIN messages}
Tampered ==
  ClaimsTampered
  \cup {[Honest EXCEPT !.opening[k] = PlusOne(@)] : k \in DOMAIN opening}

Deliver ==
  /\ IsHyrax /\ opening # Nothing /\ sent = Nothing
  /\ sent' \in {Honest} \cup Tampered
  /\ UNCHANGED <<job, local, commitments, values, ps, messages, opening, verdict>>

VerifyExpander(got) == HyraxVerify(got.commitments[1], Point(1) \o MpiPoint, got.values[1], got.opening)

(* hyrax_batch_verify.                                                     *)
VerifySingle(got) ==
  LET powers == PowersSeries(Coin(1), Len(got.commitments))
      eq == BuildEqXR(OfRows(Point(1)))
      scalars == FlattenSeq([i \in DOMAIN powers |-> [k \in DOMAIN eq |-> EMul(eq[k], powers[i])]])
  IN /\ PedersenCommit(got.opening) = BestMultiexp(scalars, FlattenSeq(got.commitments))
     /\ DotProduct(got.values, powers) = EvaluateWithBuffer(got.opening, InRow(Point(1)))

(* pad_commitments_and_points and the commitment to g'.                    *)
(* Mutant: a shorter commitment is repeated, not padded.                   *)
CommitmentRowWrapped(commitment, k) == commitment[((k - 1) % Len(commitment)) + 1]
CommitmentRow(commitment, k) == IF k <= Len(commitment) THEN commitment[k] ELSE VZero(Width)

GPrimeCommit(commits, a2) ==
  LET scalars == [i \in DOMAIN commits |-> EMul(EqVec(a2, PaddedPoint(i, Len(a2))), EqT[i])]
      columns == GreatestOf({Len(commits[i]) : i \in DOMAIN commits})
  IN [k \in 1 .. columns |-> BestMultiexp(scalars, [i \in DOMAIN commits |-> CommitmentRow(commits[i], k)])]

(* verifier_merge_points, then hyrax_verify.                               *)
VerifyMulti(got) ==
  LET a2  == ExportPointToExpander(SumcheckPoint)
      sum == ESum([i \in DOMAIN got.values |-> EMul(EqT[i], got.values[i])])
  IN /\ SumsHold(sum, got.messages, SumcheckPoint)
     /\ HyraxVerify(GPrimeCommit(got.commitments, a2), a2,
                    Last(ClaimsFrom(sum, got.messages, SumcheckPoint)), got.opening)

Verify ==
  /\ IsHyrax /\ sent # Nothing /\ verdict = Nothing
  /\ verdict' = CASE job.call = "expander" -> VerifyExpander(sent)
                  [] job.call = "single" -> VerifySingle(sent)
                  [] job.call = "multi" -> VerifyMulti(sent)
  /\ UNCHANGED <<job, local, commitments, values, ps, messages, opening, sent>>

-----------------------------------------------------------------------------
Init ==
  /\ job \in Jobs
  /\ local = [r \in Ranks |-> Nothing]
  /\ commitments = Nothing /\ values = Nothing /\ ps = Nothing /\ messages = <<>>
  /\ opening = Nothing /\ sent = Nothing /\ verdict = Nothing

Terminated == verdict # Nothing /\ UNCHANGED vars

Next ==
  \/ \E r \in Ranks : ExpanderCommit(r) \/ ExpanderFold(r)
  \/ GatherCommitments \/ CombineRanks
  \/ CommitAll \/ BatchOpen
  \/ MergePoints \/ ProveRound \/ OpenMerged
  \/ Deliver \/ Verify \/ Terminated

Spec == Init /\ [][Next]_vars

-----------------------------------------------------------------------------
(* In every round the message and the claim left over from the rounds      *)
(* before are those of the padded polynomials, written out: the claim is   *)
(* their sum over the cube of the variables that are left, and its halves  *)
(* are the message, although the prover neither pads nor folds the smaller *)
(* ones in the first rounds (fix_top_variable_for_poly_pairs).             *)
RoundsProveThePaddedSum ==
  job.call = "multi" /\ ps # Nothing /\ sent = Nothing =>
    \A k \in DOMAIN messages :
      LET n == ps.init_num_vars
          Padded(c) == c \o [j \in 1 .. 2^n - Len(c) |-> EZero]
          Bound(c, x) == FixVariables(Padded(c), Reverse([j \in 1 .. k - 1 |-> Challenge(j)] \o <<x>>))
          AtX(x) == ESum([i \in Polys |-> DotProduct(Bound(TildeG(i), x), Bound(TildeEq(i), x))])
          sum == ESum([i \in Polys |-> EMul(EqT[i], values[i])])
      IN /\ messages[k] = <<AtX(EZero), AtX(EOne), AtX(FromBase(2))>>
         /\ ClaimsFrom(sum, messages, SumcheckPoint)[k] = VAdd(AtX(EZero), AtX(EOne))

(* The commitment the verifier puts together for the merged polynomial,    *)
(* out of commitments with different numbers of rows, is the one to the    *)
(* polynomial the prover opens (verifier_merge_points).                    *)
MergedCommitmentsAgree ==
  IsHyrax /\ job.call = "multi" /\ opening # Nothing /\ sent = Nothing =>
    LET a2 == ExportPointToExpander(SumcheckPoint)
    IN GPrimeCommit(commitments, a2) = HyraxCommit(GPrime(a2))

(* Each verifier accepts what its prover made, whatever the polynomials'   *)
(* sizes and the number of ranks, and nothing with a commitment, value,    *)
(* message or opening changed.                                             *)
HyraxDecidesRightly == verdict # Nothing /\ IsHyrax => verdict = (sent = Honest)
=============================================================================
