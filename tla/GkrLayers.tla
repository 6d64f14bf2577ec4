------------------------------ MODULE GkrLayers ------------------------------
(***************************************************************************)
(* The arithmetic of the GKR prover: gkr/src/prover/gkr_vanilla.rs with    *)
(* the layer sumcheck of sumcheck/src, whose tables live in a scratch pad  *)
(* that is handed from layer to layer.                                     *)
(*                                                                         *)
(* All ranks make the same calls in the same order (that they do is shown  *)
(* with SpmdProver), so a step here is one call made by all of them.  The  *)
(* challenges are a tape of coins fixed beforehand, and the field is a     *)
(* small prime field, for the field, its extension and its SIMD form.      *)
(***************************************************************************)
EXTENDS TinyField

(* What is proved: a record with                                           *)
(*   layers      input layer first; a layer is [ivars, ovars, mul, add,    *)
(*               cst, uni], the last four being sets of gates              *)
(*   simd, mpi   the logs of the pack size and of the number of ranks      *)
(*   input       the private inputs, by rank, place and lane               *)
(*   pi          the public inputs, by rank, place and lane                *)
(*   coins       what the transcript will answer                           *)
(*   honest      is the verifier called with the right claimed value?      *)
(*   flip        the message of the proof that gets corrupted, 0 for none  *)
CONSTANT Jobs

VARIABLES
  job,
  vals,       \* the values in front of each layer, and the outputs
  stage,      \* where sumcheck_prove_gkr_layer is
  layer,      \* the layer it works on
  sp,         \* the ProverScratchPad of each rank
  challenge,  \* where the layer's output is claimed: [rz_0, rz_1, r_simd, r_mpi]
  alpha,      \* the weight of the second claim
  rs,         \* the challenges received in this layer: [x, simd, mpi, y]
  drawn,      \* coins drawn so far
  claimed_v,  \* the value claimed for the circuit's output
  proof,      \* the messages sent so far
  claim       \* the value(s) claimed for the layer's output, or its input

pvars == <<job, vals, stage, layer, sp, challenge, alpha, rs, drawn, claimed_v,
           proof, claim>>

(* An Option is a sequence of at most one element.                         *)
None    == <<>>
Some(v) == <<v>>

Rank      == 0 .. 2^job.mpi - 1
ROOT_RANK == 0
Lane      == 0 .. 2^job.simd - 1
Depth     == Len(job.layers)
Layer     == job.layers[layer]
Coins(n)  == SubSeq(job.coins, drawn + 1, drawn + n)

SkipPhaseTwo(l) == l.mul = {}

(* CircuitLayer::evaluate in one lane of one rank.                         *)
EvaluateGates(l, in, pi, o, j) ==
  ( SumOf([g \in {h \in l.mul : h.o = o} |-> in[g.i][j] * in[g.k][j] * g.coef])
  + SumOf([g \in {h \in l.add : h.o = o} |-> in[g.i][j] * g.coef])
  + SumOf([g \in {h \in l.cst : h.o = o} |->
             IF g.pi = None THEN g.coef ELSE pi[g.pi[1]][j]])
  + SumOf([g \in {h \in l.uni : h.o = o} |->
             ProductOf([e \in 1 .. g.power |-> in[g.i][j]]) * g.coef]) ) % P

NewProverScratchPad(layers, simd, mpi) ==
  LET ins   == 2^Max({layers[k].ivars : k \in DOMAIN layers})
      outs  == 2^Max({layers[k].ovars : k \in DOMAIN layers})
      zeros == [j \in 0 .. 2^simd - 1 |-> 0]
  IN [v_evals     |-> [i \in 0 .. ins - 1 |-> zeros],
      hg_evals    |-> [i \in 0 .. ins - 1 |-> zeros],
      gate_exists |-> [i \in 0 .. ins - 1 |-> FALSE],
      simd_var_v  |-> zeros,
      simd_var_hg |-> zeros,
      mpi_var_v   |-> [q \in 0 .. 2^mpi - 1 |-> 0],
      mpi_var_hg  |-> [q \in 0 .. 2^mpi - 1 |-> 0],
      eq_rx       |-> [i \in 0 .. ins - 1 |-> 0],
      eq_rz0      |-> [i \in 0 .. outs - 1 |-> 0],
      eq_r_simd0  |-> zeros,
      eq_r_mpi0   |-> [q \in 0 .. 2^mpi - 1 |-> 0],
      phase2_coef |-> 0]

(* The scratch for the claimed value is what the tables of eq are built    *)
(* with, about the square root of the largest table; asserted to hold the  *)
(* lanes and the ranks, as hg_evals is to hold the outputs.                *)
ScratchSuffices ==
  LET vars == UNION {{job.layers[k].ivars, job.layers[k].ovars} : k \in 1 .. Depth}
  IN /\ 2 * Max({job.simd, job.mpi}) <= Max(vars \cup {job.simd, job.mpi}) + 1
     /\ job.layers[Depth].ovars <= Max({job.layers[k].ivars : k \in 1 .. Depth})

NoRs == [x |-> <<>>, simd |-> <<>>, mpi |-> <<>>, y |-> <<>>]

Init ==
  /\ job \in Jobs
  /\ vals = << job.input >>
  /\ stage = "evaluate"
  /\ layer = 1
  /\ sp = [r \in Rank |-> NewProverScratchPad(job.layers, job.simd, job.mpi)]
  /\ challenge = [rz_0 |-> <<>>, rz_1 |-> None, r_simd |-> <<>>, r_mpi |-> <<>>]
  /\ alpha = None
  /\ rs = NoRs
  /\ drawn = 0
  /\ claimed_v = 0
  /\ proof = <<>>
  /\ claim = [x |-> 0, y |-> None]

-----------------------------------------------------------------------------
(* Circuit::evaluate, layer by layer.                                      *)
EvaluateLayer ==
  /\ stage = "evaluate"
  /\ vals' = Append(vals, [r \in Rank |->
       [o \in 0 .. 2^Layer.ovars - 1 |->
         [j \in Lane |-> EvaluateGates(Layer, vals[layer][r], job.pi[r], o, j)]]])
  /\ IF layer < Depth
     THEN layer' = layer + 1 /\ UNCHANGED stage
     ELSE stage' = "sample" /\ UNCHANGED layer
  /\ UNCHANGED <<job, claimed_v, sp, challenge, alpha, rs, drawn, proof, claim>>

(* The value of a table of SIMD values held by all ranks, at a challenge:  *)
(* the variables of the circuit first, then the lanes, then the ranks.     *)
CollectivelyEval(t, ch) ==
  EvaluateAt([q \in Rank |->
    EvaluateAt([j \in Lane |->
      EvaluateAt([i \in DOMAIN t[q] |-> t[q][i][j]], ch.rz_0)], ch.r_simd)], ch.r_mpi)

(* The scratch used is cleared before it is read again.                    *)
SampleChallenge ==
  LET rz == job.layers[Depth].ovars
      n  == rz + job.simd + job.mpi
  IN
  /\ stage = "sample" /\ ScratchSuffices
  /\ challenge' = [rz_0   |-> SubSeq(Coins(n), 1, rz),
                   rz_1   |-> None,
                   r_simd |-> SubSeq(Coins(n), rz + 1, rz + job.simd),
                   r_mpi  |-> SubSeq(Coins(n), rz + job.simd + 1, n)]
  /\ drawn' = drawn + n
  /\ claimed_v' = CollectivelyEval(vals[Depth + 1], challenge')
  /\ claim' = [x |-> claimed_v', y |-> None]
  /\ stage' = "prepare"
  /\ UNCHANGED <<job, vals, layer, sp, alpha, rs, proof>>

-----------------------------------------------------------------------------

(* The tables of lanes and ranks are computed from scratch for one claim;  *)
(* with two claims, the layer before has left them in the scratch pad.     *)
HasOneClaim == layer = Depth \/ alpha = None

(* Mutant: the second claim is not weighted.                               *)
EqOfSecondClaimUnweighted == EqEvalAt(challenge.rz_1[1], 1)

EqOfSecondClaim == EqEvalAt(challenge.rz_1[1], alpha[1])

(* prepare_x_vals: eq_rz0 = eq(rz_0, .) + alpha eq(rz_1, .), the first one *)
(* as prepare_y_vals of the layer before has left it.                      *)
EqAtRz(pad) ==
  IF layer = Depth \/ challenge.rz_1 = None
  THEN WriteTable(pad.eq_rz0, EqEvalAt(challenge.rz_0, 1))
  ELSE LET second == WriteTable(pad.eq_rz0, EqOfSecondClaim)
       IN [i \in DOMAIN second |->
             IF i < 2^Len(challenge.rz_0)
             THEN (second[i] + pad.eq_rx[i]) % P ELSE second[i]]

InputGates(i) == {g \in Layer.mul \cup Layer.add : g.i = i}

HgOfX(eq, in, i, j) ==
  ( SumOf([g \in {h \in Layer.mul : h.i = i} |-> eq[g.o] * g.coef * in[g.k][j]])
  + SumOf([g \in {h \in Layer.add : h.i = i} |-> eq[g.o] * g.coef]) ) % P

PreparedForX(r) ==
  LET pad  == sp[r]
      eq   == EqAtRz(pad)
      size == 2^Layer.ivars
  IN [pad EXCEPT
        !.eq_r_simd0  = IF HasOneClaim THEN EqEvalAt(challenge.r_simd, 1) ELSE @,
        !.eq_r_mpi0   = IF HasOneClaim THEN EqEvalAt(challenge.r_mpi, 1) ELSE @,
        !.eq_rz0      = eq,
        !.hg_evals    = WriteTable(@, [i \in 0 .. size - 1 |->
                          [j \in Lane |-> HgOfX(eq, vals[layer][r], i, j)]]),
        !.gate_exists = WriteTable(@, [i \in 0 .. size - 1 |-> InputGates(i) # {}])]

(* prepare_simd, prepare_mpi and prepare_x_vals; asserts that a second     *)
(* claim and its weight come together.                                     *)
PrepareLayerProver ==
  /\ stage = "prepare"
  /\ challenge.rz_1 = None <=> alpha = None
  /\ sp' = [r \in Rank |-> PreparedForX(r)]
  /\ rs' = NoRs
  /\ stage' = "x"
  /\ UNCHANGED <<job, claimed_v, vals, layer, challenge, alpha, drawn, proof, claim>>

-----------------------------------------------------------------------------
(* The values of the layer, halved once for each challenge received.       *)
(* Mutant: the table of the layer before stands in for the values.         *)
FTableStale(r, k) == sp[r].v_evals

FTable(r, k) == IF k = 0 THEN vals[layer][r] ELSE sp[r].v_evals

(* SumcheckProductGateHelper::poly_eval_at after k challenges: the values  *)
(* at 0, 1 and 2 in each lane; places without a gate are skipped.          *)
ProductEvals(r, k) ==
  LET f     == FTable(r, k)
      hg    == sp[r].hg_evals
      pairs == {i \in 0 .. 2^(Layer.ivars - k - 1) - 1 :
                  sp[r].gate_exists[2 * i] \/ sp[r].gate_exists[2 * i + 1]}
      p0(j) == SumOf([i \in pairs |-> hg[2 * i][j] * f[2 * i][j]])
      p1(j) == SumOf([i \in pairs |-> hg[2 * i + 1][j] * f[2 * i + 1][j]])
      s(j)  == SumOf([i \in pairs |-> (hg[2 * i][j] + hg[2 * i + 1][j])
                                        * (f[2 * i][j] + f[2 * i + 1][j])])
  IN << [j \in Lane |-> p0(j)], [j \in Lane |-> p1(j)],
        [j \in Lane |-> (6 * p1(j) + 3 * p0(j) - 2 * s(j)) % P] >>

UnpackAndCombine(p, coef) == SumOf([j \in Lane |-> p[j] * coef[j]])

(* The root's combination of what the ranks computed; alone, a rank takes  *)
(* its own values without the coefficient.                                 *)
CoefCombineVec(local) ==
  IF job.mpi = 0 THEN local[ROOT_RANK]
  ELSE [n \in DOMAIN local[ROOT_RANK] |->
          SumOf([q \in Rank |-> local[q][n] * sp[ROOT_RANK].eq_r_mpi0[q]])]

PolyEvalsAtRx(k) ==
  CoefCombineVec([r \in Rank |->
    [n \in 1 .. 3 |-> UnpackAndCombine(ProductEvals(r, k)[n], sp[r].eq_r_simd0)]])

(* SumcheckSimdProdGateHelper::poly_eval_at: the products at 0, 1, 2, 3.   *)
TripleEvals(eq, f, hg, half) ==
  [n \in 1 .. 4 |-> SumOf([i \in 0 .. half - 1 |->
     Mix(eq[2 * i], eq[2 * i + 1], n - 1) * Mix(f[2 * i], f[2 * i + 1], n - 1)
       * Mix(hg[2 * i], hg[2 * i + 1], n - 1)])]

PolyEvalsAtRSimdVar(k) ==
  CoefCombineVec([r \in Rank |->
    TripleEvals(sp[r].eq_r_simd0, sp[r].simd_var_v, sp[r].simd_var_hg,
                2^(job.simd - k - 1))])

PolyEvalsAtRMpiVar(k) ==
  LET pad == sp[ROOT_RANK]
  IN TripleEvals(pad.eq_r_mpi0, pad.mpi_var_v, pad.mpi_var_hg, 2^(job.mpi - k - 1))

(* The challenge c folds the tables of the product, after k others.        *)
ProductReceive(r, k, c) ==
  LET half      == 2^(Layer.ivars - k - 1)
      lerp(a, b) == SimdMix(a, b, c)
      exists    == sp[r].gate_exists
      hg        == FoldInto(sp[r].hg_evals, sp[r].hg_evals, half, lerp)
      zeros     == [j \in Lane |-> 0]
  IN [sp[r] EXCEPT
        !.v_evals     = FoldInto(@, FTable(r, k), half, lerp),
        !.gate_exists = FoldInto(@, @, half, LAMBDA a, b : a \/ b),
        !.hg_evals    = [i \in DOMAIN hg |->
                           IF i < half /\ ~exists[2 * i] /\ ~exists[2 * i + 1]
                           THEN zeros ELSE hg[i]]]

(* transcript_io: send a message and receive the next challenge.           *)
TranscriptIo(evals) ==
  /\ proof' = Append(proof, evals)
  /\ drawn' = drawn + 1

Coin == job.coins[drawn + 1]

RoundX ==
  LET k == Len(rs.x) IN
  /\ stage = "x" /\ k < Layer.ivars
  /\ TranscriptIo(PolyEvalsAtRx(k))
  /\ sp' = [r \in Rank |-> ProductReceive(r, k, Coin)]
  /\ rs' = [rs EXCEPT !.x = Append(@, Coin)]
  /\ UNCHANGED <<job, claimed_v, vals, stage, layer, challenge, alpha, claim>>

PrepareSimdVarVals ==
  /\ stage = "x" /\ Len(rs.x) = Layer.ivars
  /\ sp' = [r \in Rank |->
       [sp[r] EXCEPT !.simd_var_v = sp[r].v_evals[0], !.simd_var_hg = sp[r].hg_evals[0]]]
  /\ stage' = "simd"
  /\ UNCHANGED <<job, claimed_v, vals, layer, challenge, alpha, rs, drawn, proof, claim>>

RoundSimd ==
  LET k    == Len(rs.simd)
      half == 2^(job.simd - k - 1)
      lerp(a, b) == Mix(a, b, Coin)
  IN
  /\ stage = "simd" /\ k < job.simd
  /\ TranscriptIo(PolyEvalsAtRSimdVar(k))
  /\ sp' = [r \in Rank |->
       [sp[r] EXCEPT !.eq_r_simd0  = FoldInto(@, @, half, lerp),
                     !.simd_var_v  = FoldInto(@, @, half, lerp),
                     !.simd_var_hg = FoldInto(@, @, half, lerp)]]
  /\ rs' = [rs EXCEPT !.simd = Append(@, Coin)]
  /\ UNCHANGED <<job, claimed_v, vals, stage, layer, challenge, alpha, claim>>

(* Only the root's tables are filled by the two gathers.                   *)
PrepareMpiVarVals ==
  /\ stage = "simd" /\ Len(rs.simd) = job.simd
  /\ sp' = [sp EXCEPT ![ROOT_RANK] =
       [@ EXCEPT !.mpi_var_v  = [q \in Rank |-> sp[q].simd_var_v[0]],
                 !.mpi_var_hg = [q \in Rank |->
                    (sp[q].simd_var_hg[0] * sp[q].eq_r_simd0[0]) % P]]]
  /\ stage' = "mpi"
  /\ UNCHANGED <<job, claimed_v, vals, layer, challenge, alpha, rs, drawn, proof, claim>>

RoundMpi ==
  LET k    == Len(rs.mpi)
      half == 2^(job.mpi - k - 1)
      lerp(a, b) == Mix(a, b, Coin)
  IN
  /\ stage = "mpi" /\ k < job.mpi
  /\ TranscriptIo(PolyEvalsAtRMpiVar(k))
  /\ sp' = [r \in Rank |->
       [sp[r] EXCEPT !.eq_r_mpi0  = FoldInto(@, @, half, lerp),
                     !.mpi_var_v  = FoldInto(@, @, half, lerp),
                     !.mpi_var_hg = FoldInto(@, @, half, lerp)]]
  /\ rs' = [rs EXCEPT !.mpi = Append(@, Coin)]
  /\ UNCHANGED <<job, claimed_v, vals, stage, layer, challenge, alpha, claim>>

-----------------------------------------------------------------------------
VxClaim == sp[ROOT_RANK].mpi_var_v[0]

HgOfY(eq, eqx, i) ==
  SumOf([g \in {h \in Layer.mul : h.k = i} |-> eq[g.o] * eqx[g.i] * g.coef])

(* prepare_y_vals, which also leaves the tables of the next layer's first  *)
(* claim, with the root's vx broadcast to all.                             *)
PreparedForY(r) ==
  LET pad  == sp[r]
      eqx  == WriteTable(pad.eq_rx, EqEvalAt(rs.x, 1))
      size == 2^Len(rs.x)
  IN [pad EXCEPT
        !.phase2_coef = (EqVec(challenge.r_mpi, rs.mpi) * pad.eq_r_simd0[0] * VxClaim) % P,
        !.eq_r_mpi0   = EqEvalAt(rs.mpi, 1),
        !.eq_rx       = eqx,
        !.eq_r_simd0  = EqEvalAt(rs.simd, 1),
        !.hg_evals    = WriteTable(@, [i \in 0 .. size - 1 |->
                          [j \in Lane |-> HgOfY(pad.eq_rz0, eqx, i)]]),
        !.gate_exists = WriteTable(@, [i \in 0 .. size - 1 |->
                          \E g \in Layer.mul : g.k = i])]

ChallengeOf(ry) == [rz_0 |-> rs.x, rz_1 |-> ry, r_simd |-> rs.simd, r_mpi |-> rs.mpi]

FinishPhaseOne ==
  /\ stage = "mpi" /\ Len(rs.mpi) = job.mpi
  /\ proof' = Append(proof, << VxClaim >>)
  /\ claim' = [x |-> VxClaim, y |-> None]
  /\ IF SkipPhaseTwo(Layer)
     THEN /\ challenge' = ChallengeOf(None)
          /\ stage' = "next"
          /\ UNCHANGED sp
     ELSE /\ sp' = [r \in Rank |-> PreparedForY(r)]
          /\ stage' = "y"
          /\ UNCHANGED challenge
  /\ UNCHANGED <<job, claimed_v, vals, layer, alpha, rs, drawn>>

PolyEvalsAtRy(k) ==
  [n \in 1 .. 3 |-> (PolyEvalsAtRx(k)[n] * sp[ROOT_RANK].phase2_coef) % P]

RoundY ==
  LET k == Len(rs.y) IN
  /\ stage = "y" /\ k < Layer.ivars
  /\ TranscriptIo(PolyEvalsAtRy(k))
  /\ sp' = [r \in Rank |-> ProductReceive(r, k, Coin)]
  /\ rs' = [rs EXCEPT !.y = Append(@, Coin)]
  /\ UNCHANGED <<job, claimed_v, vals, stage, layer, challenge, alpha, claim>>

VyClaim ==
  CoefCombineVec([r \in Rank |->
    << UnpackAndCombine(sp[r].v_evals[0], sp[r].eq_r_simd0) >>])[1]

FinishPhaseTwo ==
  /\ stage = "y" /\ Len(rs.y) = Layer.ivars
  /\ proof' = Append(proof, << VyClaim >>)
  /\ claim' = [claim EXCEPT !.y = Some(VyClaim)]
  /\ challenge' = ChallengeOf(Some(rs.y))
  /\ stage' = "next"
  /\ UNCHANGED <<job, claimed_v, vals, layer, sp, alpha, rs, drawn>>

NextLayer ==
  /\ stage = "next"
  /\ IF challenge.rz_1 = None
     THEN alpha' = None /\ UNCHANGED drawn
     ELSE alpha' = Some(Coin) /\ drawn' = drawn + 1
  /\ layer' = layer - 1
  /\ stage' = IF layer > 1 THEN "prepare" ELSE "proved"
  /\ UNCHANGED <<job, claimed_v, vals, sp, challenge, rs, proof, claim>>

ProverStep ==
  \/ EvaluateLayer \/ SampleChallenge \/ PrepareLayerProver
  \/ RoundX \/ PrepareSimdVarVals \/ RoundSimd \/ PrepareMpiVarVals \/ RoundMpi
  \/ FinishPhaseOne \/ RoundY \/ FinishPhaseTwo \/ NextLayer

-----------------------------------------------------------------------------
(* The reference: the multilinear extension of what all ranks hold in all  *)
(* lanes, as one sum over the hypercube.                                   *)
GlobalMle(t, rz, ch) ==
  Mle([q \in Rank |->
    Mle([j \in Lane |-> Mle([i \in DOMAIN t[q] |-> t[q][i][j]], rz)], ch.r_simd)], ch.r_mpi)

(* What the prover claims of a layer's values is what they are: between    *)
(* two layers, the claims x and y are the multilinear extension of the     *)
(* values between them at the two points of the challenge.  So the last    *)
(* claims are the ones the input's commitment can be opened to.            *)
ClaimsAreMle ==
  stage \in {"prepare", "proved"} =>
    LET t == vals[layer + 1] IN
    /\ claim.x = GlobalMle(t, challenge.rz_0, challenge)
    /\ claim.y = None <=> challenge.rz_1 = None
    /\ claim.y # None => claim.y = Some(GlobalMle(t, challenge.rz_1[1], challenge))

=============================================================================
