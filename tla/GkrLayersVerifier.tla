--------------------------- MODULE GkrLayersVerifier ---------------------------
(***************************************************************************)
(* The arithmetic of the two GKR verifiers over the proof of GkrLayers.    *)
(*   gkr_verify    works through the layers in order, and reuses the       *)
(*                 tables of one layer for the next;                       *)
(*   gkr_parallel  cuts the proof into one unit for each layer, with the   *)
(*                 coins the unit will need, and verifies the units in any *)
(*                 order, each with a scratch pad of its own.              *)
(***************************************************************************)
EXTENDS GkrLayers

(* The places of a table for n variables, and those of the tables of the   *)
(* verifier's scratch pad.                                                 *)
Places(n) == 0 .. 2^n - 1

TablePlaces(j) ==
  Places(Max({j.layers[k].ovars : k \in DOMAIN j.layers} \cup {j.layers[1].ivars}))

(* The coins drawn for a layer, the weight of its second claim included,   *)
(* and those drawn before a layer is left for the next one below.          *)
LayerDraws(j, l) ==
  l.ivars + j.simd + j.mpi + (IF SkipPhaseTwo(l) THEN 0 ELSE l.ivars + 1)

DrawnAbove(j) ==
  LET top == Len(j.layers)
      d[k \in 0 .. top] == IF k = top THEN j.layers[top].ovars + j.simd + j.mpi
                          ELSE d[k + 1] + LayerDraws(j, j.layers[k + 1])
  IN d

(* What a circuit is: each layer reads what the one below it wrote, and    *)
(* its gates are at places it has.  The tape of coins does not run out,    *)
(* as no transcript does.                                                  *)
LayerFits(j, k) ==
  LET l == j.layers[k] IN
  /\ l.ivars \in Nat /\ l.ovars \in Nat
  /\ k < Len(j.layers) => j.layers[k + 1].ivars = l.ovars
  /\ Places(l.ivars) \subseteq TablePlaces(j) /\ Places(l.ovars) \subseteq TablePlaces(j)
  /\ \A g \in l.mul \cup l.add \cup l.cst : g.o \in Places(l.ovars)
  /\ \A g \in l.mul \cup l.add : g.i \in Places(l.ivars)
  /\ \A g \in l.mul : g.k \in Places(l.ivars)

ASSUME JobsAssumption ==
  \A j \in Jobs :
    /\ Len(j.layers) \in Nat \ {0} /\ j.simd \in Nat /\ j.mpi \in Nat
    /\ \A k \in 1 .. Len(j.layers) : LayerFits(j, k)
    /\ j.coins \in Seq(Field) /\ DrawnAbove(j)[0] <= Len(j.coins)

VARIABLES
  seq,   \* the state of gkr_verify
  par    \* the state of gkr_parallel

(* The proof as the verifiers read it: one message may be corrupted.       *)
Message(k) ==
  IF k = job.flip THEN [proof[k] EXCEPT ![1] = (@ + 1) % P] ELSE proof[k]
Messages == [k \in DOMAIN proof |-> Message(k)]

ClaimedV == IF job.honest THEN claimed_v ELSE (claimed_v + 1) % P

NewVerifierScratchPad ==
  LET zero == [i \in TablePlaces(job) |-> 0]
  IN [rz0 |-> zero, rx |-> zero, ry |-> zero,
      simd |-> [j \in Lane |-> 0], mpi |-> [q \in Rank |-> 0],
      r_simd |-> <<>>, r_mpi |-> <<>>, eq_simd |-> 0, eq_mpi |-> 0]

NoChallenge == [rz_0 |-> <<>>, rz_1 |-> None, r_simd |-> <<>>, r_mpi |-> <<>>]
NoClaim     == [x |-> 0, y |-> None]

VerifierInit ==
  /\ Init
  /\ seq = [status |-> "waiting", layer |-> 0, challenge |-> NoChallenge, claim |-> NoClaim,
            alpha |-> None, pad |-> NewVerifierScratchPad, ok |-> TRUE, read |-> 0,
            drawn |-> 0]
  /\ par = [status |-> "waiting", units |-> <<>>, result |-> [k \in 1 .. Depth |-> "todo"],
            challenge |-> NoChallenge, claim |-> NoClaim]

-----------------------------------------------------------------------------
(* sumcheck_verify_gkr_layer.                                              *)

SetClaimTables(pad, ch) ==
  [pad EXCEPT !.simd = EqEvalAt(ch.r_simd, 1), !.mpi = EqEvalAt(ch.r_mpi, 1),
              !.r_simd = ch.r_simd, !.r_mpi = ch.r_mpi]

(* The sum of two tables on the places of the layer's outputs.             *)
WeightedSum(l, t, a, u) ==
  [i \in DOMAIN t |-> IF i < 2^l.ovars THEN (t[i] + a * u[i]) % P ELSE t[i]]

(* prepare_layer: eq(rx, .) and eq(ry, .) are those of the layer before.   *)
PrepareLayer(l, a, ch, pad, isOutput) ==
  LET first == IF isOutput THEN EqEvalAt(ch.rz_0, 1)
               ELSE [i \in 0 .. 2^Len(ch.rz_0) - 1 |-> pad.rx[i]]
      rz0   == WriteTable(pad.rz0, first)
  IN SetClaimTables(
       [pad EXCEPT !.rz0 = IF ~isOutput /\ a # None
                           THEN WeightedSum(l, rz0, a[1], pad.ry) ELSE rz0], ch)

(* prepare_layer_non_sequential computes everything anew, and uses the     *)
(* table of rx for the second claim.                                       *)
PrepareLayerNonSequential(l, a, ch, pad) ==
  LET rz0 == WriteTable(pad.rz0, EqEvalAt(ch.rz_0, 1))
  IN SetClaimTables(
       IF a = None THEN [pad EXCEPT !.rz0 = rz0]
       ELSE LET rx == WriteTable(pad.rx, EqEvalAt(ch.rz_1[1], 1))
            IN [pad EXCEPT !.rx = rx, !.rz0 = WeightedSum(l, rz0, a[1], rx)], ch)

(* The verifier has the public inputs of all ranks one after the other.    *)
PublicInputs == FlattenSeq([k \in 1 .. 2^job.mpi |-> job.pi[k - 1]])

EvalCst(l, pad) ==
  LET local == Len(PublicInputs) \div 2^job.mpi
      combined(n) == SumOf([j \in Lane |-> pad.simd[j] *
                       SumOf([q \in Rank |-> pad.mpi[q] * PublicInputs[q * local + n][j]])])
  IN SumOf([g \in l.cst |->
       pad.rz0[g.o] * (IF g.pi = None THEN g.coef ELSE combined(g.pi[1]))])

EvalAdd(l, pad) ==
  (SumOf([g \in l.add |-> pad.rz0[g.o] * pad.rx[g.i] * g.coef])
    * pad.eq_simd * pad.eq_mpi) % P

EvalMul(l, pad) ==
  (SumOf([g \in l.mul |-> pad.rz0[g.o] * pad.rx[g.i] * g.coef * pad.ry[g.k]])
    * pad.eq_simd * pad.eq_mpi) % P

StepEval(message, r, degree) ==
  IF degree = 2 THEN Degree2Eval(message, r) ELSE Degree3Eval(message, r)

(* Mutant: a round that is right makes up for those before it.             *)
VerifyStepsLastOnly(from, messages, coins, degree) ==
  FoldLeft(LAMBDA a, k :
             [ok  |-> (messages[k][1] + messages[k][2]) % P = a.sum,
              sum |-> StepEval(messages[k], coins[k], degree)],
           from, [k \in DOMAIN messages |-> k])

(* verify_sumcheck_step for each of some rounds, from [sum, ok] on.        *)
VerifySteps(from, messages, coins, degree) ==
  FoldLeft(LAMBDA a, k :
             [ok  |-> a.ok /\ (messages[k][1] + messages[k][2]) % P = a.sum,
              sum |-> StepEval(messages[k], coins[k], degree)],
           from, [k \in DOMAIN messages |-> k])

PhaseOneRounds(l) == l.ivars + job.simd + job.mpi
PhaseTwoRounds(l) == IF SkipPhaseTwo(l) THEN 0 ELSE l.ivars
MessagesOf(l)     == PhaseOneRounds(l) + 1 + (IF SkipPhaseTwo(l) THEN 0 ELSE l.ivars + 1)

(* The layer l against its claim c at ch, with its messages m, its coins t *)
(* and the prepared scratch pad: is it all right, and what follows from it *)
(* for the values in front of the layer?                                   *)
SumcheckVerifyGkrLayer(l, ch, c, a, m, t, prepared) ==
  LET n     == PhaseOneRounds(l)
      rx    == SubSeq(t, 1, l.ivars)
      simd  == SubSeq(t, l.ivars + 1, l.ivars + job.simd)
      mpi   == SubSeq(t, l.ivars + job.simd + 1, n)
      ry    == SubSeq(t, n + 1, n + PhaseTwoRounds(l))
      sum   == (c.x + (IF c.y = None THEN 0 ELSE c.y[1] * a[1]) - EvalCst(l, prepared)) % P
      onX   == VerifySteps([ok |-> TRUE, sum |-> sum], SubSeq(m, 1, l.ivars), rx, 2)
      one   == VerifySteps(onX, SubSeq(m, l.ivars + 1, n), simd \o mpi, 3)
      pad1  == [prepared EXCEPT !.rx      = WriteTable(@, EqEvalAt(rx, 1)),
                                !.eq_simd = EqVec(prepared.r_simd, simd),
                                !.eq_mpi  = EqVec(prepared.r_mpi, mpi)]
      vx    == m[n + 1][1]
      added == [one EXCEPT !.sum = (@ - vx * EvalAdd(l, pad1)) % P]
      two   == VerifySteps(added, SubSeq(m, n + 2, n + 1 + l.ivars), ry, 2)
      pad2  == [pad1 EXCEPT !.ry = WriteTable(@, EqEvalAt(ry, 1))]
      vy    == m[n + l.ivars + 2][1]
  IN IF SkipPhaseTwo(l)
     THEN [ok        |-> added.ok /\ added.sum = 0,
           pad       |-> pad1,
           claim     |-> [x |-> vx, y |-> None],
           challenge |-> [rz_0 |-> rx, rz_1 |-> None, r_simd |-> simd, r_mpi |-> mpi]]
     ELSE [ok        |-> two.ok /\ two.sum = (vx * vy * EvalMul(l, pad2)) % P,
           pad       |-> pad2,
           claim     |-> [x |-> vx, y |-> Some(vy)],
           challenge |-> [rz_0 |-> rx, rz_1 |-> Some(ry), r_simd |-> simd, r_mpi |-> mpi]]

(* The challenge at which the output is claimed, the first coins drawn.    *)
OutputDraws == job.layers[Depth].ovars + job.simd + job.mpi

OutputChallenge ==
  LET rz == job.layers[Depth].ovars
  IN [rz_0   |-> SubSeq(job.coins, 1, rz),
      rz_1   |-> None,
      r_simd |-> SubSeq(job.coins, rz + 1, rz + job.simd),
      r_mpi  |-> SubSeq(job.coins, rz + job.simd + 1, OutputDraws)]

After(s, n) == SubSeq(s, n + 1, Len(s))

-----------------------------------------------------------------------------
(* gkr_verify.                                                             *)

StartGkrVerify ==
  /\ stage = "proved" /\ seq.status = "waiting"
  /\ seq' = [seq EXCEPT !.status = "running", !.layer = Depth, !.challenge = OutputChallenge,
                        !.claim = [x |-> ClaimedV, y |-> None], !.drawn = OutputDraws]
  /\ UNCHANGED <<pvars, par>>

(* The layer, and the weight of its second claim.                          *)
VerifyLayer ==
  LET l   == job.layers[seq.layer]
      out == SumcheckVerifyGkrLayer(l, seq.challenge, seq.claim, seq.alpha,
               After(Messages, seq.read), After(job.coins, seq.drawn),
               PrepareLayer(l, seq.alpha, seq.challenge, seq.pad, seq.layer = Depth))
      next == seq.drawn + PhaseOneRounds(l) + PhaseTwoRounds(l)
  IN
  /\ seq.status = "running" /\ seq.layer > 0
  /\ seq' = [seq EXCEPT
       !.layer = @ - 1, !.ok = @ /\ out.ok, !.pad = out.pad, !.claim = out.claim,
       !.challenge = out.challenge, !.read = @ + MessagesOf(l),
       !.alpha = IF SkipPhaseTwo(l) THEN None ELSE Some(job.coins[next + 1]),
       !.drawn = IF SkipPhaseTwo(l) THEN next ELSE next + 1]
  /\ UNCHANGED <<pvars, par>>

FinishGkrVerify ==
  /\ seq.status = "running" /\ seq.layer = 0
  /\ seq' = [seq EXCEPT !.status = IF seq.ok THEN "accept" ELSE "reject"]
  /\ UNCHANGED <<pvars, par>>

-----------------------------------------------------------------------------
(* gkr_parallel.                                                           *)

(* What parse_proof knows after the layers above: where it is in the proof *)
(* and in the coins, and the claims about the next layer's outputs.        *)
ParseStart ==
  [units |-> <<>>, read |-> 0, drawn |-> OutputDraws, challenge |-> OutputChallenge,
   claim |-> [x |-> ClaimedV, y |-> None], alpha |-> None]

(* Mutant: the coin after phase one.                                       *)
AlphaBeforePhaseTwo(n, draws) == n + 1

(* Which of the layer's coins weighs the next layer's second claim.        *)
AlphaPosition(n, draws) == draws + 1

ParseLayer(s, l) ==
  LET n     == PhaseOneRounds(l)
      t     == After(job.coins, s.drawn)
      m     == SubSeq(Messages, s.read + 1, s.read + MessagesOf(l))
      draws == n + PhaseTwoRounds(l)
      next  == IF SkipPhaseTwo(l) THEN None ELSE Some(t[AlphaPosition(n, draws)])
      unit  == [tape |-> SubSeq(t, 1, draws) \o next, proof |-> m, challenge |-> s.challenge,
                claim |-> s.claim, alpha |-> s.alpha]
  IN [units |-> <<unit>> \o s.units,
      read  |-> s.read + Len(m),
      drawn |-> s.drawn + draws + Len(next),
      alpha |-> next,
      claim |-> [x |-> m[n + 1][1],
                 y |-> IF SkipPhaseTwo(l) THEN None ELSE Some(m[Len(m)][1])],
      challenge |-> [rz_0   |-> SubSeq(t, 1, l.ivars),
                     rz_1   |-> IF SkipPhaseTwo(l) THEN None ELSE Some(SubSeq(t, n + 1, draws)),
                     r_simd |-> SubSeq(t, l.ivars + 1, l.ivars + job.simd),
                     r_mpi  |-> SubSeq(t, l.ivars + job.simd + 1, n)]]

(* What is parsed when layer k is the next one.                            *)
ParsedAbove ==
  LET s[k \in 0 .. Depth] ==
        IF k = Depth THEN ParseStart ELSE ParseLayer(s[k + 1], job.layers[k + 1])
  IN s

ParseProof ==
  LET parsed == ParsedAbove[0]
  IN
  /\ stage = "proved" /\ par.status = "waiting"
  /\ par' = [par EXCEPT !.status = "running", !.units = parsed.units,
                        !.challenge = parsed.challenge, !.claim = parsed.claim]
  /\ UNCHANGED <<pvars, seq>>

(* A worker takes a unit; RandomTape panics when its tape runs out.        *)
VerifyUnit(k) ==
  LET l    == job.layers[k]
      unit == par.units[k]
      out  == SumcheckVerifyGkrLayer(l, unit.challenge, unit.claim, unit.alpha, unit.proof,
                unit.tape,
                PrepareLayerNonSequential(l, unit.alpha, unit.challenge, NewVerifierScratchPad))
  IN
  /\ par.status = "running" /\ par.result[k] = "todo"
  /\ PhaseOneRounds(l) + PhaseTwoRounds(l) <= Len(unit.tape)
  /\ par' = [par EXCEPT !.result[k] = IF out.ok THEN "ok" ELSE "bad"]
  /\ UNCHANGED <<pvars, seq>>

(* all() is true when every unit is, and false as soon as one is not.      *)
FinishGkrParallel ==
  /\ par.status = "running"
  /\ \/ \A k \in 1 .. Depth : par.result[k] = "ok"
     \/ \E k \in 1 .. Depth : par.result[k] = "bad"
  /\ par' = [par EXCEPT !.status =
       IF \A k \in 1 .. Depth : par.result[k] = "ok" THEN "accept" ELSE "reject"]
  /\ UNCHANGED <<pvars, seq>>

Decided(v) == v.status \in {"accept", "reject"}

Done == Decided(seq) /\ Decided(par) /\ UNCHANGED <<pvars, seq, par>>

Next ==
  \/ ProverStep /\ UNCHANGED <<seq, par>>
  \/ StartGkrVerify \/ VerifyLayer \/ FinishGkrVerify
  \/ ParseProof \/ (\E k \in 1 .. Depth : VerifyUnit(k)) \/ FinishGkrParallel
  \/ Done

Spec == VerifierInit /\ [][Next]_<<pvars, seq, par>>

-----------------------------------------------------------------------------

(* Completeness and the rejection of a wrong claim or a corrupted message: *)
(* every check of the sequential verifier holds for what the prover sent,  *)
(* and some check fails for anything else (with the coins of the jobs).    *)
SequentialDecidesRightly ==
  Decided(seq) => (seq.status = "accept" <=> job.honest /\ job.flip = 0)

(* par_verify is verify: whatever the order of the units, the verdict is   *)
(* the same, and both leave the same claims to be opened, at the challenge *)
(* the prover will open its input at; gkr_verify has then read the proof   *)
(* to its end and drawn the coins that the prover has drawn.  (A unit      *)
(* short of coins would stop the run: that is a deadlock.)                 *)
VerifiersAgree ==
  Decided(seq) /\ Decided(par) =>
    /\ seq.status = par.status
    /\ seq.challenge = par.challenge /\ seq.claim = par.claim
    /\ seq.challenge = challenge /\ seq.drawn = drawn /\ seq.read = Len(proof)

=============================================================================
