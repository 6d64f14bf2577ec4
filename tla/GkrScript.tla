------------------------------ MODULE GkrScript ------------------------------
(***************************************************************************)
(* The straight-line programs that the prover ranks and the verifier run.  *)
(*                                                                         *)
(* gkr/src/prover/snark.rs runs the same code on every MPI rank (SPMD), and *)
(* its control depends on the shape of the circuit only.  This module      *)
(* unrolls that code, and the verifier's, into a sequence of operations    *)
(* for a circuit shape and a polynomial commitment scheme.  The meaning of *)
(* an operation is given by the modules SpmdProver and GkrSnark.           *)
(*                                                                         *)
(* An operation names the call (op), the ranks that make it ("all", or     *)
(* "root" inside `if is_root()`), and a label for the value involved: what *)
(* it is, the layer and the round.                                         *)
(***************************************************************************)
EXTENDS World, Sequences, SequencesExt

CONSTANTS
  Pcs,           \* "raw", "orion" or "kzg"
  Layers,        \* the circuit's layers, input layer first: [vars, phase2]
  OutVars,       \* log of the number of output gates
  SimdVars,      \* log of the field pack size
  NumPI,         \* public inputs of one rank
  VerifierPI,    \* public inputs the verifier is called with, rank by rank
  NumCoefs,      \* random gate coefficients
  GrindRounds,   \* rounds of the grinding loop, 0 without the feature
  NProofs        \* proofs per round of the benchmark

ASSUME ScriptAssumption ==
  /\ Pcs \in {"raw", "orion", "kzg"}
  /\ Layers \in Seq([vars : Nat, phase2 : BOOLEAN]) /\ Len(Layers) > 0
  /\ {OutVars, SimdVars, NumPI, NumCoefs, GrindRounds, NProofs} \subseteq Nat
  /\ VerifierPI \in Seq(Nat)

(* Bounds: the repetitions of the Orion opening, 1 proximity row with one  *)
(* random variable and 2 queries, where the code computes them from the    *)
(* security level.                                                         *)
ProximityDraws == 1
QueryDraws     == 2

-----------------------------------------------------------------------------
Do(op, what, l, i)     == << [op |-> op, who |-> "all",  arg |-> <<what, l, i>>] >>
DoRoot(op, what, l, i) == << [op |-> op, who |-> "root", arg |-> <<what, l, i>>] >>

Repeat(n, Ops(_)) == FlattenSeq([i \in 1 .. n |-> Ops(i)])

(* Collective calls return at once in a world of one rank.                 *)
IfMpi(ops)       == IF WorldSize > 1 THEN ops ELSE <<>>
Collective(c)    == IfMpi(Do(c, c, 0, 0))
Sync             == Collective("sync")

(* Mutants: the call sits inside `if is_root()`.                           *)
GatherAtRootOnly == IfMpi(DoRoot("gather", "gather", 0, 0))
BcastAtRootOnly  == IfMpi(DoRoot("bcast", "bcast", 0, 0))

Gather           == Collective("gather")
Bcast            == Collective("bcast")

TrailingZeros(w) == Cardinality({k \in 1 .. w : w % 2^k = 0})
Ilog2(w)         == Cardinality({k \in 1 .. w : 2^k <= w})

(* A challenge drawn on every rank and overwritten by the root's value.    *)
Challenge(what, l, i) ==
  Do(IF WorldSize > 1 THEN "challenge" ELSE "sample", what, l, i)

Samples(n, what) == Repeat(n, LAMBDA i : Do("sample", what, 0, i))

-----------------------------------------------------------------------------
(* The prover.                                                             *)

TranscriptIo(what, l, i) ==
  Do("append", what, l, i) \o Challenge(what, l, i)

CoefCombineVec      == Gather
PolyEvalsAtRx       == CoefCombineVec
PolyEvalsAtRSimdVar == CoefCombineVec
PolyEvalsAtRMpiVar  == <<>>          \* from the values gathered beforehand
PolyEvalsAtRy       == PolyEvalsAtRx
VyClaim             == CoefCombineVec
PrepareXVals(l)     == Do("read", "coefs", l, 1)
PrepareMpiVarVals   == Gather \o Gather
PrepareYVals(l)     == Bcast \o Do("read", "coefs", l, 2)

Rounds(n, evals, what, l) == Repeat(n, LAMBDA i : evals \o TranscriptIo(what, l, i))

SumcheckProveGkrLayer(l) ==
  PrepareXVals(l)
    \o Rounds(Layers[l].vars, PolyEvalsAtRx, "x", l)
    \o Rounds(SimdVars, PolyEvalsAtRSimdVar, "simd", l)
    \o PrepareMpiVarVals
    \o Rounds(TrailingZeros(WorldSize), PolyEvalsAtRMpiVar, "mpi", l)
    \o Do("append", "vx", l, 0)
    \o (IF Layers[l].phase2
        THEN PrepareYVals(l) \o Rounds(Layers[l].vars, PolyEvalsAtRy, "y", l)
               \o VyClaim \o Do("append", "vy", l, 0)
        ELSE <<>>)

SampleFromTranscript ==
  Samples(OutVars, "rz") \o Samples(SimdVars, "r_simd")
    \o Samples(TrailingZeros(WorldSize), "r_mpi")

CollectivelyEval == Gather

GkrProve ==
  SampleFromTranscript \o CollectivelyEval \o
  Repeat(Len(Layers), LAMBDA k :
    LET l == Len(Layers) + 1 - k
    IN SumcheckProveGkrLayer(l)
         \o (IF Layers[l].phase2 THEN Challenge("alpha", l, 0) ELSE <<>>))

RawCommit   == Gather
KzgCommit   == Gather

(* Codewords are transposed, the subtree roots gathered, the cap returned. *)
OrionCommit == Collective("alltoall") \o Gather \o Bcast

PcsCommit ==
  CASE Pcs = "raw" -> RawCommit [] Pcs = "kzg" -> KzgCommit [] Pcs = "orion" -> OrionCommit

SumVec       == Gather
GatherVarlen == Gather \o Gather     \* the lengths, then the vectors

(* Every rank draws the Orion randomness from its own transcript.          *)
OrionMtOpenings == Samples(QueryDraws, "query") \o GatherVarlen

OrionOpen ==
  Samples(ProximityDraws, "proximity")
    \o SumVec \o Repeat(ProximityDraws, LAMBDA i : SumVec)
    \o OrionMtOpenings

HyperKzgOpen ==
  Do("append", "folded", 0, 0)   \o Do("sample", "beta_x", 0, 0) \o
  Do("append", "evals", 0, 0)    \o Do("sample", "gamma", 0, 0) \o
  Do("append", "beta_x_com", 0, 0) \o Do("sample", "delta_x", 0, 0)

(* In HyperBiKZG only the root appends, so the state is broadcast each     *)
(* time before the ranks sample: the folded oracles, their evaluations,    *)
(* the quotient in x, the quotient in y, the final opening.                *)
FoldOracles ==
  Gather \o Gather \o DoRoot("append", "folded", 0, 0) \o Sync
EvalAtBetas ==
  Do("sample", "beta_x", 0, 0) \o Do("sample", "beta_y", 0, 0) \o Gather
    \o DoRoot("append", "evals", 0, 0) \o Sync
QuotientX ==
  Do("sample", "gamma", 0, 0) \o Bcast \o Gather
    \o DoRoot("append", "beta_x_com", 0, 0) \o Sync
QuotientY ==
  Do("sample", "delta_x", 0, 0) \o Gather
    \o DoRoot("append", "beta_y_com", 0, 0) \o Sync
OpenAtDeltas == Do("sample", "delta_y", 0, 0) \o Bcast \o Gather

HyperBiKzgOpen == FoldOracles \o EvalAtBetas \o QuotientX \o QuotientY \o OpenAtDeltas

RawOpen == <<>>

PcsOpen ==
  CASE Pcs = "raw"   -> RawOpen
    [] Pcs = "orion" -> OrionOpen
    [] Pcs = "kzg"   -> IF WorldSize > 1 THEN HyperBiKzgOpen ELSE HyperKzgOpen

(* Calls between lock_proof and unlock_proof.                              *)
Locked(calls) == Do("lock", "lock", 0, 0) \o calls \o Do("unlock", "lock", 0, 0)

ProveInputLayerClaim(claim) ==
  Locked(PcsOpen) \o DoRoot("append", "opening", 0, claim)

(* grind: the hashes are a proof of work, nobody uses them as challenges.  *)
Grind ==
  IF GrindRounds = 0 THEN <<>>
  ELSE Do("refresh", "grind", 0, 0)
         \o Locked(Repeat(GrindRounds, LAMBDA i :
                     Do("append", "grind", 0, i) \o Do("refresh", "grind", 0, i))
                   \o Do("append", "grind", 0, 0))

BindPublicInput ==
  Repeat(NumPI, LAMBDA i : DoRoot("append", "pi", 0, i)) \o Sync

FillRndCoefs ==
  Repeat(NumCoefs, LAMBDA i : DoRoot("fill", "coef", 0, i))

(* The coefficients are ready on every rank when the barrier lets it go.   *)
(* Mutant: without the barrier.                                            *)
ShareRndCoefsUnfenced == FillRndCoefs
ShareRndCoefs         == FillRndCoefs \o Collective("barrier")

Prove ==
  Do("new", "new", 0, 0)
    \o BindPublicInput
    \o PcsCommit \o DoRoot("commit", "com", 0, 0)
    \o Grind
    \o ShareRndCoefs
    \o Do("read", "coefs", 0, 0)
    \o Sync \o GkrProve
    \o Sync \o ProveInputLayerClaim(1)
    \o (IF Layers[1].phase2 THEN Sync \o ProveInputLayerClaim(2) ELSE <<>>)
    \o Do("finish", "proof", 0, 0)

(* The prover of expander-exec: only the root writes the proof.            *)
ProveCommand == Prove \o DoRoot("dump", "file", 0, 0)

(* The benchmark of main_mpi.rs: every rank writes it, and goes on proving *)
(* without waiting for the others. NProofs bounds the 10 proofs of a round *)
(* and the single round stands for args.repeats.                           *)
RunBenchmark ==
  Prove \o Do("dump", "file", 0, 0) \o Collective("barrier")
        \o Repeat(NProofs, LAMBDA i : Prove)

-----------------------------------------------------------------------------
(* The verifier: the same operations as far as the transcript goes, and    *)
(*   expect  read an item and compare it with the value the verifier has;  *)
(*   parse   read an item and append it to the transcript;                 *)
(*   take    read an item without appending it.                            *)

(* Mutant: the verifier knows nothing of the syncs.                        *)
VerifierSyncForgotten == <<>>

VerifierSync == Collective("sync")

(* Mutant: the challenge is drawn before the message it answers.           *)
VerifySumcheckStepsSwapped(n, what, l) ==
  Repeat(n, LAMBDA i : Do("sample", what, l, i) \o Do("parse", what, l, i))

VerifySumcheckSteps(n, what, l) ==
  Repeat(n, LAMBDA i : Do("parse", what, l, i) \o Do("sample", what, l, i))

SumcheckVerifyGkrLayer(l) ==
  VerifySumcheckSteps(Layers[l].vars, "x", l)
    \o VerifySumcheckSteps(SimdVars, "simd", l)
    \o VerifySumcheckSteps(Ilog2(WorldSize), "mpi", l)
    \o Do("parse", "vx", l, 0)
    \o (IF Layers[l].phase2
        THEN VerifySumcheckSteps(Layers[l].vars, "y", l) \o Do("parse", "vy", l, 0)
        ELSE <<>>)

GkrVerify ==
  SampleFromTranscript \o
  Repeat(Len(Layers), LAMBDA k :
    LET l == Len(Layers) + 1 - k
    IN SumcheckVerifyGkrLayer(l)
         \o (IF Layers[l].phase2 THEN Do("sample", "alpha", l, 0) ELSE <<>>))

(* The public inputs of all the ranks the verifier has, in rank order.     *)
ForPublicInputs(op) ==
  Repeat(Len(VerifierPI), LAMBDA k :
    Repeat(VerifierPI[k], LAMBDA i : Do(op, "pi", k - 1, i)))

(* Mutant: the inputs are bound without being compared.                    *)
BindPublicInputsUnchecked == ForPublicInputs("take") \o ForPublicInputs("append")

BindAndCheckPublicInputs == ForPublicInputs("expect") \o ForPublicInputs("append")

PreGkr ==
  Do("parsecom", "com", 0, 0) \o Grind
    \o Repeat(NumCoefs, LAMBDA i : Do("sample", "coef", 0, i))
    \o VerifierSync

OrionVerify == Samples(ProximityDraws, "proximity") \o Samples(QueryDraws, "query")

HyperKzgVerify ==
  Do("append", "folded", 0, 0)   \o Do("sample", "beta_x", 0, 0) \o
  Do("append", "evals", 0, 0)    \o Do("sample", "gamma", 0, 0) \o
  Do("append", "beta_x_com", 0, 0) \o Do("sample", "delta_x", 0, 0)

CheckFoldedEvals ==
  Do("append", "folded", 0, 0) \o VerifierSync
    \o Do("sample", "beta_x", 0, 0) \o Do("sample", "beta_y", 0, 0)
    \o Do("append", "evals", 0, 0) \o VerifierSync
AggregateOracles ==
  Do("sample", "gamma", 0, 0) \o Do("append", "beta_x_com", 0, 0) \o VerifierSync
CheckQuotients ==
  Do("sample", "delta_x", 0, 0) \o Do("append", "beta_y_com", 0, 0) \o VerifierSync
    \o Do("sample", "delta_y", 0, 0)

HyperBiKzgVerify == CheckFoldedEvals \o AggregateOracles \o CheckQuotients

RawVerify == <<>>

PcsVerify ==
  CASE Pcs = "raw"   -> RawVerify
    [] Pcs = "orion" -> OrionVerify
    [] Pcs = "kzg"   -> IF WorldSize > 1 THEN HyperBiKzgVerify ELSE HyperKzgVerify

GetPcsOpeningFromProofAndVerify(claim) ==
  Do("take", "opening", 0, claim) \o Locked(PcsVerify)
    \o Do("append", "opening", 0, claim)

PostGkr ==
  GetPcsOpeningFromProofAndVerify(1)
    \o (IF Layers[1].phase2 THEN GetPcsOpeningFromProofAndVerify(2) ELSE <<>>)

Verify ==
  BindAndCheckPublicInputs \o PreGkr \o GkrVerify \o VerifierSync \o PostGkr
=============================================================================
