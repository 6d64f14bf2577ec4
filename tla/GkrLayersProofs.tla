--------------------------- MODULE GkrLayersProofs ---------------------------
(***************************************************************************)
(* For every circuit, tape of coins and corrupted message: the two         *)
(* verifiers of GkrLayersVerifier agree.                                   *)
(*                                                                         *)
(* The prover leaves exactly the messages that the verifiers will read     *)
(* (ProverInv).  Whatever gkr_verify has read when it comes to a layer is  *)
(* what parse_proof has parsed above that layer, and the tables that are   *)
(* left in its scratch pad are those a unit computes anew (SequentialInv). *)
(* A layer's verdict depends on nothing else (LayerIsLocal).               *)
(***************************************************************************)
EXTENDS GkrLayersVerifier, ProofLemmas

vvars == <<pvars, seq, par>>

(* A sequence of whatever it holds.                                        *)
IsSeq(s) == s \in Seq(Range(s))

-----------------------------------------------------------------------------
(* The messages that have been sent when layer k is left for the one below *)
(* it: one for each coin, and the value vx of each layer.                  *)
SentAbove(j, k) ==
  LET top == Len(j.layers)
  IN DrawnAbove(j)[k] - DrawnAbove(j)[top] + (top - k)

TypeOK ==
  /\ job \in Jobs
  /\ stage \in {"evaluate", "sample", "prepare", "x", "simd", "mpi", "y", "next", "proved"}
  /\ layer \in 0 .. Depth
  /\ layer = 0 <=> stage = "proved"
  /\ IsSeq(proof)
  /\ IsSeq(rs.x) /\ IsSeq(rs.simd) /\ IsSeq(rs.mpi) /\ IsSeq(rs.y)
  /\ DOMAIN rs = {"x", "simd", "mpi", "y"}

ProofLength ==
  LET sent == Len(proof) IN
  /\ stage \in {"evaluate", "sample"} => sent = 0
  /\ stage = "sample" => layer = Depth
  /\ stage = "prepare" => sent = SentAbove(job, layer)
  /\ stage \in {"x", "simd", "mpi"} =>
       /\ sent = SentAbove(job, layer) + Len(rs.x) + Len(rs.simd) + Len(rs.mpi)
       /\ rs.y = <<>>
  /\ stage = "x" => Len(rs.x) <= Layer.ivars /\ rs.simd = <<>> /\ rs.mpi = <<>>
  /\ stage = "simd" =>
       Len(rs.x) = Layer.ivars /\ Len(rs.simd) <= job.simd /\ rs.mpi = <<>>
  /\ stage = "mpi" =>
       Len(rs.x) = Layer.ivars /\ Len(rs.simd) = job.simd /\ Len(rs.mpi) <= job.mpi
  /\ stage = "y" =>
       /\ ~SkipPhaseTwo(Layer) /\ Len(rs.y) <= Layer.ivars
       /\ sent = SentAbove(job, layer) + PhaseOneRounds(Layer) + 1 + Len(rs.y)
  /\ stage = "next" => sent = SentAbove(job, layer) + MessagesOf(Layer)
  /\ stage = "proved" => sent = SentAbove(job, 0)

ProverInv == TypeOK /\ ProofLength

-----------------------------------------------------------------------------
(* What is assumed of the job, in the words of its variables.              *)
LEMMA JobFits ==
  ASSUME job \in Jobs
  PROVE  /\ Depth \in Nat \ {0} /\ job.simd \in Nat /\ job.mpi \in Nat
         /\ \A k \in 1 .. Depth : LayerFits(job, k)
         /\ \A k \in 1 .. Depth : job.layers[k].ivars \in Nat /\ job.layers[k].ovars \in Nat
         /\ job.coins \in Seq(Field) /\ DrawnAbove(job)[0] <= Len(job.coins)
BY JobsAssumption DEF Depth, LayerFits

(* The recursion over the layers is well-founded.                          *)
LEMMA DrawnAboveUnfolds ==
  ASSUME job \in Jobs
  PROVE  \A k \in 0 .. Depth :
           DrawnAbove(job)[k] = IF k = Depth THEN job.layers[Depth].ovars + job.simd + job.mpi
                                ELSE DrawnAbove(job)[k + 1] + LayerDraws(job, job.layers[k + 1])
<1> DEFINE Output == job.layers[Depth].ovars + job.simd + job.mpi
           Draws(i) == LayerDraws(job, job.layers[i])
           Is(d, n) == d = [k \in Depth - n .. Depth |->
                              IF k = Depth THEN Output ELSE d[k + 1] + Draws(k + 1)]
           Exist == {n \in Nat : n <= Depth => \E d : Is(d, n)}
<1>0. Depth \in Nat \ {0}
  BY JobFits
<1> HIDE DEF Output, Draws
<1>1. 0 \in Exist
  <2>1. Is([k \in Depth - 0 .. Depth |-> Output], 0)
    BY <1>0
  <2> QED BY <2>1
<1>2. ASSUME NEW n \in Nat, n \in Exist PROVE n + 1 \in Exist
  <2>0. SUFFICES ASSUME n + 1 <= Depth PROVE \E d : Is(d, n + 1)
    OBVIOUS
  <2>1. PICK d : Is(d, n)
    BY <1>0, <1>2, <2>0
  <2> DEFINE top == Depth - n
             e == [k \in Depth - (n + 1) .. Depth |->
                    IF k = Depth THEN Output ELSE d[k + 1] + Draws(k + 1)]
             g == [k \in Depth - (n + 1) .. Depth |->
                    IF k = Depth THEN Output ELSE e[k + 1] + Draws(k + 1)]
  <2>2. ASSUME NEW k \in top .. Depth PROVE e[k] = d[k]
    <3>1. k \in Depth - (n + 1) .. Depth
      BY <1>0
    <3>2. d[k] = IF k = Depth THEN Output ELSE d[k + 1] + Draws(k + 1)
      BY <2>1, Zenon
    <3> QED BY <3>1, <3>2
  <2>3. ASSUME NEW k \in Depth - (n + 1) .. Depth PROVE e[k] = g[k]
    <3>1. k # Depth => k + 1 \in top .. Depth
      BY <1>0
    <3>2. k # Depth => e[k + 1] = d[k + 1]
      BY <2>2, <3>1
    <3> HIDE DEF e
    <3>3. g[k] = IF k = Depth THEN Output ELSE e[k + 1] + Draws(k + 1)
      OBVIOUS
    <3> QED BY <3>2, <3>3 DEF e
  <2>4. e = g
    BY <2>3
  <2>5. Is(e, n + 1)
    BY <2>4
  <2> HIDE DEF e, Is
  <2> QED BY <2>5
<1>3. Depth \in Exist
  <2> HIDE DEF Exist
  <2> QED BY <1>0, <1>1, <1>2, SetInduction
<1>4. PICK d : Is(d, Depth)
  BY <1>0, <1>3
<1>5. Depth - Depth = 0
  BY <1>0
<1> DEFINE h == CHOOSE e : e = [k \in 0 .. Depth |->
                                  IF k = Depth THEN Output ELSE e[k + 1] + Draws(k + 1)]
<1>6. h = [k \in 0 .. Depth |-> IF k = Depth THEN Output ELSE h[k + 1] + Draws(k + 1)]
  BY <1>4, <1>5
<1>7. DrawnAbove(job) = h
  BY DEF DrawnAbove, Depth, Output, Draws
<1> HIDE DEF h
<1>8. \A k \in 0 .. Depth : h[k] = IF k = Depth THEN Output ELSE h[k + 1] + Draws(k + 1)
  BY <1>6, Zenon
<1> QED BY <1>7, <1>8 DEF Output, Draws

(* Going down, positions only grow.                                        *)
LEMMA DrawnAboveType ==
  ASSUME job \in Jobs
  PROVE  /\ DrawnAbove(job)[Depth] = OutputDraws
         /\ \A k \in 0 .. Depth : DrawnAbove(job)[k] \in Nat
         /\ \A k \in 1 .. Depth :
              /\ LayerDraws(job, job.layers[k]) \in Nat
              /\ DrawnAbove(job)[k - 1] = DrawnAbove(job)[k] + LayerDraws(job, job.layers[k])
         /\ \A k \in 0 .. Depth : DrawnAbove(job)[k] <= DrawnAbove(job)[0]
<1> DEFINE D == DrawnAbove(job)
<1>0. Depth \in Nat \ {0}
  BY JobFits
<1>1. D[Depth] = OutputDraws
  BY <1>0, DrawnAboveUnfolds DEF OutputDraws
<1>2. OutputDraws \in Nat
  BY <1>0, JobFits DEF OutputDraws
<1>3. ASSUME NEW k \in 1 .. Depth
      PROVE  /\ LayerDraws(job, job.layers[k]) \in Nat
             /\ D[k - 1] = D[k] + LayerDraws(job, job.layers[k])
  <2>1. LayerDraws(job, job.layers[k]) \in Nat
    <3>1. job.layers[k].ivars \in Nat /\ job.simd \in Nat /\ job.mpi \in Nat
      BY JobFits
    <3> QED BY <3>1 DEF LayerDraws
  <2>2. k - 1 \in 0 .. Depth /\ k - 1 # Depth /\ (k - 1) + 1 = k
    BY <1>0
  <2> QED BY <2>1, <2>2, DrawnAboveUnfolds
<1> HIDE DEF D
<1>4. \A k \in 0 .. Depth : D[k] \in Nat
  <2> DEFINE S == {n \in Nat : n <= Depth => D[Depth - n] \in Nat}
  <2>1. 0 \in S
    BY <1>0, <1>1, <1>2
  <2>2. ASSUME NEW n \in Nat, n \in S PROVE n + 1 \in S
    <3>1. SUFFICES ASSUME n + 1 <= Depth PROVE D[Depth - (n + 1)] \in Nat
      OBVIOUS
    <3>2. D[Depth - n] \in Nat
      BY <1>0, <2>2, <3>1
    <3>3. Depth - n \in 1 .. Depth /\ (Depth - n) - 1 = Depth - (n + 1)
      BY <1>0, <3>1
    <3> QED BY <1>3, <3>2, <3>3
  <2>3. Nat \subseteq S
    <3> HIDE DEF S
    <3> QED BY <2>1, <2>2, SetInduction
  <2>4. ASSUME NEW k \in 0 .. Depth PROVE D[k] \in Nat
    <3>1. Depth - k \in Nat /\ Depth - k <= Depth /\ Depth - (Depth - k) = k
      BY <1>0
    <3> QED BY <2>3, <3>1
  <2> QED BY <2>4
<1>5. \A k \in 0 .. Depth : D[k] <= D[0]
  <2> DEFINE S == {n \in Nat : n <= Depth => D[n] <= D[0]}
  <2>1. 0 \in S
    BY <1>0, <1>4
  <2>2. ASSUME NEW n \in Nat, n \in S PROVE n + 1 \in S
    <3>1. SUFFICES ASSUME n + 1 <= Depth PROVE D[n + 1] <= D[0]
      OBVIOUS
    <3>2. n + 1 \in 1 .. Depth /\ (n + 1) - 1 = n /\ n \in 0 .. Depth /\ n + 1 \in 0 .. Depth
      BY <1>0, <3>1
    <3>3. D[n] = D[n + 1] + LayerDraws(job, job.layers[n + 1])
      BY <1>3, <3>2
    <3>4. LayerDraws(job, job.layers[n + 1]) \in Nat
      BY <1>3, <3>2
    <3>5. D[n] \in Nat /\ D[n + 1] \in Nat /\ D[0] \in Nat
      BY <1>0, <1>4, <3>2
    <3>6. D[n] <= D[0]
      BY <1>0, <2>2, <3>1
    <3> QED BY <3>3, <3>4, <3>5, <3>6
  <2>3. Nat \subseteq S
    <3> HIDE DEF S
    <3> QED BY <2>1, <2>2, SetInduction
  <2> QED BY <2>3
<1> QED BY <1>1, <1>3, <1>4, <1>5 DEF D

(* And so do those in the proof.                                           *)
LEMMA SentAboveType ==
  ASSUME job \in Jobs
  PROVE  /\ SentAbove(job, Depth) = 0
         /\ \A k \in 0 .. Depth : SentAbove(job, k) \in Nat /\ SentAbove(job, k) <= SentAbove(job, 0)
         /\ \A k \in 1 .. Depth :
              /\ MessagesOf(job.layers[k]) \in Nat
              /\ SentAbove(job, k - 1) = SentAbove(job, k) + MessagesOf(job.layers[k])
<1> DEFINE D == DrawnAbove(job)
<1>0. Depth \in Nat \ {0} /\ D[Depth] \in Nat /\ D[0] \in Nat
  BY JobFits, DrawnAboveType
<1>1. SentAbove(job, Depth) = 0
  BY <1>0 DEF SentAbove, Depth
<1>2. ASSUME NEW k \in 1 .. Depth
      PROVE  /\ MessagesOf(job.layers[k]) \in Nat
             /\ SentAbove(job, k - 1) = SentAbove(job, k) + MessagesOf(job.layers[k])
  <2>1. MessagesOf(job.layers[k]) = LayerDraws(job, job.layers[k]) + 1
    BY JobFits DEF MessagesOf, PhaseOneRounds, LayerDraws
  <2>2. LayerDraws(job, job.layers[k]) \in Nat
    BY DrawnAboveType
  <2>3. D[k - 1] = D[k] + LayerDraws(job, job.layers[k]) /\ D[k] \in Nat
    BY DrawnAboveType
  <2>4. /\ SentAbove(job, k) = D[k] - D[Depth] + (Depth - k)
        /\ SentAbove(job, k - 1) = D[k - 1] - D[Depth] + (Depth - (k - 1))
    BY DEF SentAbove, Depth
  <2> HIDE DEF D
  <2> QED BY <1>0, <2>1, <2>2, <2>3, <2>4
<1> HIDE DEF D
<1>3. \A k \in 0 .. Depth : SentAbove(job, k) \in Nat
  <2> DEFINE S == {n \in Nat : n <= Depth => SentAbove(job, Depth - n) \in Nat}
  <2>1. 0 \in S
    BY <1>0, <1>1
  <2>2. ASSUME NEW n \in Nat, n \in S PROVE n + 1 \in S
    <3>1. SUFFICES ASSUME n + 1 <= Depth PROVE SentAbove(job, Depth - (n + 1)) \in Nat
      OBVIOUS
    <3>2. SentAbove(job, Depth - n) \in Nat
      BY <1>0, <2>2, <3>1
    <3>3. Depth - n \in 1 .. Depth /\ (Depth - n) - 1 = Depth - (n + 1)
      BY <1>0, <3>1
    <3> QED BY <1>2, <3>2, <3>3
  <2>3. Nat \subseteq S
    <3> HIDE DEF S
    <3> QED BY <2>1, <2>2, SetInduction
  <2>4. ASSUME NEW k \in 0 .. Depth PROVE SentAbove(job, k) \in Nat
    <3>1. Depth - k \in Nat /\ Depth - k <= Depth /\ Depth - (Depth - k) = k
      BY <1>0
    <3> QED BY <2>3, <3>1
  <2> QED BY <2>4
<1>4. ASSUME NEW k \in 0 .. Depth PROVE SentAbove(job, k) <= SentAbove(job, 0)
  <2>1. D[k] \in Nat /\ D[k] <= D[0]
    BY DrawnAboveType DEF D
  <2> QED BY <1>0, <2>1 DEF SentAbove, Depth, D
<1> QED BY <1>1, <1>2, <1>3, <1>4

(* Appending keeps a sequence of whatever it holds.                        *)
LEMMA IsSeqAppend ==
  ASSUME NEW s, IsSeq(s), NEW e
  PROVE  /\ IsSeq(Append(s, e)) /\ Len(Append(s, e)) = Len(s) + 1
         /\ Len(s) \in Nat
<1> DEFINE T == Range(s) \cup {e}
<1>1. s \in Seq(T)
  BY DEF IsSeq
<1>2. Append(s, e) \in Seq(T) /\ Len(Append(s, e)) = Len(s) + 1 /\ Len(s) \in Nat
  BY <1>1
<1>3. T \subseteq Range(Append(s, e))
  <2>1. ASSUME NEW i \in DOMAIN s PROVE s[i] \in Range(Append(s, e))
    <3>1. i \in DOMAIN Append(s, e) /\ Append(s, e)[i] = s[i]
      BY <1>1
    <3> QED BY <3>1, Zenon DEF Range
  <2>2. Len(s) + 1 \in DOMAIN Append(s, e) /\ Append(s, e)[Len(s) + 1] = e
    BY <1>1
  <2>3. e \in Range(Append(s, e))
    BY <2>2, Zenon DEF Range
  <2> QED BY <2>1, <2>3, Zenon DEF Range
<1>4. Append(s, e) \in Seq(Range(Append(s, e)))
  BY <1>2, <1>3, SeqMonotonic
<1> QED BY <1>2, <1>4 DEF IsSeq

(* A sequence of anything is one.                                          *)
LEMMA IsSeqOf ==
  ASSUME NEW S, NEW s \in Seq(S)
  PROVE  IsSeq(s)
<1>1. s = [i \in 1 .. Len(s) |-> s[i]] /\ Len(s) \in Nat /\ DOMAIN s = 1 .. Len(s)
  OBVIOUS
<1>2. \A i \in 1 .. Len(s) : s[i] \in Range(s)
  BY <1>1, Zenon DEF Range
<1> QED BY <1>1, <1>2 DEF IsSeq

(* So is the empty one.                                                    *)
LEMMA IsSeqEmpty == IsSeq(<<>>) /\ Len(<<>>) = 0
BY DEF IsSeq

-----------------------------------------------------------------------------
(* The prover starts with no message.                                      *)
LEMMA ProverInvInit == Init => ProverInv
<1>1. SUFFICES ASSUME Init PROVE ProverInv
  OBVIOUS
<1>2. Depth \in Nat \ {0}
  BY <1>1, JobFits DEF Init
<1> QED BY <1>1, <1>2, IsSeqEmpty DEF Init, ProverInv, TypeOK, ProofLength, NoRs

(* Every round of the prover sends one message.                            *)
LEMMA ProverInvStep == ProverInv /\ ProverStep => ProverInv'
<1>1. SUFFICES ASSUME ProverInv, ProverStep PROVE ProverInv'
  OBVIOUS
<1> USE <1>1 DEF ProverInv
<1>2. Depth \in Nat \ {0} /\ job.simd \in Nat /\ job.mpi \in Nat
  BY JobFits DEF TypeOK
<1>3. layer # 0 => layer \in 1 .. Depth /\ Layer.ivars \in Nat
  BY <1>2, JobFits DEF TypeOK, Layer
<1>4. layer # 0 => /\ SentAbove(job, layer) \in Nat
                   /\ SentAbove(job, layer - 1) = SentAbove(job, layer) + MessagesOf(Layer)
  BY <1>3, SentAboveType DEF TypeOK, Layer
<1>5. SentAbove(job, Depth) = 0
  BY SentAboveType DEF TypeOK
<1>6. layer # 0 => /\ PhaseOneRounds(Layer) = Layer.ivars + job.simd + job.mpi
                   /\ PhaseOneRounds(Layer) \in Nat
                   /\ MessagesOf(Layer) = IF SkipPhaseTwo(Layer) THEN PhaseOneRounds(Layer) + 1
                                         ELSE PhaseOneRounds(Layer) + Layer.ivars + 2
                   /\ MessagesOf(Layer) \in Nat
  BY <1>2, <1>3 DEF PhaseOneRounds, MessagesOf
<1>7. ASSUME UNCHANGED <<job, layer>>
      PROVE  /\ Layer' = Layer /\ PhaseOneRounds(Layer)' = PhaseOneRounds(Layer)
             /\ MessagesOf(Layer)' = MessagesOf(Layer)
  BY <1>7 DEF Layer, PhaseOneRounds, MessagesOf
<1>8. /\ Len(proof) \in Nat /\ Len(rs.x) \in Nat /\ Len(rs.simd) \in Nat /\ Len(rs.mpi) \in Nat
      /\ Len(rs.y) \in Nat
  BY IsSeqAppend DEF TypeOK
<1>9. CASE EvaluateLayer
  BY <1>2, <1>9 DEF EvaluateLayer, TypeOK, ProofLength, Depth
<1>10. CASE SampleChallenge
  <2>1. stage = "sample" /\ stage' = "prepare" /\ UNCHANGED <<job, layer, rs, proof>>
    BY <1>10 DEF SampleChallenge
  <2> QED BY <1>2, <1>5, <2>1 DEF TypeOK, ProofLength, Depth
<1>11. CASE PrepareLayerProver
  <2>1. stage = "prepare" /\ stage' = "x" /\ UNCHANGED <<job, layer, proof>> /\ rs' = NoRs
    BY <1>11 DEF PrepareLayerProver
  <2>2. TypeOK'
    BY <2>1, IsSeqEmpty DEF TypeOK, Depth, NoRs
  <2>3. ProofLength'
    BY <1>3, <1>4, <2>1, IsSeqEmpty DEF TypeOK, ProofLength, NoRs, Layer
  <2> QED BY <2>2, <2>3
<1>12. CASE RoundX
  <2>1. /\ stage = "x" /\ Len(rs.x) < Layer.ivars /\ UNCHANGED <<job, stage, layer>>
        /\ \E e : proof' = Append(proof, e)
        /\ \E c : rs' = [rs EXCEPT !.x = Append(@, c)]
    BY <1>12 DEF RoundX, TranscriptIo
  <2>2. PICK e : proof' = Append(proof, e)
    BY <2>1
  <2>3. PICK coin : rs' = [rs EXCEPT !.x = Append(@, coin)]
    BY <2>1
  <2>4. IsSeq(proof') /\ Len(proof') = Len(proof) + 1
    BY <2>2, IsSeqAppend DEF TypeOK
  <2>5. /\ IsSeq(rs.x') /\ Len(rs.x') = Len(rs.x) + 1
        /\ DOMAIN rs' = DOMAIN rs
        /\ rs.simd' = rs.simd /\ rs.mpi' = rs.mpi /\ rs.y' = rs.y
    BY <2>3, IsSeqAppend DEF TypeOK
  <2>6. layer \in 1 .. Depth /\ layer # 0
    BY <1>2, <1>3, <2>1 DEF TypeOK
  <2>7. TypeOK'
    BY <2>1, <2>4, <2>5 DEF TypeOK, Depth
  <2>8. ProofLength'
    <3>1. /\ rs.simd = <<>> /\ rs.mpi = <<>> /\ rs.y = <<>>
          /\ Len(proof) = SentAbove(job, layer) + Len(rs.x) + Len(rs.simd) + Len(rs.mpi)
      BY <2>1 DEF ProofLength
    <3>2. SentAbove(job, layer) \in Nat /\ PhaseOneRounds(Layer) \in Nat /\ Layer.ivars \in Nat
      BY <1>3, <1>4, <1>6, <2>6
    <3>3. Len(proof') = SentAbove(job, layer) + Len(rs.x') + Len(rs.simd) + Len(rs.mpi)
      BY <1>8, <2>4, <2>5, <3>1, <3>2, SMTT(60)
    <3>4. Len(rs.x') <= Layer.ivars
      BY <1>2, <1>8, <2>1, <2>5, <3>2
    <3> QED BY <1>7, <2>1, <2>5, <3>1, <3>3, <3>4 DEF ProofLength
  <2> QED BY <2>7, <2>8
<1>13. CASE PrepareSimdVarVals
  <2>1. stage = "x" /\ Len(rs.x) = Layer.ivars /\ stage' = "simd" /\ UNCHANGED <<job, layer, rs, proof>>
    BY <1>13 DEF PrepareSimdVarVals
  <2>2. TypeOK'
    BY <2>1 DEF TypeOK, Depth
  <2>3. ProofLength'
    BY <1>2, <1>3, <1>4, <2>1, IsSeqEmpty DEF TypeOK, ProofLength, Layer
  <2> QED BY <2>2, <2>3
<1>14. CASE RoundSimd
  <2>1. /\ stage = "simd" /\ Len(rs.simd) < job.simd /\ UNCHANGED <<job, stage, layer>>
        /\ \E e : proof' = Append(proof, e)
        /\ \E c : rs' = [rs EXCEPT !.simd = Append(@, c)]
    BY <1>14 DEF RoundSimd, TranscriptIo
  <2>2. PICK e : proof' = Append(proof, e)
    BY <2>1
  <2>3. PICK coin : rs' = [rs EXCEPT !.simd = Append(@, coin)]
    BY <2>1
  <2>4. IsSeq(proof') /\ Len(proof') = Len(proof) + 1
    BY <2>2, IsSeqAppend DEF TypeOK
  <2>5. /\ IsSeq(rs.simd') /\ Len(rs.simd') = Len(rs.simd) + 1
        /\ DOMAIN rs' = DOMAIN rs
        /\ rs.x' = rs.x /\ rs.mpi' = rs.mpi /\ rs.y' = rs.y
    BY <2>3, IsSeqAppend DEF TypeOK
  <2>6. layer \in 1 .. Depth /\ layer # 0
    BY <1>2, <1>3, <2>1 DEF TypeOK
  <2>7. TypeOK'
    BY <2>1, <2>4, <2>5 DEF TypeOK, Depth
  <2>8. ProofLength'
    <3>1. /\ Len(rs.x) = Layer.ivars /\ rs.mpi = <<>> /\ rs.y = <<>>
          /\ Len(proof) = SentAbove(job, layer) + Len(rs.x) + Len(rs.simd) + Len(rs.mpi)
      BY <2>1 DEF ProofLength
    <3>2. SentAbove(job, layer) \in Nat /\ PhaseOneRounds(Layer) \in Nat /\ Layer.ivars \in Nat
      BY <1>3, <1>4, <1>6, <2>6
    <3>3. Len(proof') = SentAbove(job, layer) + Len(rs.x) + Len(rs.simd') + Len(rs.mpi)
      <4> DEFINE a == Len(rs.x)
                 b == Len(rs.simd)
                 c == Len(rs.mpi)
      <4>1. Len(proof') = SentAbove(job, layer) + a + b + c + 1
        BY <2>4, <3>1
      <4>2. Len(rs.simd') = b + 1
        BY <2>5
      <4>3. SentAbove(job, layer) \in Nat /\ a \in Nat /\ b \in Nat /\ c \in Nat
        BY <1>8, <3>2
      <4> HIDE DEF a, b, c
      <4>4. Len(proof') = SentAbove(job, layer) + a + (b + 1) + c
        BY <4>1, <4>3
      <4> QED BY <4>2, <4>4, Zenon DEF a, b, c
    <3>4. Len(rs.simd') <= job.simd
      BY <1>2, <1>8, <2>1, <2>5, <3>2
    <3> QED BY <1>7, <2>1, <2>5, <3>1, <3>3, <3>4 DEF ProofLength
  <2> QED BY <2>7, <2>8
<1>15. CASE PrepareMpiVarVals
  <2>1. stage = "simd" /\ Len(rs.simd) = job.simd /\ stage' = "mpi" /\ UNCHANGED <<job, layer, rs, proof>>
    BY <1>15 DEF PrepareMpiVarVals
  <2>2. TypeOK'
    BY <2>1 DEF TypeOK, Depth
  <2>3. ProofLength'
    BY <1>2, <1>3, <1>4, <2>1, IsSeqEmpty DEF TypeOK, ProofLength, Layer
  <2> QED BY <2>2, <2>3
<1>16. CASE RoundMpi
  <2>1. /\ stage = "mpi" /\ Len(rs.mpi) < job.mpi /\ UNCHANGED <<job, stage, layer>>
        /\ \E e : proof' = Append(proof, e)
        /\ \E c : rs' = [rs EXCEPT !.mpi = Append(@, c)]
    BY <1>16 DEF RoundMpi, TranscriptIo
  <2>2. PICK e : proof' = Append(proof, e)
    BY <2>1
  <2>3. PICK coin : rs' = [rs EXCEPT !.mpi = Append(@, coin)]
    BY <2>1
  <2>4. IsSeq(proof') /\ Len(proof') = Len(proof) + 1
    BY <2>2, IsSeqAppend DEF TypeOK
  <2>5. /\ IsSeq(rs.mpi') /\ Len(rs.mpi') = Len(rs.mpi) + 1
        /\ DOMAIN rs' = DOMAIN rs
        /\ rs.x' = rs.x /\ rs.simd' = rs.simd /\ rs.y' = rs.y
    BY <2>3, IsSeqAppend DEF TypeOK
  <2>6. layer \in 1 .. Depth /\ layer # 0
    BY <1>2, <1>3, <2>1 DEF TypeOK
  <2>7. TypeOK'
    BY <2>1, <2>4, <2>5 DEF TypeOK, Depth
  <2>8. ProofLength'
    <3>1. /\ Len(rs.x) = Layer.ivars /\ Len(rs.simd) = job.simd /\ rs.y = <<>>
          /\ Len(proof) = SentAbove(job, layer) + Len(rs.x) + Len(rs.simd) + Len(rs.mpi)
      BY <2>1 DEF ProofLength
    <3>2. SentAbove(job, layer) \in Nat /\ PhaseOneRounds(Layer) \in Nat /\ Layer.ivars \in Nat
      BY <1>3, <1>4, <1>6, <2>6
    <3>3. Len(proof') = SentAbove(job, layer) + Len(rs.x) + Len(rs.simd) + Len(rs.mpi')
      <4> DEFINE a == Len(rs.x)
                 b == Len(rs.simd)
                 c == Len(rs.mpi)
      <4>1. Len(proof') = SentAbove(job, layer) + a + b + c + 1
        BY <2>4, <3>1
      <4>2. Len(rs.mpi') = c + 1
        BY <2>5
      <4>3. SentAbove(job, layer) \in Nat /\ a \in Nat /\ b \in Nat /\ c \in Nat
        BY <1>8, <3>2
      <4> HIDE DEF a, b, c
      <4>4. Len(proof') = SentAbove(job, layer) + a + b + (c + 1)
        BY <4>1, <4>3
      <4> QED BY <4>2, <4>4, Zenon DEF a, b, c
    <3>4. Len(rs.mpi') <= job.mpi
      BY <1>2, <1>8, <2>1, <2>5, <3>2
    <3> QED BY <1>7, <2>1, <2>5, <3>1, <3>3, <3>4 DEF ProofLength
  <2> QED BY <2>7, <2>8
<1>17. CASE FinishPhaseOne
  <2>1. /\ stage = "mpi" /\ Len(rs.mpi) = job.mpi /\ UNCHANGED <<job, layer, rs>>
        /\ \E e : proof' = Append(proof, e)
        /\ stage' = IF SkipPhaseTwo(Layer) THEN "next" ELSE "y"
    BY <1>17 DEF FinishPhaseOne
  <2>2. PICK e : proof' = Append(proof, e)
    BY <2>1
  <2>3. IsSeq(proof') /\ Len(proof') = Len(proof) + 1
    BY <2>2, IsSeqAppend DEF TypeOK
  <2>4. layer \in 1 .. Depth /\ layer # 0
    BY <1>2, <1>3, <2>1 DEF TypeOK
  <2>5. TypeOK'
    BY <2>1, <2>3, <2>4 DEF TypeOK, Depth
  <2>6. /\ Len(rs.x) = Layer.ivars /\ Len(rs.simd) = job.simd /\ rs.y = <<>>
        /\ Len(proof) = SentAbove(job, layer) + PhaseOneRounds(Layer)
    <3>1. /\ Len(rs.x) = Layer.ivars /\ Len(rs.simd) = job.simd /\ rs.y = <<>>
          /\ Len(proof) = SentAbove(job, layer) + Len(rs.x) + Len(rs.simd) + Len(rs.mpi)
      BY <2>1 DEF ProofLength
    <3>2. /\ SentAbove(job, layer) \in Nat /\ Layer.ivars \in Nat
          /\ PhaseOneRounds(Layer) = Layer.ivars + job.simd + job.mpi
      BY <1>3, <1>4, <1>6, <2>4
    <3>3. Len(proof) = SentAbove(job, layer) + Layer.ivars + job.simd + job.mpi
      BY <2>1, <3>1
    <3>4. Len(proof) = SentAbove(job, layer) + PhaseOneRounds(Layer)
      BY <1>2, <3>2, <3>3
    <3> QED BY <3>1, <3>4
  <2>7. Len(proof') = SentAbove(job, layer) + PhaseOneRounds(Layer) + 1
    BY <2>3, <2>6
  <2>8. CASE SkipPhaseTwo(Layer)
    <3>1. Len(proof') = SentAbove(job, layer) + MessagesOf(Layer)
      BY <1>4, <1>6, <2>4, <2>7, <2>8
    <3> QED BY <1>7, <2>1, <2>5, <2>8, <3>1 DEF ProofLength
  <2>9. CASE ~SkipPhaseTwo(Layer)
    <3>1. ~SkipPhaseTwo(Layer')
      BY <1>7, <2>1, <2>9
    <3>2. SentAbove(job, layer) + PhaseOneRounds(Layer) + 1 + 0
            = SentAbove(job, layer) + PhaseOneRounds(Layer) + 1
      BY <1>4, <1>6, <2>4
    <3> QED BY <1>3, <1>7, <2>1, <2>4, <2>5, <2>6, <2>7, <2>9, <3>1, <3>2, IsSeqEmpty DEF ProofLength
  <2> QED BY <2>5, <2>8, <2>9
<1>18. CASE RoundY
  <2>1. /\ stage = "y" /\ Len(rs.y) < Layer.ivars /\ UNCHANGED <<job, stage, layer>>
        /\ \E e : proof' = Append(proof, e)
        /\ \E c : rs' = [rs EXCEPT !.y = Append(@, c)]
    BY <1>18 DEF RoundY, TranscriptIo
  <2>2. PICK e : proof' = Append(proof, e)
    BY <2>1
  <2>3. PICK coin : rs' = [rs EXCEPT !.y = Append(@, coin)]
    BY <2>1
  <2>4. IsSeq(proof') /\ Len(proof') = Len(proof) + 1
    BY <2>2, IsSeqAppend DEF TypeOK
  <2>5. /\ IsSeq(rs.y') /\ Len(rs.y') = Len(rs.y) + 1
        /\ DOMAIN rs' = DOMAIN rs
        /\ rs.x' = rs.x /\ rs.simd' = rs.simd /\ rs.mpi' = rs.mpi
    BY <2>3, IsSeqAppend DEF TypeOK
  <2>6. layer \in 1 .. Depth /\ layer # 0
    BY <1>2, <1>3, <2>1 DEF TypeOK
  <2>7. TypeOK'
    BY <2>1, <2>4, <2>5 DEF TypeOK, Depth
  <2>8. ProofLength'
    <3>1. /\ ~SkipPhaseTwo(Layer)
          /\ Len(proof) = SentAbove(job, layer) + PhaseOneRounds(Layer) + 1 + Len(rs.y)
      BY <2>1 DEF ProofLength
    <3>2. SentAbove(job, layer) \in Nat /\ PhaseOneRounds(Layer) \in Nat /\ Layer.ivars \in Nat
      BY <1>3, <1>4, <1>6, <2>6
    <3>3. Len(proof') = SentAbove(job, layer) + PhaseOneRounds(Layer) + 1 + Len(rs.y')
      BY <1>8, <2>4, <2>5, <3>1, <3>2, SMTT(60)
    <3>4. Len(rs.y') <= Layer.ivars
      BY <1>2, <1>8, <2>1, <2>5, <3>2
    <3> QED BY <1>7, <2>1, <2>5, <3>1, <3>3, <3>4 DEF ProofLength
  <2> QED BY <2>7, <2>8
<1>19. CASE FinishPhaseTwo
  <2>1. /\ stage = "y" /\ Len(rs.y) = Layer.ivars /\ UNCHANGED <<job, layer, rs>>
        /\ \E e : proof' = Append(proof, e)
        /\ stage' = "next"
    BY <1>19 DEF FinishPhaseTwo
  <2>2. PICK e : proof' = Append(proof, e)
    BY <2>1
  <2>3. IsSeq(proof') /\ Len(proof') = Len(proof) + 1
    BY <2>2, IsSeqAppend DEF TypeOK
  <2>4. layer \in 1 .. Depth /\ layer # 0
    BY <1>2, <1>3, <2>1 DEF TypeOK
  <2>5. TypeOK'
    BY <2>1, <2>3, <2>4 DEF TypeOK, Depth
  <2>6. Len(proof) = SentAbove(job, layer) + PhaseOneRounds(Layer) + 1 + Layer.ivars
    BY <2>1 DEF ProofLength
  <2>7. ~SkipPhaseTwo(Layer)
    BY <2>1 DEF ProofLength
  <2>8. Len(proof') = SentAbove(job, layer) + MessagesOf(Layer)
    <3>1. /\ SentAbove(job, layer) \in Nat /\ PhaseOneRounds(Layer) \in Nat /\ Layer.ivars \in Nat
          /\ MessagesOf(Layer) = PhaseOneRounds(Layer) + Layer.ivars + 2
      BY <1>3, <1>4, <1>6, <2>4, <2>7
    <3> QED BY ONLY <2>3, <2>6, <3>1
  <2>9. ProofLength'
    BY <1>7, <2>1, <2>8 DEF ProofLength
  <2> QED BY <2>5, <2>9
<1>20. CASE NextLayer
  <2>1. /\ stage = "next" /\ layer' = layer - 1 /\ UNCHANGED <<job, rs, proof>>
        /\ stage' = IF layer > 1 THEN "prepare" ELSE "proved"
    BY <1>20 DEF NextLayer
  <2>2. layer \in 1 .. Depth
    BY <1>3, <2>1 DEF TypeOK
  <2>3. TypeOK'
    BY <1>2, <2>1, <2>2 DEF TypeOK, Depth
  <2>4. Len(proof) = SentAbove(job, layer - 1)
    BY <1>4, <2>1, <2>2 DEF ProofLength
  <2>5. layer' = 0 \/ stage' = "prepare"
    BY <2>1, <2>2
  <2>6. ProofLength'
    BY <2>1, <2>2, <2>4, <2>5 DEF ProofLength
  <2> QED BY <2>3, <2>6
<1> QED BY <1>1, <1>9, <1>10, <1>11, <1>12, <1>13, <1>14, <1>15, <1>16, <1>17, <1>18, <1>19,
        <1>20 DEF ProverStep

-----------------------------------------------------------------------------
(* Two sequences with the same first n elements.                           *)
SameUpTo(s, t, n) ==
  /\ n \in Nat /\ s \in Seq(Range(s)) /\ t \in Seq(Range(t)) /\ n <= Len(s) /\ n <= Len(t)
  /\ \A i \in 1 .. n : s[i] = t[i]

(* A slice, place by place.                                                *)
LEMMA SubSeqIs ==
  ASSUME NEW s, NEW a \in Nat \ {0}, NEW b \in Nat
  PROVE  SubSeq(s, a, b) = [i \in 1 .. (IF a <= b THEN b - a + 1 ELSE 0) |-> s[a + i - 1]]
<1> DEFINE m == IF a <= b THEN b - a + 1 ELSE 0
<1>1. m \in Nat /\ 1 .. b - a + 1 = 1 .. m
  OBVIOUS
<1>2. SubSeq(s, a, b) = [i \in 1 .. m |-> s[a + i - 1]]
  BY <1>1, SubSeqProperties
<1> QED BY <1>2

(* The same for the n places after place a.                                *)
LEMMA SliceIs ==
  ASSUME NEW s, NEW a \in Nat, NEW n \in Nat
  PROVE  SubSeq(s, a + 1, a + n) = [i \in 1 .. n |-> s[(a + 1) + i - 1]]
<1> DEFINE from == a + 1
           to   == a + n
<1>1. from \in Nat \ {0} /\ to \in Nat /\ (IF from <= to THEN to - from + 1 ELSE 0) = n
  OBVIOUS
<1> HIDE DEF from, to
<1>2. SubSeq(s, from, to) = [i \in 1 .. n |-> s[from + i - 1]]
  BY <1>1, SubSeqIs
<1> QED BY <1>2 DEF from, to

(* What the verifiers read of two tapes or proofs that agree is the same.  *)
LEMMA SlicesAgree ==
  ASSUME NEW s, NEW t, NEW n, SameUpTo(s, t, n)
  PROVE  \A a \in Nat \ {0}, b \in Nat : b <= n => SubSeq(s, a, b) = SubSeq(t, a, b)
<1> SUFFICES ASSUME NEW a \in Nat \ {0}, NEW b \in Nat, b <= n
             PROVE  SubSeq(s, a, b) = SubSeq(t, a, b)
  OBVIOUS
<1>0. n \in Nat
  BY DEF SameUpTo
<1> DEFINE m == IF a <= b THEN b - a + 1 ELSE 0
<1>1. m \in Nat /\ 1 .. b - a + 1 = 1 .. m
  OBVIOUS
<1>2. /\ SubSeq(s, a, b) = [i \in 1 .. m |-> s[a + i - 1]]
      /\ SubSeq(t, a, b) = [i \in 1 .. m |-> t[a + i - 1]]
  BY SubSeqProperties
<1>3. \A i \in 1 .. m : s[a + i - 1] = t[a + i - 1]
  <2>1. ASSUME NEW i \in 1 .. m PROVE a + i - 1 \in 1 .. n
    BY <1>0
  <2> QED BY <2>1 DEF SameUpTo
<1> HIDE DEF m
<1> QED BY <1>2, <1>3

(* The prepared scratch pads that the layer l cannot tell apart: the       *)
(* tables of the ranks and lanes are the same, eq(rz, .) is on the places  *)
(* of the layer, and eq(rx, .) and eq(ry, .), written anew, have room.     *)
PadFields == {"rz0", "rx", "ry", "simd", "mpi", "r_simd", "r_mpi", "eq_simd", "eq_mpi"}

HasRoom(l, pad) ==
  /\ DOMAIN pad = PadFields
  /\ Places(l.ivars) \subseteq DOMAIN pad.rx /\ Places(l.ivars) \subseteq DOMAIN pad.ry

PadsAgree(l, p, q) ==
  /\ HasRoom(l, p) /\ HasRoom(l, q)
  /\ p.simd = q.simd /\ p.mpi = q.mpi /\ p.r_simd = q.r_simd /\ p.r_mpi = q.r_mpi
  /\ \A i \in Places(l.ovars) : p.rz0[i] = q.rz0[i]

(* A table of eq written over another, at the places of its variables.     *)
LEMMA EqTableAt ==
  ASSUME NEW t, NEW r, NEW i \in Places(Len(r)), i \in DOMAIN t
  PROVE  WriteTable(t, EqEvalAt(r, 1))[i] = EqEvalAt(r, 1)[i]
BY DEF WriteTable, EqEvalAt, Places

(* So the gates of the layer get the same values in both.                  *)
GatesFit(l) ==
  /\ \A g \in l.mul \cup l.add \cup l.cst : g.o \in Places(l.ovars)
  /\ \A g \in l.mul \cup l.add : g.i \in Places(l.ivars)
  /\ \A g \in l.mul : g.k \in Places(l.ivars)

(* EvalCst reads eq(rz, .) at the outputs of gates, and lanes and ranks.   *)
LEMMA EvalCstAgrees ==
  ASSUME NEW l, GatesFit(l), NEW p, NEW q, PadsAgree(l, p, q)
  PROVE  EvalCst(l, p) = EvalCst(l, q)
<1> DEFINE local == Len(PublicInputs) \div 2^job.mpi
           inner(pad, n, j) == SumOf([r \in Rank |-> pad.mpi[r] * PublicInputs[r * local + n][j]])
           combined(pad, n) == SumOf([j \in Lane |-> pad.simd[j] * inner(pad, n, j)])
           value(pad, g) == IF g.pi = None THEN g.coef ELSE combined(pad, g.pi[1])
           term(pad) == [g \in l.cst |-> pad.rz0[g.o] * value(pad, g)]
<1>1. p.simd = q.simd /\ p.mpi = q.mpi
  BY DEF PadsAgree
<1>2. \A n : combined(p, n) = combined(q, n)
  BY <1>1
<1>3. ASSUME NEW g \in l.cst PROVE p.rz0[g.o] = q.rz0[g.o]
  BY DEF PadsAgree, GatesFit
<1> HIDE DEF combined
<1>4. \A g \in l.cst : value(p, g) = value(q, g)
  BY <1>2
<1> HIDE DEF value
<1>5. term(p) = term(q)
  BY <1>3, <1>4
<1>6. EvalCst(l, p) = SumOf(term(p)) /\ EvalCst(l, q) = SumOf(term(q))
  BY DEF EvalCst, value, combined
<1> HIDE DEF term
<1> QED BY <1>5, <1>6

(* The scratch pad after phase one and after phase two.                    *)
PadOne(prepared, rx, simd, mpi) ==
  [prepared EXCEPT !.rx      = WriteTable(@, EqEvalAt(rx, 1)),
                   !.eq_simd = EqVec(prepared.r_simd, simd),
                   !.eq_mpi  = EqVec(prepared.r_mpi, mpi)]

PadTwo(pad, ry) == [pad EXCEPT !.ry = WriteTable(@, EqEvalAt(ry, 1))]

(* EvalAdd reads eq(rz, .) and eq(rx, .) at the ends of gates.             *)
LEMMA EvalAddAgrees ==
  ASSUME NEW l, GatesFit(l), NEW p, NEW q, PadsAgree(l, p, q),
         NEW rx, NEW simd, NEW mpi, Len(rx) = l.ivars
  PROVE  EvalAdd(l, PadOne(p, rx, simd, mpi)) = EvalAdd(l, PadOne(q, rx, simd, mpi))
<1> DEFINE one == PadOne(p, rx, simd, mpi)
           two == PadOne(q, rx, simd, mpi)
           term(pad) == [g \in l.add |-> pad.rz0[g.o] * pad.rx[g.i] * g.coef]
<1>1. /\ one.rz0 = p.rz0 /\ one.rx = WriteTable(p.rx, EqEvalAt(rx, 1))
      /\ one.eq_simd = EqVec(p.r_simd, simd) /\ one.eq_mpi = EqVec(p.r_mpi, mpi)
  BY DEF PadOne, PadsAgree, HasRoom, PadFields
<1>2. /\ two.rz0 = q.rz0 /\ two.rx = WriteTable(q.rx, EqEvalAt(rx, 1))
      /\ two.eq_simd = EqVec(q.r_simd, simd) /\ two.eq_mpi = EqVec(q.r_mpi, mpi)
  BY DEF PadOne, PadsAgree, HasRoom, PadFields
<1>3. one.eq_simd = two.eq_simd /\ one.eq_mpi = two.eq_mpi
  BY <1>1, <1>2 DEF PadsAgree
<1> HIDE DEF one, two
<1>4. ASSUME NEW g \in l.add PROVE one.rz0[g.o] = two.rz0[g.o] /\ one.rx[g.i] = two.rx[g.i]
  <2>1. g.o \in Places(l.ovars) /\ g.i \in Places(Len(rx))
    BY DEF GatesFit
  <2>2. g.i \in DOMAIN p.rx /\ g.i \in DOMAIN q.rx
    BY <2>1 DEF PadsAgree, HasRoom
  <2>3. one.rx[g.i] = EqEvalAt(rx, 1)[g.i] /\ two.rx[g.i] = EqEvalAt(rx, 1)[g.i]
    BY <1>1, <1>2, <2>1, <2>2, EqTableAt
  <2>4. one.rz0[g.o] = two.rz0[g.o]
    BY <1>1, <1>2, <2>1 DEF PadsAgree
  <2> QED BY <2>3, <2>4
<1>5. term(one) = term(two)
  BY <1>4
<1>6. /\ EvalAdd(l, one) = (SumOf(term(one)) * one.eq_simd * one.eq_mpi) % P
      /\ EvalAdd(l, two) = (SumOf(term(two)) * two.eq_simd * two.eq_mpi) % P
  BY DEF EvalAdd
<1> HIDE DEF term
<1>7. EvalAdd(l, one) = EvalAdd(l, two)
  BY <1>3, <1>5, <1>6
<1> QED BY <1>7 DEF one, two

(* EvalMul reads eq(ry, .) too.                                            *)
LEMMA EvalMulAgrees ==
  ASSUME NEW l, GatesFit(l), NEW p, NEW q, PadsAgree(l, p, q),
         NEW rx, NEW simd, NEW mpi, NEW ry, Len(rx) = l.ivars, Len(ry) = l.ivars
  PROVE  EvalMul(l, PadTwo(PadOne(p, rx, simd, mpi), ry))
           = EvalMul(l, PadTwo(PadOne(q, rx, simd, mpi), ry))
<1> DEFINE one == PadTwo(PadOne(p, rx, simd, mpi), ry)
           two == PadTwo(PadOne(q, rx, simd, mpi), ry)
           term(pad) == [g \in l.mul |-> pad.rz0[g.o] * pad.rx[g.i] * g.coef * pad.ry[g.k]]
<1>1. /\ one.rz0 = p.rz0 /\ one.rx = WriteTable(p.rx, EqEvalAt(rx, 1))
      /\ one.ry = WriteTable(p.ry, EqEvalAt(ry, 1))
      /\ one.eq_simd = EqVec(p.r_simd, simd) /\ one.eq_mpi = EqVec(p.r_mpi, mpi)
  BY DEF PadOne, PadTwo, PadsAgree, HasRoom, PadFields
<1>2. /\ two.rz0 = q.rz0 /\ two.rx = WriteTable(q.rx, EqEvalAt(rx, 1))
      /\ two.ry = WriteTable(q.ry, EqEvalAt(ry, 1))
      /\ two.eq_simd = EqVec(q.r_simd, simd) /\ two.eq_mpi = EqVec(q.r_mpi, mpi)
  BY DEF PadOne, PadTwo, PadsAgree, HasRoom, PadFields
<1>3. one.eq_simd = two.eq_simd /\ one.eq_mpi = two.eq_mpi
  BY <1>1, <1>2 DEF PadsAgree
<1> HIDE DEF one, two
<1>4. ASSUME NEW g \in l.mul
      PROVE  one.rz0[g.o] = two.rz0[g.o] /\ one.rx[g.i] = two.rx[g.i] /\ one.ry[g.k] = two.ry[g.k]
  <2>1. g.o \in Places(l.ovars) /\ g.i \in Places(Len(rx)) /\ g.k \in Places(Len(ry))
    BY DEF GatesFit
  <2>2. /\ g.i \in DOMAIN p.rx /\ g.i \in DOMAIN q.rx
        /\ g.k \in DOMAIN p.ry /\ g.k \in DOMAIN q.ry
    BY <2>1 DEF PadsAgree, HasRoom
  <2>3. one.rx[g.i] = EqEvalAt(rx, 1)[g.i] /\ two.rx[g.i] = EqEvalAt(rx, 1)[g.i]
    BY <1>1, <1>2, <2>1, <2>2, EqTableAt
  <2>4. one.ry[g.k] = EqEvalAt(ry, 1)[g.k] /\ two.ry[g.k] = EqEvalAt(ry, 1)[g.k]
    BY <1>1, <1>2, <2>1, <2>2, EqTableAt
  <2>5. one.rz0[g.o] = two.rz0[g.o]
    BY <1>1, <1>2, <2>1 DEF PadsAgree
  <2> QED BY <2>3, <2>4, <2>5
<1>5. term(one) = term(two)
  BY <1>4
<1>6. /\ EvalMul(l, one) = (SumOf(term(one)) * one.eq_simd * one.eq_mpi) % P
      /\ EvalMul(l, two) = (SumOf(term(two)) * two.eq_simd * two.eq_mpi) % P
  BY DEF EvalMul
<1> HIDE DEF term
<1>7. EvalMul(l, one) = EvalMul(l, two)
  BY <1>3, <1>5, <1>6
<1> QED BY <1>7 DEF one, two

(* How many coins and messages a layer takes: those of phase one, those of *)
(* both phases, and the messages.                                          *)
LayerSize(l, n, draws, count) ==
  n = PhaseOneRounds(l) /\ draws = n + PhaseTwoRounds(l) /\ count = MessagesOf(l)

(* The places at which a layer cuts its messages and coins are in range.   *)
LEMMA RoundsOfLayer ==
  ASSUME job.simd \in Nat, job.mpi \in Nat, NEW l, l.ivars \in Nat,
         NEW n, NEW draws, NEW count, LayerSize(l, n, draws, count)
  PROVE  /\ n = l.ivars + job.simd + job.mpi
         /\ n \in Nat /\ draws \in Nat /\ count \in Nat
         /\ l.ivars + job.simd \in Nat
         /\ 1 \in Nat \ {0} /\ l.ivars + 1 \in Nat \ {0} /\ l.ivars + job.simd + 1 \in Nat \ {0}
         /\ n + 1 \in Nat \ {0} /\ n + 2 \in Nat \ {0} /\ n + 1 + l.ivars \in Nat
         /\ l.ivars <= draws /\ l.ivars + job.simd <= draws /\ n <= draws /\ draws <= draws
         /\ l.ivars <= count /\ n <= count /\ n + 1 \in 1 .. count
         /\ SkipPhaseTwo(l) => count = n + 1 /\ draws = n
         /\ ~SkipPhaseTwo(l) =>
              /\ count = n + l.ivars + 2 /\ draws = n + l.ivars
              /\ n + 1 + l.ivars <= count /\ n + l.ivars + 2 \in 1 .. count
              /\ draws - (n + 1) + 1 = l.ivars /\ (n + 1 <= draws \/ l.ivars = 0)
<1> DEFINE x == l.ivars
           y == job.simd
           z == job.mpi
<1>1. n = x + y + z /\ x \in Nat /\ y \in Nat /\ z \in Nat
  BY DEF LayerSize, PhaseOneRounds
<1>2. /\ draws = n + (IF SkipPhaseTwo(l) THEN 0 ELSE x)
      /\ count = n + 1 + (IF SkipPhaseTwo(l) THEN 0 ELSE x + 1)
  BY DEF LayerSize, PhaseTwoRounds, MessagesOf
<1> HIDE DEF x, y, z
<1>3. n \in Nat /\ x + y \in Nat /\ x <= n /\ x + y <= n
  BY <1>1
<1>4. /\ 1 \in Nat \ {0} /\ x + 1 \in Nat \ {0} /\ x + y + 1 \in Nat \ {0}
      /\ n + 1 \in Nat \ {0} /\ n + 2 \in Nat \ {0} /\ n + 1 + x \in Nat
  BY <1>1, <1>3
<1>5. CASE SkipPhaseTwo(l)
  <2>1. draws = n /\ count = n + 1
    BY <1>2, <1>3, <1>5
  <2>2. /\ draws \in Nat /\ count \in Nat /\ x <= count /\ n <= count /\ n + 1 \in 1 .. count
        /\ x <= draws /\ x + y <= draws /\ n <= draws /\ draws <= draws
    BY <1>1, <1>3, <2>1
  <2> QED BY <1>1, <1>3, <1>4, <1>5, <2>1, <2>2 DEF x, y, z
<1>6. CASE ~SkipPhaseTwo(l)
  <2>1. draws = n + x /\ count = n + x + 2
    BY <1>1, <1>2, <1>3, <1>6
  <2>2. /\ draws \in Nat /\ count \in Nat /\ x <= count /\ n <= count /\ n + 1 \in 1 .. count
        /\ x <= draws /\ x + y <= draws /\ n <= draws /\ draws <= draws
    BY <1>1, <1>3, <2>1
  <2>3. /\ n + 1 + x <= count /\ n + x + 2 \in 1 .. count
        /\ draws - (n + 1) + 1 = x /\ (n + 1 <= draws \/ x = 0)
    BY <1>1, <1>3, <2>1
  <2> QED BY <1>1, <1>3, <1>4, <1>6, <2>1, <2>2, <2>3 DEF x, y, z
<1> QED BY <1>5, <1>6

(* A layer's verdict, and what it leaves to be shown, depend on the        *)
(* messages and coins of the layer and on what PadsAgree compares.         *)
LEMMA LayerIsLocal ==
  ASSUME job.simd \in Nat, job.mpi \in Nat,
         NEW l, GatesFit(l), l.ivars \in Nat, NEW ch, NEW c, NEW a,
         NEW n, NEW draws, NEW count, LayerSize(l, n, draws, count),
         NEW m1, NEW m2, SameUpTo(m1, m2, count), NEW t1, NEW t2, SameUpTo(t1, t2, draws),
         NEW p1, NEW p2, PadsAgree(l, p1, p2)
  PROVE  LET out1 == SumcheckVerifyGkrLayer(l, ch, c, a, m1, t1, p1)
             out2 == SumcheckVerifyGkrLayer(l, ch, c, a, m2, t2, p2)
         IN out1.ok = out2.ok /\ out1.claim = out2.claim /\ out1.challenge = out2.challenge
<1> DEFINE rx(t)    == SubSeq(t, 1, l.ivars)
           simd(t)  == SubSeq(t, l.ivars + 1, l.ivars + job.simd)
           mpi(t)   == SubSeq(t, l.ivars + job.simd + 1, n)
           ry(t)    == SubSeq(t, n + 1, draws)
           mx(m)    == SubSeq(m, 1, l.ivars)
           mr(m)    == SubSeq(m, l.ivars + 1, n)
           my(m)    == SubSeq(m, n + 2, n + 1 + l.ivars)
           vx(m)    == m[n + 1][1]
           vy(m)    == m[n + l.ivars + 2][1]
           sum(p)   == (c.x + (IF c.y = None THEN 0 ELSE c.y[1] * a[1]) - EvalCst(l, p)) % P
           one(p, m, t) == VerifySteps(VerifySteps([ok |-> TRUE, sum |-> sum(p)], mx(m), rx(t), 2),
                                       mr(m), simd(t) \o mpi(t), 3)
           pad1(p, t)   == PadOne(p, rx(t), simd(t), mpi(t))
           pad2(p, t)   == PadTwo(pad1(p, t), ry(t))
           added(p, m, t) == [one(p, m, t) EXCEPT !.sum = (@ - vx(m) * EvalAdd(l, pad1(p, t))) % P]
           two(p, m, t)   == VerifySteps(added(p, m, t), my(m), ry(t), 2)
<1>1. ASSUME NEW i \in Nat \ {0}, NEW k \in Nat, k <= draws
      PROVE  SubSeq(t1, i, k) = SubSeq(t2, i, k)
  BY <1>1, SlicesAgree, ZenonT(60)
<1>2. ASSUME NEW i \in Nat \ {0}, NEW k \in Nat, k <= count
      PROVE  SubSeq(m1, i, k) = SubSeq(m2, i, k)
  BY <1>2, SlicesAgree, ZenonT(60)
<1>3. rx(t1) = rx(t2) /\ simd(t1) = simd(t2) /\ mpi(t1) = mpi(t2) /\ ry(t1) = ry(t2)
  <2>1. /\ l.ivars <= draws /\ l.ivars + job.simd <= draws /\ n <= draws /\ draws <= draws
        /\ l.ivars + 1 \in Nat \ {0} /\ l.ivars + job.simd + 1 \in Nat \ {0} /\ n + 1 \in Nat \ {0}
        /\ 1 \in Nat \ {0} /\ n \in Nat /\ draws \in Nat /\ l.ivars + job.simd \in Nat
    BY RoundsOfLayer
  <2>2. rx(t1) = rx(t2)
    BY <1>1, <2>1, Zenon
  <2>3. simd(t1) = simd(t2)
    BY <1>1, <2>1, Zenon
  <2>4. mpi(t1) = mpi(t2)
    BY <1>1, <2>1, Zenon
  <2>5. ry(t1) = ry(t2)
    BY <1>1, <2>1, Zenon
  <2> QED BY <2>2, <2>3, <2>4, <2>5, Zenon
<1>4. mx(m1) = mx(m2) /\ mr(m1) = mr(m2) /\ vx(m1) = vx(m2)
  <2>1. /\ l.ivars <= count /\ l.ivars + 1 \in Nat \ {0} /\ n <= count /\ n + 1 \in 1 .. count
        /\ 1 \in Nat \ {0} /\ n \in Nat
    BY RoundsOfLayer
  <2>2. mx(m1) = mx(m2)
    BY <1>2, <2>1, Zenon
  <2>3. mr(m1) = mr(m2)
    BY <1>2, <2>1, Zenon
  <2>4. vx(m1) = vx(m2)
    BY <2>1, Zenon DEF SameUpTo
  <2> QED BY <2>2, <2>3, <2>4, Zenon
<1>5. ~SkipPhaseTwo(l) => my(m1) = my(m2) /\ vy(m1) = vy(m2)
  <2>1. SUFFICES ASSUME ~SkipPhaseTwo(l) PROVE my(m1) = my(m2) /\ vy(m1) = vy(m2)
    OBVIOUS
  <2>2. /\ n + 1 + l.ivars <= count /\ n + 1 + l.ivars \in Nat /\ n + 2 \in Nat \ {0}
        /\ n + l.ivars + 2 \in 1 .. count
    BY <2>1, RoundsOfLayer
  <2>3. my(m1) = my(m2)
    BY <1>2, <2>2, Zenon
  <2>4. vy(m1) = vy(m2)
    BY <2>2, Zenon DEF SameUpTo
  <2> QED BY <2>3, <2>4, Zenon
<1>6. Len(rx(t1)) = l.ivars /\ (~SkipPhaseTwo(l) => Len(ry(t1)) = l.ivars)
  <2>1. Len(rx(t1)) = l.ivars
    BY SubSeqProperties
  <2>2. ASSUME ~SkipPhaseTwo(l) PROVE Len(ry(t1)) = l.ivars
    <3>1. /\ n + 1 \in Nat /\ n \in Nat /\ draws \in Nat
          /\ draws - (n + 1) + 1 = l.ivars /\ (n + 1 <= draws \/ l.ivars = 0)
      BY <2>2, RoundsOfLayer
    <3>2. Len(ry(t1)) = IF n + 1 <= draws THEN draws - (n + 1) + 1 ELSE 0
      BY <3>1, SubSeqProperties
    <3> QED BY <3>1, <3>2
  <2> QED BY <2>1, <2>2
<1>7. EvalCst(l, p1) = EvalCst(l, p2)
  BY EvalCstAgrees, Zenon
<1>8. EvalAdd(l, pad1(p1, t1)) = EvalAdd(l, pad1(p2, t2))
  <2>1. EvalAdd(l, PadOne(p1, rx(t1), simd(t1), mpi(t1))) = EvalAdd(l, PadOne(p2, rx(t1), simd(t1), mpi(t1)))
    <3> HIDE DEF rx, simd, mpi
    <3> QED BY <1>6, EvalAddAgrees
  <2> QED BY <1>3, <2>1, Zenon
<1>9. ~SkipPhaseTwo(l) => EvalMul(l, pad2(p1, t1)) = EvalMul(l, pad2(p2, t2))
  <2>1. SUFFICES ASSUME ~SkipPhaseTwo(l)
                 PROVE  EvalMul(l, pad2(p1, t1)) = EvalMul(l, pad2(p2, t2))
    OBVIOUS
  <2>2. EvalMul(l, PadTwo(PadOne(p1, rx(t1), simd(t1), mpi(t1)), ry(t1)))
          = EvalMul(l, PadTwo(PadOne(p2, rx(t1), simd(t1), mpi(t1)), ry(t1)))
    <3>1. Len(ry(t1)) = l.ivars
      BY <1>6, <2>1
    <3> HIDE DEF rx, simd, mpi, ry
    <3> QED BY <1>6, <3>1, EvalMulAgrees
  <2> QED BY <1>3, <2>2, Zenon
<1>10. SumcheckVerifyGkrLayer(l, ch, c, a, m1, t1, p1) =
        IF SkipPhaseTwo(l)
        THEN [ok        |-> added(p1, m1, t1).ok /\ added(p1, m1, t1).sum = 0,
              pad       |-> pad1(p1, t1),
              claim     |-> [x |-> vx(m1), y |-> None],
              challenge |-> [rz_0 |-> rx(t1), rz_1 |-> None, r_simd |-> simd(t1), r_mpi |-> mpi(t1)]]
        ELSE [ok        |-> two(p1, m1, t1).ok
                             /\ two(p1, m1, t1).sum = (vx(m1) * vy(m1) * EvalMul(l, pad2(p1, t1))) % P,
              pad       |-> pad2(p1, t1),
              claim     |-> [x |-> vx(m1), y |-> Some(vy(m1))],
              challenge |-> [rz_0 |-> rx(t1), rz_1 |-> Some(ry(t1)), r_simd |-> simd(t1),
                             r_mpi |-> mpi(t1)]]
  BY DEF SumcheckVerifyGkrLayer, PadOne, PadTwo, LayerSize
<1>11. SumcheckVerifyGkrLayer(l, ch, c, a, m2, t2, p2) =
        IF SkipPhaseTwo(l)
        THEN [ok        |-> added(p2, m2, t2).ok /\ added(p2, m2, t2).sum = 0,
              pad       |-> pad1(p2, t2),
              claim     |-> [x |-> vx(m2), y |-> None],
              challenge |-> [rz_0 |-> rx(t2), rz_1 |-> None, r_simd |-> simd(t2), r_mpi |-> mpi(t2)]]
        ELSE [ok        |-> two(p2, m2, t2).ok
                             /\ two(p2, m2, t2).sum = (vx(m2) * vy(m2) * EvalMul(l, pad2(p2, t2))) % P,
              pad       |-> pad2(p2, t2),
              claim     |-> [x |-> vx(m2), y |-> Some(vy(m2))],
              challenge |-> [rz_0 |-> rx(t2), rz_1 |-> Some(ry(t2)), r_simd |-> simd(t2),
                             r_mpi |-> mpi(t2)]]
  BY DEF SumcheckVerifyGkrLayer, PadOne, PadTwo, LayerSize
<1>12. one(p1, m1, t1) = one(p2, m2, t2)
  BY <1>3, <1>4, <1>7
<1> HIDE DEF one, pad1, pad2
<1>13. added(p1, m1, t1) = added(p2, m2, t2)
  BY <1>4, <1>8, <1>12
<1> HIDE DEF added
<1>14. ~SkipPhaseTwo(l) => two(p1, m1, t1) = two(p2, m2, t2)
  BY <1>3, <1>5, <1>13
<1> HIDE DEF two, rx, ry, simd, mpi, vx, vy
<1>15. CASE SkipPhaseTwo(l)
  BY <1>3, <1>4, <1>10, <1>11, <1>13, <1>15
<1>16. CASE ~SkipPhaseTwo(l)
  BY <1>3, <1>4, <1>5, <1>9, <1>10, <1>11, <1>14, <1>16
<1> QED BY <1>15, <1>16
-----------------------------------------------------------------------------
(* What a unit of gkr_parallel is given, and what it makes of it.          *)
UnitAt(k) == ParsedAbove[k - 1].units[1]

UnitOutcome(k) ==
  LET l    == job.layers[k]
      unit == UnitAt(k)
  IN SumcheckVerifyGkrLayer(l, unit.challenge, unit.claim, unit.alpha, unit.proof, unit.tape,
       PrepareLayerNonSequential(l, unit.alpha, unit.challenge, NewVerifierScratchPad))

(* The tables that the layer above k has left in the scratch pad are those *)
(* of the two points at which layer k's output is claimed.                 *)
TablesLeft(pad, k) ==
  LET s == ParsedAbove[k] IN
  /\ DOMAIN pad = PadFields
  /\ DOMAIN pad.rz0 = TablePlaces(job) /\ DOMAIN pad.rx = TablePlaces(job)
  /\ DOMAIN pad.ry = TablePlaces(job)
  /\ k < Depth => \A i \in Places(Len(s.challenge.rz_0)) :
                    pad.rx[i] = EqEvalAt(s.challenge.rz_0, 1)[i]
  /\ s.alpha # None => \A i \in Places(Len(s.challenge.rz_1[1])) :
                         pad.ry[i] = EqEvalAt(s.challenge.rz_1[1], 1)[i]

SeqFields == {"status", "layer", "challenge", "claim", "alpha", "pad", "ok", "read", "drawn"}
ParFields == {"status", "units", "result", "challenge", "claim"}

SequentialInv ==
  /\ DOMAIN seq = SeqFields
  /\ seq.status \in {"waiting", "running", "accept", "reject"}
  /\ seq.ok \in BOOLEAN
  /\ seq.status = "waiting" =>
       /\ seq.alpha = None /\ seq.ok /\ seq.read = 0 /\ seq.pad = NewVerifierScratchPad
  /\ seq.status # "waiting" =>
       /\ stage = "proved"
       /\ seq.layer \in 0 .. Depth
       /\ LET s == ParsedAbove[seq.layer] IN
            /\ seq.challenge = s.challenge /\ seq.claim = s.claim /\ seq.alpha = s.alpha
            /\ seq.read = s.read /\ seq.drawn = s.drawn
       /\ TablesLeft(seq.pad, seq.layer)
       /\ seq.ok <=> \A k \in seq.layer + 1 .. Depth : UnitOutcome(k).ok
  /\ Decided(seq) => seq.layer = 0 /\ (seq.status = "accept" <=> seq.ok)

ParallelInv ==
  /\ DOMAIN par = ParFields
  /\ par.status \in {"waiting", "running", "accept", "reject"}
  /\ DOMAIN par.result = 1 .. Depth
  /\ par.status = "waiting" => \A k \in 1 .. Depth : par.result[k] = "todo"
  /\ par.status # "waiting" =>
       /\ stage = "proved"
       /\ LET s == ParsedAbove[0] IN
            par.units = s.units /\ par.challenge = s.challenge /\ par.claim = s.claim
       /\ \A k \in 1 .. Depth :
            /\ par.result[k] = "ok" => UnitOutcome(k).ok
            /\ par.result[k] = "bad" => ~UnitOutcome(k).ok
  /\ Decided(par) => (par.status = "accept" <=> \A k \in 1 .. Depth : UnitOutcome(k).ok)

VerifierInv == ProverInv /\ SequentialInv /\ ParallelInv

-----------------------------------------------------------------------------
(* What parse_proof has parsed above a layer, one layer at a time.         *)
LEMMA ParsedAboveUnfolds ==
  ASSUME job \in Jobs
  PROVE  \A k \in 0 .. Depth :
           ParsedAbove[k] = IF k = Depth THEN ParseStart
                            ELSE ParseLayer(ParsedAbove[k + 1], job.layers[k + 1])
<1> DEFINE Parse(s, i) == ParseLayer(s, job.layers[i])
           Is(d, n) == d = [k \in Depth - n .. Depth |->
                              IF k = Depth THEN ParseStart ELSE Parse(d[k + 1], k + 1)]
           Exist == {n \in Nat : n <= Depth => \E d : Is(d, n)}
<1>0. Depth \in Nat \ {0}
  BY JobFits
<1> HIDE DEF Parse
<1>1. 0 \in Exist
  <2>1. Is([k \in Depth - 0 .. Depth |-> ParseStart], 0)
    BY <1>0
  <2> QED BY <2>1
<1>2. ASSUME NEW n \in Nat, n \in Exist PROVE n + 1 \in Exist
  <2>0. SUFFICES ASSUME n + 1 <= Depth PROVE \E d : Is(d, n + 1)
    OBVIOUS
  <2>1. PICK d : Is(d, n)
    BY <1>0, <1>2, <2>0
  <2> DEFINE top == Depth - n
             e == [k \in Depth - (n + 1) .. Depth |->
                    IF k = Depth THEN ParseStart ELSE Parse(d[k + 1], k + 1)]
             g == [k \in Depth - (n + 1) .. Depth |->
                    IF k = Depth THEN ParseStart ELSE Parse(e[k + 1], k + 1)]
  <2>2. ASSUME NEW k \in top .. Depth PROVE e[k] = d[k]
    <3>1. k \in Depth - (n + 1) .. Depth
      BY <1>0
    <3>2. d[k] = IF k = Depth THEN ParseStart ELSE Parse(d[k + 1], k + 1)
      BY <2>1, Zenon
    <3> QED BY <3>1, <3>2
  <2>3. ASSUME NEW k \in Depth - (n + 1) .. Depth PROVE e[k] = g[k]
    <3>1. k # Depth => k + 1 \in top .. Depth
      BY <1>0
    <3>2. k # Depth => e[k + 1] = d[k + 1]
      BY <2>2, <3>1
    <3> HIDE DEF e
    <3>3. g[k] = IF k = Depth THEN ParseStart ELSE Parse(e[k + 1], k + 1)
      OBVIOUS
    <3> QED BY <3>2, <3>3 DEF e
  <2>4. e = g
    BY <2>3
  <2>5. Is(e, n + 1)
    BY <2>4
  <2> HIDE DEF e, Is
  <2> QED BY <2>5
<1>3. Depth \in Exist
  <2> HIDE DEF Exist
  <2> QED BY <1>0, <1>1, <1>2, SetInduction
<1>4. PICK d : Is(d, Depth)
  BY <1>0, <1>3
<1>5. Depth - Depth = 0
  BY <1>0
<1> DEFINE h == CHOOSE e : e = [k \in 0 .. Depth |->
                                  IF k = Depth THEN ParseStart ELSE Parse(e[k + 1], k + 1)]
<1>6. h = [k \in 0 .. Depth |-> IF k = Depth THEN ParseStart ELSE Parse(h[k + 1], k + 1)]
  BY <1>4, <1>5
<1>7. ParsedAbove = h
  BY DEF ParsedAbove, Parse
<1> HIDE DEF h
<1>8. \A k \in 0 .. Depth : h[k] = IF k = Depth THEN ParseStart ELSE Parse(h[k + 1], k + 1)
  BY <1>6, Zenon
<1> QED BY <1>7, <1>8 DEF Parse

(* The prover is done.                                                     *)
ProofComplete == job \in Jobs /\ IsSeq(proof) /\ Len(proof) = SentAbove(job, 0)

(* What is left of a sequence, and what a unit gets of it.                 *)
LEMMA AfterAt ==
  ASSUME NEW S, NEW s \in Seq(S), NEW n \in Nat, n <= Len(s)
  PROVE  /\ After(s, n) \in Seq(S) /\ Len(After(s, n)) = Len(s) - n
         /\ \A i \in 1 .. Len(s) - n : After(s, n)[i] = s[n + i]
<1> DEFINE m == Len(s) - n
<1>1. m \in Nat /\ n + 1 \in Nat /\ Len(s) \in Nat
  OBVIOUS
<1>2. IF n + 1 <= Len(s) THEN m = Len(s) - (n + 1) + 1 ELSE m = 0
  BY <1>1
<1>3. After(s, n) = [i \in 1 .. m |-> s[n + i]]
  <2>1. After(s, n) = [i \in 1 .. m |-> s[(n + 1) + i - 1]]
    BY <1>1, <1>2, SubSeqProperties DEF After
  <2>2. ASSUME NEW i \in 1 .. m PROVE (n + 1) + i - 1 = n + i
    BY <1>1
  <2> QED BY <2>1, <2>2
<1>4. \A i \in 1 .. m : s[n + i] \in S
  <2>1. ASSUME NEW i \in 1 .. m PROVE n + i \in 1 .. Len(s)
    BY <1>1
  <2> QED BY <2>1
<1> HIDE DEF m
<1>5. After(s, n) \in Seq(S) /\ Len(After(s, n)) = m
  BY <1>1, <1>3, <1>4
<1> QED BY <1>3, <1>5 DEF m

(* A record of the proof is a sequence of messages.                        *)
LEMMA MessagesType ==
  ASSUME IsSeq(proof)
  PROVE  Messages \in Seq(Range(Messages)) /\ Len(Messages) = Len(proof)
<1>1. proof \in Seq(Range(proof))
  BY DEF IsSeq
<1>2. DOMAIN proof = 1 .. Len(proof) /\ Len(proof) \in Nat
  BY <1>1
<1>3. Messages = [i \in 1 .. Len(proof) |-> Message(i)]
  BY <1>2 DEF Messages
<1>4. ASSUME NEW i \in 1 .. Len(proof) PROVE Message(i) \in Range(Messages)
  <2>1. i \in DOMAIN Messages /\ Messages[i] = Message(i)
    BY <1>3
  <2> QED BY <2>1, Zenon DEF Range
<1> QED BY <1>2, <1>3, <1>4

(* Where a layer's coins and messages start, and the coin that weighs the  *)
(* second claim about its inputs.                                          *)
TapeAt(k)    == After(job.coins, DrawnAbove(job)[k])
RecordAt(k)  == After(Messages, SentAbove(job, k))
WeightAt(k)  ==
  LET l == job.layers[k]
  IN IF SkipPhaseTwo(l) THEN None
     ELSE Some(TapeAt(k)[PhaseOneRounds(l) + PhaseTwoRounds(l) + 1])

UnitProof(k) ==
  SubSeq(Messages, SentAbove(job, k) + 1, SentAbove(job, k) + MessagesOf(job.layers[k]))
UnitTape(k) ==
  LET l == job.layers[k]
  IN SubSeq(TapeAt(k), 1, PhaseOneRounds(l) + PhaseTwoRounds(l)) \o WeightAt(k)

(* What a unit has of the proof is what gkr_verify reads for the layer.    *)
LEMMA UnitProofAgrees ==
  ASSUME ProofComplete, NEW k \in 1 .. Depth, NEW count, count = MessagesOf(job.layers[k])
  PROVE  /\ RecordAt(k) \in Seq(Range(Messages)) /\ UnitProof(k) \in Seq(Range(Messages))
         /\ count <= Len(RecordAt(k)) /\ Len(UnitProof(k)) = count
         /\ \A i \in 1 .. count : RecordAt(k)[i] = UnitProof(k)[i]
<1> DEFINE read == SentAbove(job, k)
           all  == Len(Messages)
<1>1. /\ Messages \in Seq(Range(Messages)) /\ all = SentAbove(job, 0)
  BY MessagesType DEF ProofComplete
<1>2. /\ read \in Nat /\ count \in Nat /\ SentAbove(job, k - 1) = read + count
      /\ SentAbove(job, k - 1) <= SentAbove(job, 0) /\ SentAbove(job, 0) \in Nat
  <2>1. Depth \in Nat \ {0}
    BY JobFits DEF ProofComplete
  <2>2. k \in 0 .. Depth /\ k - 1 \in 0 .. Depth /\ 0 \in 0 .. Depth
    BY <2>1
  <2> QED BY <2>2, SentAboveType DEF ProofComplete
<1> HIDE DEF read, all
<1>3. read <= all /\ count <= all - read /\ read + count <= all /\ all \in Nat
  BY <1>1, <1>2
<1>4. /\ RecordAt(k) \in Seq(Range(Messages)) /\ Len(RecordAt(k)) = all - read
      /\ \A i \in 1 .. all - read : RecordAt(k)[i] = Messages[read + i]
  BY <1>1, <1>2, <1>3, AfterAt DEF RecordAt, read, all
<1>5. UnitProof(k) = SubSeq(Messages, read + 1, read + count)
  BY DEF UnitProof, read
<1>6. IF read + 1 <= read + count THEN (read + count) - (read + 1) + 1 = count ELSE count = 0
  BY <1>2
<1>7. /\ UnitProof(k) \in Seq(Range(Messages)) /\ Len(UnitProof(k)) = count
      /\ \A i \in 1 .. count : UnitProof(k)[i] = Messages[(read + 1) + i - 1]
  <2>1. UnitProof(k) = [i \in 1 .. count |-> Messages[(read + 1) + i - 1]]
    BY <1>2, <1>5, SliceIs
  <2>2. ASSUME NEW i \in 1 .. count PROVE Messages[(read + 1) + i - 1] \in Range(Messages)
    <3>1. (read + 1) + i - 1 \in 1 .. all
      BY <1>2, <1>3
    <3>2. (read + 1) + i - 1 \in DOMAIN Messages
      BY <1>1, <3>1 DEF all
    <3> QED BY <3>2, Zenon DEF Range
  <2>3. /\ UnitProof(k) = [i \in 1 .. count |-> UnitProof(k)[i]]
        /\ \A i \in 1 .. count : UnitProof(k)[i] = Messages[(read + 1) + i - 1]
    BY ONLY <2>1
  <2>4. \A i \in 1 .. count : UnitProof(k)[i] \in Range(Messages)
    BY <2>2, <2>3, Zenon
  <2>5. UnitProof(k) \in Seq(Range(Messages)) /\ Len(UnitProof(k)) = count
    BY <1>2, <2>3, <2>4, FunctionIsSeq, SMTT(60)
  <2> QED BY <2>3, <2>5
<1>8. ASSUME NEW i \in 1 .. count
      PROVE  RecordAt(k)[i] = UnitProof(k)[i]
  <2>1. (read + 1) + i - 1 = read + i /\ i \in 1 .. all - read
    BY <1>2, <1>3
  <2> QED BY <1>4, <1>7, <2>1
<1> QED BY <1>3, <1>4, <1>7, <1>8

(* And its tape has the coins that gkr_verify draws.                       *)
LEMMA UnitTapeAgrees ==
  ASSUME job \in Jobs, NEW k \in 1 .. Depth, NEW l, l = job.layers[k],
         NEW draws, draws = PhaseOneRounds(l) + PhaseTwoRounds(l)
  PROVE  /\ TapeAt(k) \in Seq(Field) /\ UnitTape(k) \in Seq(Field)
         /\ draws <= Len(TapeAt(k)) /\ draws <= Len(UnitTape(k))
         /\ \A i \in 1 .. draws : TapeAt(k)[i] = UnitTape(k)[i]
         /\ draws \in Nat /\ \A i \in 1 .. draws : TapeAt(k)[i] = job.coins[DrawnAbove(job)[k] + i]
         /\ ~SkipPhaseTwo(l) =>
              TapeAt(k)[draws + 1] = job.coins[DrawnAbove(job)[k] + draws + 1]
<1> DEFINE used  == DrawnAbove(job)[k]
           coins == job.coins
           extra == IF SkipPhaseTwo(l) THEN 0 ELSE 1
           tape  == TapeAt(k)
<1>1. Depth \in Nat \ {0} /\ k \in 0 .. Depth /\ k - 1 \in 0 .. Depth /\ 0 \in 0 .. Depth
  BY JobFits
<1>2. /\ used \in Nat /\ LayerDraws(job, l) \in Nat
      /\ DrawnAbove(job)[k - 1] = used + LayerDraws(job, l)
      /\ DrawnAbove(job)[k - 1] <= DrawnAbove(job)[0] /\ DrawnAbove(job)[0] \in Nat
  BY <1>1, DrawnAboveType
<1>3. coins \in Seq(Field) /\ DrawnAbove(job)[0] <= Len(coins)
  BY JobFits
<1>4. draws \in Nat /\ LayerDraws(job, l) = draws + extra
  <2>1. l.ivars \in Nat /\ job.simd \in Nat /\ job.mpi \in Nat
    BY JobFits
  <2> DEFINE x == l.ivars
  <2>2. LayerDraws(job, l) = x + job.simd + job.mpi + (IF SkipPhaseTwo(l) THEN 0 ELSE x + 1)
    BY DEF LayerDraws
  <2>3. draws = x + job.simd + job.mpi + (IF SkipPhaseTwo(l) THEN 0 ELSE x)
    BY DEF PhaseOneRounds, PhaseTwoRounds
  <2> HIDE DEF x
  <2>4. x \in Nat
    BY <2>1 DEF x
  <2> QED BY <2>1, <2>2, <2>3, <2>4
<1> HIDE DEF used, coins, tape
<1>5. used <= Len(coins) /\ draws + extra <= Len(coins) - used /\ Len(coins) \in Nat
  BY <1>2, <1>3, <1>4
<1>6. /\ tape \in Seq(Field) /\ Len(tape) = Len(coins) - used
      /\ \A i \in 1 .. Len(coins) - used : tape[i] = coins[used + i]
  BY <1>2, <1>3, <1>5, AfterAt, ZenonT(60) DEF TapeAt, used, coins, tape
<1>7. draws <= Len(tape) /\ Len(tape) \in Nat
  BY <1>4, <1>5, <1>6
<1>8. ASSUME ~SkipPhaseTwo(l)
      PROVE  tape[draws + 1] = coins[used + draws + 1] /\ draws + 1 \in 1 .. Len(tape)
  <2>1. draws + 1 \in 1 .. Len(coins) - used /\ used + (draws + 1) = used + draws + 1
    BY <1>2, <1>4, <1>5, <1>8
  <2> QED BY <1>6, <2>1
<1>9. WeightAt(k) \in Seq(Field)
  <2>1. WeightAt(k) = IF SkipPhaseTwo(l) THEN <<>> ELSE <<tape[draws + 1]>>
    BY DEF WeightAt, None, Some, tape
  <2>2. CASE SkipPhaseTwo(l)
    BY <2>1, <2>2
  <2>3. CASE ~SkipPhaseTwo(l)
    <3>1. tape[draws + 1] \in Field
      BY <1>6, <1>8, <2>3, ElementOfSeq
    <3> QED BY <2>1, <2>3, <3>1
  <2> QED BY <2>2, <2>3
<1>10. /\ SubSeq(tape, 1, draws) \in Seq(Field) /\ Len(SubSeq(tape, 1, draws)) = draws
       /\ \A i \in 1 .. draws : SubSeq(tape, 1, draws)[i] = tape[i]
  <2>1. SubSeq(tape, 1, draws) = [i \in 1 .. draws |-> tape[i]]
    <3>1. SubSeq(tape, 1, draws) = [i \in 1 .. draws |-> tape[1 + i - 1]]
      BY <1>4, SubSeqProperties
    <3>2. ASSUME NEW i \in 1 .. draws PROVE 1 + i - 1 = i
      BY <1>4
    <3> QED BY <3>1, <3>2
  <2>2. \A i \in 1 .. draws : tape[i] \in Field
    BY <1>4, <1>6, <1>7
  <2> QED BY <1>4, <2>1, <2>2
<1>11. UnitTape(k) = SubSeq(tape, 1, draws) \o WeightAt(k)
  BY DEF UnitTape, tape
<1>12. /\ UnitTape(k) \in Seq(Field) /\ draws <= Len(UnitTape(k))
       /\ \A i \in 1 .. draws : UnitTape(k)[i] = tape[i]
  BY <1>4, <1>9, <1>10, <1>11
<1>13. \A i \in 1 .. draws : tape[i] = coins[used + i]
  BY <1>4, <1>5, <1>6
<1> QED BY <1>4, <1>6, <1>7, <1>8, <1>12, <1>13 DEF tape, coins, used

(* The challenge at which the inputs of layer k are claimed.               *)
InputChallenge(k) ==
  LET l == job.layers[k]
      t == TapeAt(k)
      n == PhaseOneRounds(l)
  IN [rz_0   |-> SubSeq(t, 1, l.ivars),
      rz_1   |-> IF SkipPhaseTwo(l) THEN None ELSE Some(SubSeq(t, n + 1, n + PhaseTwoRounds(l))),
      r_simd |-> SubSeq(t, l.ivars + 1, l.ivars + job.simd),
      r_mpi  |-> SubSeq(t, l.ivars + job.simd + 1, n)]

UnitClaim(k) ==
  LET l == job.layers[k]
  IN [x |-> UnitProof(k)[PhaseOneRounds(l) + 1][1],
      y |-> IF SkipPhaseTwo(l) THEN None ELSE Some(UnitProof(k)[MessagesOf(l)][1])]

UnitFrom(s, k) ==
  [tape |-> UnitTape(k), proof |-> UnitProof(k), challenge |-> s.challenge, claim |-> s.claim,
   alpha |-> s.alpha]

(* One layer parsed.                                                       *)
LEMMA ParsedNext ==
  ASSUME ProofComplete, NEW k \in 1 .. Depth, NEW s, s = ParsedAbove[k],
         s.drawn = DrawnAbove(job)[k], s.read = SentAbove(job, k)
  PROVE  ParsedAbove[k - 1] =
           [units |-> << UnitFrom(s, k) >> \o s.units,
            read  |-> SentAbove(job, k - 1), drawn |-> DrawnAbove(job)[k - 1],
            alpha |-> WeightAt(k), claim |-> UnitClaim(k), challenge |-> InputChallenge(k)]
<1> DEFINE l     == job.layers[k]
           n     == PhaseOneRounds(l)
           draws == n + PhaseTwoRounds(l)
           t     == TapeAt(k)
           m     == UnitProof(k)
           next  == WeightAt(k)
<1>0. job \in Jobs
  BY DEF ProofComplete
<1>1. Depth \in Nat \ {0} /\ k - 1 \in 0 .. Depth /\ k - 1 # Depth /\ (k - 1) + 1 = k
  BY <1>0, JobFits
<1>2. ParsedAbove[k - 1] = ParseLayer(s, l)
  BY <1>0, <1>1, ParsedAboveUnfolds
<1>3. /\ t = After(job.coins, s.drawn)
      /\ m = SubSeq(Messages, s.read + 1, s.read + MessagesOf(l))
      /\ next = IF SkipPhaseTwo(l) THEN None ELSE Some(t[draws + 1])
      /\ UnitTape(k) = SubSeq(t, 1, draws) \o next
  BY DEF TapeAt, UnitProof, UnitTape, WeightAt
<1>4. Len(m) = MessagesOf(l)
  BY UnitProofAgrees
<1>5. /\ Len(next) = IF SkipPhaseTwo(l) THEN 0 ELSE 1
  BY <1>3 DEF None, Some
<1>6. s.read + Len(m) = SentAbove(job, k - 1)
  BY <1>0, <1>4, SentAboveType
<1>7. s.drawn + draws + Len(next) = DrawnAbove(job)[k - 1]
  <2> DEFINE x == l.ivars
             y == job.simd
             z == job.mpi
             used == DrawnAbove(job)[k]
  <2>1. x \in Nat /\ y \in Nat /\ z \in Nat
    BY <1>0, JobFits
  <2>2. LayerDraws(job, l) = x + y + z + (IF SkipPhaseTwo(l) THEN 0 ELSE x + 1)
    BY DEF LayerDraws
  <2>3. draws = x + y + z + (IF SkipPhaseTwo(l) THEN 0 ELSE x)
    BY DEF PhaseOneRounds, PhaseTwoRounds
  <2>4. used \in Nat /\ DrawnAbove(job)[k - 1] = used + LayerDraws(job, l)
    BY <1>0, <1>1, DrawnAboveType
  <2> HIDE DEF x, y, z, used, draws, next
  <2>5. used + draws + Len(next) = used + LayerDraws(job, l)
    BY <1>5, <2>1, <2>2, <2>3, <2>4
  <2> QED BY <2>4, <2>5 DEF used
<1>8. ParseLayer(s, l) =
        [units |-> << [tape |-> SubSeq(t, 1, draws) \o next, proof |-> m,
                       challenge |-> s.challenge, claim |-> s.claim, alpha |-> s.alpha] >> \o s.units,
         read  |-> s.read + Len(m),
         drawn |-> s.drawn + draws + Len(next),
         alpha |-> next,
         claim |-> [x |-> m[n + 1][1],
                    y |-> IF SkipPhaseTwo(l) THEN None ELSE Some(m[Len(m)][1])],
         challenge |-> [rz_0   |-> SubSeq(t, 1, l.ivars),
                        rz_1   |-> IF SkipPhaseTwo(l) THEN None ELSE Some(SubSeq(t, n + 1, draws)),
                        r_simd |-> SubSeq(t, l.ivars + 1, l.ivars + job.simd),
                        r_mpi  |-> SubSeq(t, l.ivars + job.simd + 1, n)]]
  <2> HIDE DEF t, m, next, l
  <2> QED BY <1>3 DEF ParseLayer, AlphaPosition
<1>9. /\ UnitFrom(s, k) = [tape |-> SubSeq(t, 1, draws) \o next, proof |-> m,
                           challenge |-> s.challenge, claim |-> s.claim, alpha |-> s.alpha]
      /\ UnitClaim(k) = [x |-> m[n + 1][1],
                         y |-> IF SkipPhaseTwo(l) THEN None ELSE Some(m[Len(m)][1])]
  BY <1>3, <1>4 DEF UnitFrom, UnitClaim
<1>10. InputChallenge(k) =
         [rz_0   |-> SubSeq(t, 1, l.ivars),
          rz_1   |-> IF SkipPhaseTwo(l) THEN None ELSE Some(SubSeq(t, n + 1, draws)),
          r_simd |-> SubSeq(t, l.ivars + 1, l.ivars + job.simd),
          r_mpi  |-> SubSeq(t, l.ivars + job.simd + 1, n)]
  BY DEF InputChallenge
<1>11. next = WeightAt(k)
  OBVIOUS
<1> HIDE DEF t, m, next, draws, n, l
<1> QED BY <1>2, <1>6, <1>7, <1>8, <1>9, <1>10, <1>11

(* At every layer, parse_proof is where the prover was.                    *)
ParsedPlace(k) ==
  LET s == ParsedAbove[k] IN
  /\ s.drawn = DrawnAbove(job)[k] /\ s.read = SentAbove(job, k)
  /\ s.units = [i \in 1 .. Depth - k |-> UnitAt(k + i)]

(* By induction from the output layer down.                                *)
LEMMA ParsedPlaces ==
  ASSUME ProofComplete
  PROVE  \A k \in 0 .. Depth : ParsedPlace(k)
<1> DEFINE S == {i \in Nat : i <= Depth => ParsedPlace(Depth - i)}
<1>0. job \in Jobs
  BY DEF ProofComplete
<1>1. Depth \in Nat \ {0}
  BY <1>0, JobFits
<1>2. 0 \in S
  <2>1. ParsedAbove[Depth] = ParseStart
    BY <1>0, <1>1, ParsedAboveUnfolds
  <2>2. DrawnAbove(job)[Depth] = OutputDraws /\ SentAbove(job, Depth) = 0
    BY <1>0, DrawnAboveType, SentAboveType
  <2>3. [i \in 1 .. Depth - Depth |-> UnitAt(Depth + i)] = <<>> /\ Depth - 0 = Depth
    BY <1>1
  <2>4. ParsedPlace(Depth)
    BY <2>1, <2>2, <2>3 DEF ParsedPlace, ParseStart
  <2> QED BY <2>3, <2>4
<1>3. ASSUME NEW i \in Nat, i \in S PROVE i + 1 \in S
  <2>1. SUFFICES ASSUME i + 1 <= Depth PROVE ParsedPlace(Depth - (i + 1))
    OBVIOUS
  <2> DEFINE k == Depth - i
             s == ParsedAbove[k]
  <2>2. k \in 1 .. Depth /\ Depth - (i + 1) = k - 1
    BY <1>1, <2>1
  <2>3. ParsedPlace(k)
    BY <1>1, <1>3, <2>1
  <2> HIDE DEF k, S
  <2>4. /\ s.drawn = DrawnAbove(job)[k] /\ s.read = SentAbove(job, k)
        /\ s.units = [j \in 1 .. Depth - k |-> UnitAt(k + j)]
    BY <2>3 DEF ParsedPlace
  <2>5. /\ ParsedAbove[k - 1].units = << UnitFrom(s, k) >> \o s.units
        /\ ParsedAbove[k - 1].read = SentAbove(job, k - 1)
        /\ ParsedAbove[k - 1].drawn = DrawnAbove(job)[k - 1]
    <3>1. ParsedAbove[k - 1] =
            [units |-> << UnitFrom(s, k) >> \o s.units,
             read  |-> SentAbove(job, k - 1), drawn |-> DrawnAbove(job)[k - 1],
             alpha |-> WeightAt(k), claim |-> UnitClaim(k), challenge |-> InputChallenge(k)]
      BY <2>2, <2>4, ParsedNext, Zenon
    <3> QED BY <3>1
  <2> DEFINE Us == {UnitAt(j) : j \in 1 .. Depth}
             rest == [j \in 1 .. Depth - k |-> UnitAt(k + j)]
  <2>6. rest \in Seq(Us) /\ Len(rest) = Depth - k /\ Depth - k \in Nat
    <3>1. ASSUME NEW j \in 1 .. Depth - k PROVE UnitAt(k + j) \in Us
      <4>1. k + j \in 1 .. Depth
        BY <1>1, <2>2
      <4> QED BY <4>1
    <3>2. Depth - k \in Nat
      BY <1>1, <2>2
    <3> HIDE DEF Us
    <3> QED BY <3>1, <3>2
  <2> HIDE DEF Us, s
  <2>7. ParsedAbove[k - 1].units[1] = UnitFrom(s, k)
    <3> HIDE DEF rest
    <3>1. (<< UnitFrom(s, k) >> \o rest)[1] = UnitFrom(s, k)
      BY <2>6, ConcatProperties
    <3> QED BY <2>4, <2>5, <3>1 DEF rest
  <2>8. UnitAt(k) = UnitFrom(s, k)
    BY <2>7 DEF UnitAt
  <2>9. << UnitFrom(s, k) >> \o rest = [j \in 1 .. Depth - (k - 1) |-> UnitAt((k - 1) + j)]
    <3> DEFINE one == << UnitFrom(s, k) >>
               all == [j \in 1 .. Depth - (k - 1) |-> UnitAt((k - 1) + j)]
    <3>1. /\ Depth - (k - 1) = 1 + (Depth - k) /\ Depth - (k - 1) \in Nat
      BY <1>1, <2>2
    <3>2. one \o rest = [j \in 1 .. 1 + (Depth - k) |-> IF j <= 1 THEN one[j] ELSE rest[j - 1]]
      BY <2>6, <3>1
    <3>3. ASSUME NEW j \in 1 .. 1 + (Depth - k)
          PROVE  (IF j <= 1 THEN one[j] ELSE rest[j - 1]) = UnitAt((k - 1) + j)
      <4>1. CASE j <= 1
        <5>1. j = 1 /\ (k - 1) + j = k
          BY <2>2, <4>1
        <5> QED BY <2>8, <4>1, <5>1
      <4>2. CASE ~(j <= 1)
        <5>1. j - 1 \in 1 .. Depth - k /\ k + (j - 1) = (k - 1) + j
          BY <1>1, <2>2, <4>2
        <5>2. rest[j - 1] = UnitAt(k + (j - 1))
          BY <5>1
        <5> QED BY <4>2, <5>1, <5>2
      <4> QED BY <4>1, <4>2
    <3> HIDE DEF rest, one
    <3> QED BY <3>1, <3>2, <3>3 DEF one
  <2> QED BY <2>2, <2>4, <2>5, <2>9 DEF ParsedPlace
<1>4. Nat \subseteq S
  <2> HIDE DEF S
  <2> QED BY <1>2, <1>3, SetInduction
<1>5. ASSUME NEW k \in 0 .. Depth PROVE ParsedPlace(k)
  <2>1. Depth - k \in Nat /\ Depth - k <= Depth /\ Depth - (Depth - k) = k
    BY <1>1
  <2> QED BY <1>4, <2>1
<1> QED BY <1>5

-----------------------------------------------------------------------------
(* What an Option holds.                                                   *)
LEMMA SomeElement == ASSUME NEW v PROVE Some(v)[1] = v
BY DEF Some

(* A slice is as long as its bounds say.                                   *)
LEMMA SliceLength ==
  ASSUME NEW s, NEW a \in Nat, NEW n \in Nat
  PROVE  Len(SubSeq(s, a + 1, a + n)) = n
<1>1. Len(SubSeq(s, a + 1, a + n)) = IF a + 1 <= a + n THEN (a + n) - (a + 1) + 1 ELSE 0
  BY SubSeqProperties
<1> QED BY <1>1

(* The points at which a layer's outputs are claimed have its variables,   *)
(* and there are two points exactly when there is a weight.                *)
LEMMA ChallengesFit ==
  ASSUME ProofComplete, NEW k \in 1 .. Depth, NEW s, s = ParsedAbove[k]
  PROVE  /\ Len(s.challenge.rz_0) = job.layers[k].ovars
         /\ s.alpha # None => Len(s.challenge.rz_1[1]) = job.layers[k].ovars
         /\ k = Depth => s.alpha = None
<1>0. job \in Jobs
  BY DEF ProofComplete
<1>1. Depth \in Nat \ {0} /\ k \in 0 .. Depth
  BY <1>0, JobFits
<1>2. CASE k = Depth
  <2>1. s = ParseStart
    BY <1>0, <1>1, <1>2, ParsedAboveUnfolds
  <2> DEFINE rz == job.layers[Depth].ovars
  <2>2. s.alpha = None /\ s.challenge = OutputChallenge
    BY <2>1 DEF ParseStart
  <2>3. s.challenge.rz_0 = SubSeq(job.coins, 1, rz)
    <3>1. OutputChallenge.rz_0 = SubSeq(job.coins, 1, rz)
      BY DEF OutputChallenge
    <3> QED BY <2>2, <3>1, Zenon
  <2>4. rz \in Nat /\ 0 + 1 = 1 /\ 0 + rz = rz
    BY <1>0, <1>1, JobFits
  <2> HIDE DEF rz
  <2>5. Len(SubSeq(job.coins, 1, rz)) = rz
    BY <2>4, SliceLength
  <2> QED BY <1>2, <2>2, <2>3, <2>5 DEF rz
<1>3. CASE k # Depth
  <2> DEFINE above == k + 1
             l == job.layers[above]
             n == PhaseOneRounds(l)
             x == l.ivars
  <2>1. above \in 1 .. Depth /\ above \in 0 .. Depth /\ above - 1 = k
    BY <1>1, <1>3
  <2>2. ParsedPlace(above)
    BY <2>1, ParsedPlaces
  <2> HIDE DEF above
  <2>3. s = [units |-> << UnitFrom(ParsedAbove[above], above) >> \o ParsedAbove[above].units,
             read  |-> SentAbove(job, above - 1), drawn |-> DrawnAbove(job)[above - 1],
             alpha |-> WeightAt(above), claim |-> UnitClaim(above),
             challenge |-> InputChallenge(above)]
    <3>1. /\ ParsedAbove[above].drawn = DrawnAbove(job)[above]
          /\ ParsedAbove[above].read = SentAbove(job, above)
      BY <2>2 DEF ParsedPlace
    <3>2. ParsedAbove[above - 1] =
            [units |-> << UnitFrom(ParsedAbove[above], above) >> \o ParsedAbove[above].units,
             read  |-> SentAbove(job, above - 1), drawn |-> DrawnAbove(job)[above - 1],
             alpha |-> WeightAt(above), claim |-> UnitClaim(above),
             challenge |-> InputChallenge(above)]
      BY <2>1, <3>1, ParsedNext, Zenon
    <3> QED BY <2>1, <3>2
  <2>4. s.alpha = WeightAt(above) /\ s.challenge = InputChallenge(above)
    BY <2>3
  <2>5. x = job.layers[k].ovars
    <3>1. LayerFits(job, k) /\ k < Len(job.layers)
      BY <1>0, <1>1, <1>3, JobFits DEF Depth
    <3>2. k + 1 = above
      BY <1>1, <2>1
    <3> QED BY <3>1, <3>2 DEF LayerFits
  <2>6. x \in Nat /\ n \in Nat
    <3>1. job.layers[above].ivars \in Nat /\ job.simd \in Nat /\ job.mpi \in Nat
      BY <1>0, <2>1, JobFits
    <3> DEFINE v == job.layers[above].ivars
               y == job.simd
               z == job.mpi
    <3>2. n = v + y + z
      BY DEF PhaseOneRounds
    <3>3. v \in Nat /\ y \in Nat /\ z \in Nat
      BY <3>1
    <3> HIDE DEF v, y, z, n
    <3>4. n \in Nat
      BY <3>2, <3>3
    <3> QED BY <3>1, <3>4
  <2>7. s.challenge.rz_0 = SubSeq(TapeAt(above), 1, x)
    <3>1. InputChallenge(above).rz_0 = SubSeq(TapeAt(above), 1, x)
      BY DEF InputChallenge
    <3> QED BY <2>4, <3>1, Zenon
  <2>8. s.alpha # None => s.challenge.rz_1[1] = SubSeq(TapeAt(above), n + 1, n + x)
    <3>1. SUFFICES ASSUME s.alpha # None
                   PROVE  s.challenge.rz_1[1] = SubSeq(TapeAt(above), n + 1, n + x)
      OBVIOUS
    <3>2. ~SkipPhaseTwo(l)
      BY <2>4, <3>1 DEF WeightAt
    <3>3. InputChallenge(above).rz_1 = Some(SubSeq(TapeAt(above), n + 1, n + x))
      BY <3>2 DEF InputChallenge, PhaseTwoRounds
    <3>4. s.challenge.rz_1 = Some(SubSeq(TapeAt(above), n + 1, n + x))
      BY <2>4, <3>3, Zenon
    <3>5. Some(SubSeq(TapeAt(above), n + 1, n + x))[1] = SubSeq(TapeAt(above), n + 1, n + x)
      BY SomeElement
    <3> QED BY <3>4, <3>5, Zenon
  <2> HIDE DEF x, n
  <2>9. Len(SubSeq(TapeAt(above), 1, x)) = x /\ Len(SubSeq(TapeAt(above), n + 1, n + x)) = x
    <3>1. 0 + 1 = 1 /\ 0 + x = x /\ 0 \in Nat
      BY <2>6
    <3> QED BY <2>6, <3>1, SliceLength
  <2> QED BY <1>3, <2>5, <2>7, <2>8, <2>9
<1> QED BY <1>2, <1>3

(* eq(rz, .) with the two claims of a layer weighed, as prepare_layer and  *)
(* prepare_layer_non_sequential compute it.                                *)
LEMMA WeightedSumAt ==
  ASSUME NEW l, NEW t, NEW a, NEW u, NEW i \in DOMAIN t, i \in Places(l.ovars), l.ovars \in Nat
  PROVE  WeightedSum(l, t, a, u)[i] = (t[i] + a * u[i]) % P
<1>1. i < 2^l.ovars
  BY DEF Places
<1> QED BY <1>1 DEF WeightedSum

(* Reused or computed anew, the prepared tables are the same to the layer. *)
LEMMA PadsPrepared ==
  ASSUME ProofComplete, NEW k \in 1 .. Depth, NEW s, s = ParsedAbove[k],
         NEW l, l = job.layers[k], NEW pad, TablesLeft(pad, k)
  PROVE  LET p == PrepareLayer(l, s.alpha, s.challenge, pad, k = Depth)
             q == PrepareLayerNonSequential(l, s.alpha, s.challenge, NewVerifierScratchPad)
         IN /\ PadsAgree(l, p, q)
            /\ DOMAIN p.rz0 = TablePlaces(job) /\ DOMAIN p.rx = TablePlaces(job)
            /\ DOMAIN p.ry = TablePlaces(job)
<1> DEFINE ch    == s.challenge
           a     == s.alpha
           new   == NewVerifierScratchPad
           eqz   == EqEvalAt(ch.rz_0, 1)
           eqy   == EqEvalAt(ch.rz_1[1], 1)
           first == IF k = Depth THEN eqz ELSE [i \in 0 .. 2^Len(ch.rz_0) - 1 |-> pad.rx[i]]
           rzs   == WriteTable(pad.rz0, first)
           rzn   == WriteTable(new.rz0, eqz)
           rxn   == WriteTable(new.rx, eqy)
           rz0p  == IF k # Depth /\ a # None THEN WeightedSum(l, rzs, a[1], pad.ry) ELSE rzs
           rz0q  == IF a = None THEN rzn ELSE WeightedSum(l, rzn, a[1], rxn)
           p     == PrepareLayer(l, a, ch, pad, k = Depth)
           q     == PrepareLayerNonSequential(l, a, ch, new)
<1>0. job \in Jobs
  BY DEF ProofComplete
<1>1. /\ l.ovars \in Nat /\ Places(l.ivars) \subseteq TablePlaces(job)
      /\ Places(l.ovars) \subseteq TablePlaces(job)
  <2>1. LayerFits(job, k)
    BY <1>0, JobFits
  <2> QED BY <2>1 DEF LayerFits
<1>2. /\ Len(ch.rz_0) = l.ovars /\ a # None => Len(ch.rz_1[1]) = l.ovars
  BY ChallengesFit
<1>3. a # None => Len(ch.rz_1[1]) = l.ovars
  BY ChallengesFit
<1>4. k = Depth => a = None
  BY ChallengesFit
<1>5. Len(ch.rz_0) = l.ovars
  BY ChallengesFit
<1>6. /\ DOMAIN new = PadFields /\ DOMAIN new.rz0 = TablePlaces(job)
      /\ DOMAIN new.rx = TablePlaces(job) /\ DOMAIN new.ry = TablePlaces(job)
  BY DEF NewVerifierScratchPad, PadFields
<1>7. /\ DOMAIN pad = PadFields /\ DOMAIN pad.rz0 = TablePlaces(job)
      /\ DOMAIN pad.rx = TablePlaces(job) /\ DOMAIN pad.ry = TablePlaces(job)
      /\ k < Depth => \A i \in Places(l.ovars) : pad.rx[i] = eqz[i]
      /\ a # None => \A i \in Places(l.ovars) : pad.ry[i] = eqy[i]
  BY <1>3, <1>5 DEF TablesLeft
<1> HIDE DEF new
<1>8. /\ DOMAIN rzs = TablePlaces(job) /\ DOMAIN rzn = TablePlaces(job)
      /\ DOMAIN rxn = TablePlaces(job)
  BY <1>6, <1>7 DEF WriteTable
<1>9. DOMAIN rz0p = TablePlaces(job) /\ DOMAIN rz0q = TablePlaces(job)
  <2> HIDE DEF rzs, rzn, rxn
  <2> QED BY <1>8 DEF WeightedSum
<1>10. ASSUME NEW i \in Places(l.ovars)
       PROVE  rz0p[i] = rz0q[i]
  <2>1. i \in TablePlaces(job)
    BY <1>1
  <2>2. rzn[i] = eqz[i]
    <3>1. i \in Places(Len(ch.rz_0)) /\ i \in DOMAIN new.rz0
      BY <1>5, <1>6, <2>1
    <3> QED BY <3>1, EqTableAt
  <2>3. rzs[i] = eqz[i]
    <3>1. CASE k = Depth
      <4>1. i \in Places(Len(ch.rz_0)) /\ i \in DOMAIN pad.rz0
        BY <1>5, <1>7, <2>1
      <4>2. WriteTable(pad.rz0, eqz)[i] = eqz[i]
        BY <4>1, EqTableAt
      <4> QED BY <3>1, <4>2
    <3>2. CASE k # Depth
      <4>1. k < Depth
        BY <1>0, <3>2, JobFits
      <4>2. i \in DOMAIN [j \in 0 .. 2^Len(ch.rz_0) - 1 |-> pad.rx[j]]
        BY <1>5 DEF Places
      <4>3. rzs[i] = pad.rx[i]
        BY <1>7, <2>1, <3>2, <4>2 DEF WriteTable
      <4> QED BY <1>7, <4>1, <4>3
    <3> QED BY <3>1, <3>2
  <2>4. CASE a = None
    <3> HIDE DEF rzs, rzn
    <3> QED BY <2>2, <2>3, <2>4
  <2>5. CASE a # None
    <3>1. pad.ry[i] = eqy[i]
      BY <1>7, <2>5
    <3>2. rxn[i] = eqy[i]
      <4>1. i \in Places(Len(ch.rz_1[1])) /\ i \in DOMAIN new.rx
        BY <1>3, <1>6, <2>1, <2>5
      <4> QED BY <4>1, EqTableAt
    <3> HIDE DEF rzs, rzn, rxn, eqz, eqy
    <3>3. /\ WeightedSum(l, rzs, a[1], pad.ry)[i] = (rzs[i] + a[1] * pad.ry[i]) % P
          /\ WeightedSum(l, rzn, a[1], rxn)[i] = (rzn[i] + a[1] * rxn[i]) % P
      BY <1>1, <1>8, <2>1, WeightedSumAt
    <3> QED BY <1>4, <2>2, <2>3, <2>5, <3>1, <3>2, <3>3
  <2> QED BY <2>4, <2>5
<1> HIDE DEF ch, a
<1>11. p = SetClaimTables([pad EXCEPT !.rz0 = rz0p], ch)
  BY DEF PrepareLayer
<1>12. q = SetClaimTables(IF a = None THEN [new EXCEPT !.rz0 = rzn]
                          ELSE [new EXCEPT !.rx = rxn, !.rz0 = rz0q], ch)
  BY DEF PrepareLayerNonSequential
<1> HIDE DEF rz0p, p, q, rxn, rzn
<1>13. /\ DOMAIN p = PadFields /\ p.rz0 = rz0p /\ p.rx = pad.rx /\ p.ry = pad.ry
       /\ p.simd = EqEvalAt(ch.r_simd, 1) /\ p.mpi = EqEvalAt(ch.r_mpi, 1)
       /\ p.r_simd = ch.r_simd /\ p.r_mpi = ch.r_mpi
  BY <1>7, <1>11 DEF SetClaimTables, PadFields
<1>14. /\ DOMAIN q = PadFields /\ q.rz0 = rz0q /\ q.ry = new.ry
       /\ DOMAIN q.rx = TablePlaces(job)
       /\ q.simd = EqEvalAt(ch.r_simd, 1) /\ q.mpi = EqEvalAt(ch.r_mpi, 1)
       /\ q.r_simd = ch.r_simd /\ q.r_mpi = ch.r_mpi
  <2>1. CASE a = None
    BY <1>6, <1>12, <2>1 DEF SetClaimTables, PadFields
  <2>2. CASE a # None
    BY <1>6, <1>8, <1>12, <2>2 DEF SetClaimTables, PadFields
  <2> QED BY <2>1, <2>2
<1> HIDE DEF rz0q
<1>15. HasRoom(l, p) /\ HasRoom(l, q)
  BY <1>1, <1>6, <1>7, <1>13, <1>14 DEF HasRoom
<1>16. PadsAgree(l, p, q)
  BY <1>10, <1>13, <1>14, <1>15 DEF PadsAgree
<1>17. /\ DOMAIN p.rz0 = TablePlaces(job) /\ DOMAIN p.rx = TablePlaces(job)
       /\ DOMAIN p.ry = TablePlaces(job)
  BY <1>7, <1>9, <1>13
<1> QED BY <1>16, <1>17 DEF p, q, ch, a, new

(* What the layer k leaves: the claims that parse_proof expects for the    *)
(* layer below, and the tables for it.                                     *)
LEMMA ParsedBelow ==
  ASSUME ProofComplete, NEW k \in 1 .. Depth
  PROVE  /\ ParsedAbove[k - 1].challenge = InputChallenge(k)
         /\ ParsedAbove[k - 1].claim = UnitClaim(k)
         /\ ParsedAbove[k - 1].alpha = WeightAt(k)
         /\ ParsedAbove[k - 1].read = ParsedAbove[k].read + MessagesOf(job.layers[k])
         /\ ParsedAbove[k - 1].drawn = ParsedAbove[k].drawn + LayerDraws(job, job.layers[k])
         /\ ParsedAbove[k].read = SentAbove(job, k) /\ ParsedAbove[k].drawn = DrawnAbove(job)[k]
         /\ UnitAt(k) = UnitFrom(ParsedAbove[k], k)
<1> DEFINE s == ParsedAbove[k]
           below == ParsedAbove[k - 1]
<1>0. job \in Jobs
  BY DEF ProofComplete
<1>1. Depth \in Nat \ {0} /\ k \in 0 .. Depth /\ k - 1 \in 0 .. Depth
  BY <1>0, JobFits
<1>2. s.drawn = DrawnAbove(job)[k] /\ s.read = SentAbove(job, k)
  BY <1>1, ParsedPlaces DEF ParsedPlace
<1>3. below = [units |-> << UnitFrom(s, k) >> \o s.units,
               read  |-> SentAbove(job, k - 1), drawn |-> DrawnAbove(job)[k - 1],
               alpha |-> WeightAt(k), claim |-> UnitClaim(k), challenge |-> InputChallenge(k)]
  BY <1>2, ParsedNext, Zenon
<1>4. /\ SentAbove(job, k - 1) = SentAbove(job, k) + MessagesOf(job.layers[k])
      /\ DrawnAbove(job)[k - 1] = DrawnAbove(job)[k] + LayerDraws(job, job.layers[k])
  BY <1>0, SentAboveType, DrawnAboveType
<1>5. UnitAt(k) = UnitFrom(s, k)
  <2> DEFINE units == [i \in 1 .. Depth - k |-> UnitAt(k + i)]
             Us == {UnitAt(k + i) : i \in 1 .. Depth - k}
  <2>1. s.units = units
    BY <1>1, ParsedPlaces DEF ParsedPlace
  <2>2. units \in Seq(Us)
    <3>1. Depth - k \in Nat
      BY <1>1
    <3>2. \A i \in 1 .. Depth - k : units[i] \in Us
      OBVIOUS
    <3> HIDE DEF Us
    <3> QED BY <3>1, <3>2
  <2> HIDE DEF units, Us
  <2>3. (<< UnitFrom(s, k) >> \o units)[1] = UnitFrom(s, k)
    BY <2>2, ConcatProperties
  <2>4. below.units = << UnitFrom(s, k) >> \o units
    BY <1>3, <2>1
  <2>5. UnitAt(k) = below.units[1]
    BY DEF UnitAt
  <2> QED BY <2>3, <2>4, <2>5, Zenon
<1> HIDE DEF s, below
<1>6. /\ below.challenge = InputChallenge(k) /\ below.claim = UnitClaim(k)
      /\ below.alpha = WeightAt(k)
      /\ below.read = SentAbove(job, k - 1) /\ below.drawn = DrawnAbove(job)[k - 1]
  BY <1>3
<1> QED BY <1>2, <1>4, <1>5, <1>6 DEF s, below

(* A layer leaves the tables of the points where its inputs are claimed.   *)
LEMMA TablesLeftByLayer ==
  ASSUME ProofComplete, NEW k \in 1 .. Depth, NEW l, l = job.layers[k],
         NEW ch, NEW c, NEW a, NEW m, NEW p,
         DOMAIN p = PadFields, DOMAIN p.rz0 = TablePlaces(job), DOMAIN p.rx = TablePlaces(job),
         DOMAIN p.ry = TablePlaces(job)
  PROVE  TablesLeft(SumcheckVerifyGkrLayer(l, ch, c, a, m, TapeAt(k), p).pad, k - 1)
<1> DEFINE n    == PhaseOneRounds(l)
           t    == TapeAt(k)
           out  == SumcheckVerifyGkrLayer(l, ch, c, a, m, t, p).pad
           rx   == SubSeq(t, 1, l.ivars)
           simd == SubSeq(t, l.ivars + 1, l.ivars + job.simd)
           mpi  == SubSeq(t, l.ivars + job.simd + 1, n)
           ry   == SubSeq(t, n + 1, n + PhaseTwoRounds(l))
           one  == PadOne(p, rx, simd, mpi)
           two  == PadTwo(one, ry)
           below == ParsedAbove[k - 1]
<1>0. job \in Jobs
  BY DEF ProofComplete
<1>1. /\ l.ivars \in Nat /\ Places(l.ivars) \subseteq TablePlaces(job)
  <2>1. LayerFits(job, k)
    BY <1>0, JobFits
  <2> QED BY <2>1 DEF LayerFits
<1>2. out = IF SkipPhaseTwo(l) THEN one ELSE two
  BY DEF SumcheckVerifyGkrLayer, PadOne, PadTwo
<1>3. below.challenge = InputChallenge(k) /\ below.alpha = WeightAt(k)
  BY ParsedBelow
<1>4. InputChallenge(k).rz_0 = rx
  BY DEF InputChallenge
<1>5. ~SkipPhaseTwo(l) => InputChallenge(k).rz_1 = Some(ry)
  BY DEF InputChallenge
<1>6. below.alpha # None => ~SkipPhaseTwo(l)
  BY <1>3 DEF WeightAt
<1>7. n \in Nat
  <2> DEFINE x == l.ivars
             y == job.simd
             z == job.mpi
  <2>1. x \in Nat /\ y \in Nat /\ z \in Nat
    BY <1>0, <1>1, JobFits
  <2>2. n = x + y + z
    BY DEF PhaseOneRounds
  <2> HIDE DEF x, y, z, n
  <2> QED BY <2>1, <2>2
<1>8. Len(rx) = l.ivars
  <2>1. 0 + 1 = 1 /\ 0 + l.ivars = l.ivars /\ 0 \in Nat
    BY <1>1
  <2> QED BY <1>1, <2>1, SliceLength
<1>9. ~SkipPhaseTwo(l) => Len(ry) = l.ivars
  <2>1. SUFFICES ASSUME ~SkipPhaseTwo(l) PROVE Len(ry) = l.ivars
    OBVIOUS
  <2>2. PhaseTwoRounds(l) = l.ivars
    BY <2>1 DEF PhaseTwoRounds
  <2> HIDE DEF n
  <2> QED BY <1>1, <1>7, <2>2, SliceLength
<1> HIDE DEF rx, ry, simd, mpi, below
<1>10. /\ DOMAIN one = PadFields /\ one.rz0 = p.rz0 /\ one.ry = p.ry
       /\ one.rx = WriteTable(p.rx, EqEvalAt(rx, 1))
  BY DEF PadOne, PadFields
<1> HIDE DEF one
<1>11. /\ DOMAIN two = PadFields /\ two.rz0 = one.rz0 /\ two.rx = one.rx
       /\ two.ry = WriteTable(one.ry, EqEvalAt(ry, 1))
  BY <1>10 DEF PadTwo, PadFields
<1>12. /\ DOMAIN one.rx = TablePlaces(job)
       /\ DOMAIN two.ry = TablePlaces(job) /\ DOMAIN one.ry = TablePlaces(job)
  BY <1>10, <1>11 DEF WriteTable
<1> HIDE DEF two, out
<1>13. /\ DOMAIN out = PadFields /\ DOMAIN out.rz0 = TablePlaces(job)
       /\ DOMAIN out.rx = TablePlaces(job) /\ DOMAIN out.ry = TablePlaces(job)
       /\ out.rx = WriteTable(p.rx, EqEvalAt(rx, 1))
       /\ ~SkipPhaseTwo(l) => out.ry = WriteTable(p.ry, EqEvalAt(ry, 1))
  BY <1>2, <1>10, <1>11, <1>12
<1>14. below.challenge.rz_0 = rx
  BY <1>3, <1>4, Zenon
<1>15. ASSUME NEW i \in Places(Len(below.challenge.rz_0))
       PROVE  out.rx[i] = EqEvalAt(below.challenge.rz_0, 1)[i]
  <2>1. i \in Places(Len(rx)) /\ i \in DOMAIN p.rx
    BY <1>1, <1>8, <1>14
  <2>2. WriteTable(p.rx, EqEvalAt(rx, 1))[i] = EqEvalAt(rx, 1)[i]
    BY <2>1, EqTableAt
  <2> QED BY <1>13, <1>14, <2>2
<1>16. ASSUME below.alpha # None, NEW i \in Places(Len(below.challenge.rz_1[1]))
       PROVE  out.ry[i] = EqEvalAt(below.challenge.rz_1[1], 1)[i]
  <2>1. ~SkipPhaseTwo(l)
    BY <1>6, <1>16
  <2>2. below.challenge.rz_1 = Some(ry)
    BY <1>3, <1>5, <2>1, Zenon
  <2>3. below.challenge.rz_1[1] = ry
    <3>1. Some(ry)[1] = ry
      BY SomeElement
    <3> QED BY <2>2, <3>1, Zenon
  <2>4. i \in Places(Len(ry)) /\ i \in DOMAIN p.ry
    BY <1>1, <1>9, <1>16, <2>1, <2>3
  <2>5. WriteTable(p.ry, EqEvalAt(ry, 1))[i] = EqEvalAt(ry, 1)[i]
    BY <2>4, EqTableAt
  <2> QED BY <1>13, <2>1, <2>3, <2>5
<1>17. TablesLeft(out, k - 1)
  BY <1>13, <1>15, <1>16 DEF TablesLeft, below
<1> QED BY <1>17 DEF out

(* A layer verified by gkr_verify is the unit verified by gkr_parallel.    *)
LEMMA LayerVerified ==
  ASSUME ProofComplete, NEW k \in 1 .. Depth, NEW s, s = ParsedAbove[k],
         NEW l, l = job.layers[k], NEW pad, TablesLeft(pad, k)
  PROVE  LET out == SumcheckVerifyGkrLayer(l, s.challenge, s.claim, s.alpha, RecordAt(k), TapeAt(k),
                      PrepareLayer(l, s.alpha, s.challenge, pad, k = Depth))
         IN /\ out.ok = UnitOutcome(k).ok
            /\ out.claim = ParsedAbove[k - 1].claim
            /\ out.challenge = ParsedAbove[k - 1].challenge
            /\ TablesLeft(out.pad, k - 1)
<1> DEFINE p     == PrepareLayer(l, s.alpha, s.challenge, pad, k = Depth)
           q     == PrepareLayerNonSequential(l, s.alpha, s.challenge, NewVerifierScratchPad)
           out1  == SumcheckVerifyGkrLayer(l, s.challenge, s.claim, s.alpha, RecordAt(k), TapeAt(k), p)
           out2  == SumcheckVerifyGkrLayer(l, s.challenge, s.claim, s.alpha, UnitProof(k), UnitTape(k), q)
           n     == PhaseOneRounds(l)
           draws == n + PhaseTwoRounds(l)
           count == MessagesOf(l)
<1>0. job \in Jobs
  BY DEF ProofComplete
<1>1. job.simd \in Nat /\ job.mpi \in Nat /\ l.ivars \in Nat
  BY <1>0, JobFits
<1>2. GatesFit(l)
  <2>1. LayerFits(job, k)
    BY <1>0, JobFits
  <2> QED BY <2>1 DEF LayerFits, GatesFit
<1>3. /\ PadsAgree(l, p, q)
      /\ DOMAIN p.rz0 = TablePlaces(job) /\ DOMAIN p.rx = TablePlaces(job)
      /\ DOMAIN p.ry = TablePlaces(job)
  BY PadsPrepared
<1>4. /\ RecordAt(k) \in Seq(Range(Messages)) /\ UnitProof(k) \in Seq(Range(Messages))
      /\ count <= Len(RecordAt(k)) /\ Len(UnitProof(k)) = count
      /\ \A i \in 1 .. count : RecordAt(k)[i] = UnitProof(k)[i]
  BY UnitProofAgrees
<1>5. /\ TapeAt(k) \in Seq(Field) /\ UnitTape(k) \in Seq(Field)
      /\ draws <= Len(TapeAt(k)) /\ draws <= Len(UnitTape(k))
      /\ \A i \in 1 .. draws : TapeAt(k)[i] = UnitTape(k)[i]
  BY <1>0, UnitTapeAgrees
<1>6. count <= Len(UnitProof(k)) /\ count \in Nat /\ draws \in Nat
  <2>1. count \in Nat
    BY <1>0, SentAboveType
  <2>2. draws \in Nat
    BY <1>1, RoundsOfLayer DEF LayerSize
  <2> QED BY <1>4, <2>1, <2>2
<1> HIDE DEF p, q, n, draws, count
<1>7. out1.ok = out2.ok /\ out1.claim = out2.claim /\ out1.challenge = out2.challenge
  <2>1. LayerSize(l, n, draws, count)
    BY DEF n, draws, count, LayerSize
  <2>2. SameUpTo(RecordAt(k), UnitProof(k), count)
    BY <1>4, <1>6, IsSeqOf DEF SameUpTo, IsSeq
  <2>3. SameUpTo(TapeAt(k), UnitTape(k), draws)
    BY <1>5, <1>6, IsSeqOf DEF SameUpTo, IsSeq
  <2> QED BY <1>1, <1>2, <1>3, <2>1, <2>2, <2>3, LayerIsLocal
<1>8. UnitOutcome(k) = out2
  <2>1. UnitAt(k) = UnitFrom(s, k)
    BY ParsedBelow
  <2>2. /\ UnitFrom(s, k).tape = UnitTape(k) /\ UnitFrom(s, k).proof = UnitProof(k)
        /\ UnitFrom(s, k).challenge = s.challenge /\ UnitFrom(s, k).claim = s.claim
        /\ UnitFrom(s, k).alpha = s.alpha
    BY DEF UnitFrom
  <2>3. UnitOutcome(k) =
          SumcheckVerifyGkrLayer(l, UnitFrom(s, k).challenge, UnitFrom(s, k).claim,
            UnitFrom(s, k).alpha, UnitFrom(s, k).proof, UnitFrom(s, k).tape,
            PrepareLayerNonSequential(l, UnitFrom(s, k).alpha, UnitFrom(s, k).challenge,
              NewVerifierScratchPad))
    BY <2>1, Zenon DEF UnitOutcome
  <2> QED BY <2>2, <2>3, Zenon DEF q
<1>9. out1.challenge = InputChallenge(k)
  BY DEF SumcheckVerifyGkrLayer, InputChallenge
<1>10. out2.claim = UnitClaim(k)
  <2> DEFINE m == UnitProof(k)
             x == l.ivars
             y == job.simd
             z == job.mpi
  <2>1. out2.claim = [x |-> m[n + 1][1],
                      y |-> IF SkipPhaseTwo(l) THEN None ELSE Some(m[n + x + 2][1])]
    BY DEF SumcheckVerifyGkrLayer, n
  <2>2. UnitClaim(k) = [x |-> m[n + 1][1],
                        y |-> IF SkipPhaseTwo(l) THEN None ELSE Some(m[count][1])]
    BY DEF UnitClaim, n, count
  <2>3. ~SkipPhaseTwo(l) => count = n + 1 + (x + 1)
    BY DEF MessagesOf, n, count
  <2>4. n = x + y + z /\ x \in Nat /\ y \in Nat /\ z \in Nat
    BY <1>1 DEF PhaseOneRounds, n
  <2> HIDE DEF x, y, z, m
  <2>5. ~SkipPhaseTwo(l) => count = n + x + 2
    BY <2>3, <2>4
  <2> QED BY <2>1, <2>2, <2>5
<1>11. /\ ParsedAbove[k - 1].challenge = InputChallenge(k)
       /\ ParsedAbove[k - 1].claim = UnitClaim(k)
  BY ParsedBelow
<1>12. TablesLeft(out1.pad, k - 1)
  <2>1. DOMAIN p = PadFields
    BY <1>3 DEF PadsAgree, HasRoom
  <2> QED BY <1>3, <2>1, TablesLeftByLayer
<1> HIDE DEF out1, out2
<1>13. /\ out1.ok = UnitOutcome(k).ok /\ out1.claim = ParsedAbove[k - 1].claim
       /\ out1.challenge = ParsedAbove[k - 1].challenge
  BY <1>7, <1>8, <1>9, <1>10, <1>11, Zenon
<1> QED BY <1>12, <1>13 DEF out1, p

-----------------------------------------------------------------------------
(* Where the outputs of layer k are claimed.                               *)
ChallengeAbove(k) == IF k = Depth THEN OutputChallenge ELSE InputChallenge(k + 1)

(* The weight of the second claim about the outputs of layer k.            *)
AlphaAbove(k) == IF k = Depth THEN None ELSE WeightAt(k + 1)

(* The coins received, from a place of the tape on.                        *)
Received(j, s, place) == \A i \in 1 .. Len(s) : s[i] = j.coins[place + i]

PhaseOneReceived(place) ==
  /\ Received(job, rs.x, place)
  /\ Received(job, rs.simd, place + Layer.ivars)
  /\ Received(job, rs.mpi, place + Layer.ivars + job.simd)

ProverCoins ==
  LET used == DrawnAbove(job)[layer] IN
  /\ stage \in {"evaluate", "sample"} => drawn = 0 /\ alpha = None
  /\ stage \in {"prepare", "proved"} =>
       drawn = used /\ challenge = ChallengeAbove(layer) /\ alpha = AlphaAbove(layer)
  /\ stage \in {"x", "simd", "mpi"} =>
       drawn = used + Len(rs.x) + Len(rs.simd) + Len(rs.mpi) /\ PhaseOneReceived(used)
  /\ stage = "y" =>
       /\ drawn = used + PhaseOneRounds(Layer) + Len(rs.y) /\ PhaseOneReceived(used)
       /\ Received(job, rs.y, used + PhaseOneRounds(Layer))
       /\ Len(rs.x) = Layer.ivars /\ Len(rs.simd) = job.simd /\ Len(rs.mpi) = job.mpi
  /\ stage = "next" =>
       /\ drawn = used + PhaseOneRounds(Layer) + PhaseTwoRounds(Layer)
       /\ challenge = InputChallenge(layer)

(* The next coin is the next one received.                                 *)
LEMMA ReceivedAppend ==
  ASSUME NEW j, NEW s, IsSeq(s), NEW place \in Nat, Received(j, s, place), NEW coin,
         coin = j.coins[place + Len(s) + 1]
  PROVE  Received(j, Append(s, coin), place)
<1>1. s \in Seq(Range(s)) /\ Len(s) \in Nat
  BY DEF IsSeq
<1>2. Len(Append(s, coin)) = Len(s) + 1
  BY IsSeqAppend
<1>3. ASSUME NEW i \in 1 .. Len(s) + 1
      PROVE  Append(s, coin)[i] = j.coins[place + i]
  <2>1. CASE i = Len(s) + 1
    <3>1. Append(s, coin)[i] = coin
      BY <1>1, <2>1
    <3>2. place + i = place + Len(s) + 1
      BY <1>1, <2>1
    <3> QED BY <3>1, <3>2
  <2>2. CASE i # Len(s) + 1
    <3>1. i \in 1 .. Len(s)
      BY <1>1, <2>2
    <3>2. Append(s, coin)[i] = s[i]
      BY <1>1, <3>1
    <3> QED BY <3>1, <3>2 DEF Received
  <2> QED BY <2>1, <2>2
<1> QED BY <1>2, <1>3 DEF Received

(* What was received is the slice of the layer's tape.                     *)
LEMMA ReceivedSlice ==
  ASSUME job \in Jobs, NEW k \in 1 .. Depth, NEW s, IsSeq(s), NEW a \in Nat,
         NEW place, place = DrawnAbove(job)[k] + a, Received(job, s, place),
         a + Len(s) <= PhaseOneRounds(job.layers[k]) + PhaseTwoRounds(job.layers[k])
  PROVE  s = SubSeq(TapeAt(k), a + 1, a + Len(s))
<1> DEFINE n     == Len(s)
           draws == PhaseOneRounds(job.layers[k]) + PhaseTwoRounds(job.layers[k])
           t     == TapeAt(k)
           used  == DrawnAbove(job)[k]
<1>1. n \in Nat /\ s = [i \in 1 .. n |-> s[i]]
  BY DEF IsSeq
<1>2. /\ draws \in Nat /\ \A i \in 1 .. draws : t[i] = job.coins[used + i]
      /\ t \in Seq(Field) /\ draws <= Len(t)
  BY UnitTapeAgrees
<1>3. used \in Nat /\ a + n <= draws
  <2>1. k \in 0 .. Depth
    BY JobFits
  <2> QED BY <2>1, DrawnAboveType
<1>4. \A i \in 1 .. n : s[i] = job.coins[place + i]
  BY DEF Received
<1> HIDE DEF draws, t, used, n
<1>5. ASSUME NEW i \in 1 .. n PROVE s[i] = t[(a + 1) + i - 1]
  <2>1. (a + 1) + i - 1 = a + i /\ a + i \in 1 .. draws
    BY <1>1, <1>2, <1>3
  <2>2. used + (a + i) = place + i
    BY <1>1, <1>3 DEF used
  <2>3. t[a + i] = job.coins[used + (a + i)]
    BY <1>2, <2>1
  <2> QED BY <1>4, <2>1, <2>2, <2>3
<1>6. SubSeq(t, a + 1, a + n) = [i \in 1 .. n |-> t[(a + 1) + i - 1]]
  BY <1>1, SliceIs, SMTT(60)
<1>7. s = SubSeq(t, a + 1, a + n)
  BY <1>1, <1>5, <1>6
<1> QED BY <1>7 DEF t, n

(* The challenge for the output is made of the first coins.                *)
LEMMA SampledChallenge ==
  ASSUME job \in Jobs, drawn = 0, SampleChallenge
  PROVE  challenge' = OutputChallenge /\ drawn' = OutputDraws
<1> DEFINE rz == job.layers[Depth].ovars
           y == job.simd
           z == job.mpi
           n == rz + y + z
           coins == job.coins
           first == SubSeq(coins, 1, n)
<1>0. /\ challenge' = [rz_0   |-> SubSeq(Coins(n), 1, rz), rz_1 |-> None,
                        r_simd |-> SubSeq(Coins(n), rz + 1, rz + y),
                        r_mpi  |-> SubSeq(Coins(n), rz + y + 1, n)]
      /\ drawn' = drawn + n /\ n = OutputDraws
  BY DEF SampleChallenge, OutputDraws
<1>1. Depth \in Nat \ {0} /\ rz \in Nat /\ y \in Nat /\ z \in Nat /\ coins \in Seq(Field)
  BY JobFits
<1>2. n = rz + y + z
  OBVIOUS
<1>3. n <= Len(coins) /\ Len(coins) \in Nat
  <2>1. /\ DrawnAbove(job)[Depth] = n /\ DrawnAbove(job)[Depth] <= DrawnAbove(job)[0]
        /\ DrawnAbove(job)[0] <= Len(coins) /\ DrawnAbove(job)[0] \in Nat
        /\ DrawnAbove(job)[Depth] \in Nat
    <3>1. DrawnAbove(job)[Depth] = n
      BY DrawnAboveUnfolds DEF Depth
    <3> QED BY <1>1, <3>1, DrawnAboveType, JobFits
  <2> QED BY <1>1, <2>1
<1> HIDE DEF rz, y, z, n, coins
<1>4. Coins(n) = first
  <2>1. drawn + 1 = 1 /\ drawn + n = n
    BY <1>1, <1>2
  <2> QED BY <2>1 DEF Coins, coins
<1>5. n \in Nat /\ rz <= n /\ rz + y <= n /\ rz + y \in Nat
  BY <1>1, <1>2
<1>6. SameUpTo(first, coins, n)
  <2>1. 0 + 1 = 1 /\ 0 + n = n /\ 0 \in Nat
    BY <1>5
  <2>2. first = [i \in 1 .. n |-> coins[1 + i - 1]]
    BY <1>5, <2>1, SliceIs
  <2>3. \A i \in 1 .. n : 1 + i - 1 = i /\ coins[i] \in Field
    BY <1>1, <1>3, <1>5
  <2>4. first \in Seq(Field) /\ Len(first) = n /\ \A i \in 1 .. n : first[i] = coins[i]
    <3> HIDE DEF first
    <3> QED BY <1>5, <2>2, <2>3
  <2> HIDE DEF first
  <2> QED BY <1>1, <1>3, <1>5, <2>4, IsSeqOf DEF SameUpTo, IsSeq
<1> HIDE DEF first
<1>7. /\ SubSeq(first, 1, rz) = SubSeq(coins, 1, rz)
      /\ SubSeq(first, rz + 1, rz + y) = SubSeq(coins, rz + 1, rz + y)
      /\ SubSeq(first, rz + y + 1, n) = SubSeq(coins, rz + y + 1, n)
  <2>1. 1 \in Nat \ {0} /\ rz + 1 \in Nat \ {0} /\ rz + y + 1 \in Nat \ {0} /\ n <= n
    BY <1>1, <1>5
  <2> QED BY <1>1, <1>5, <1>6, <2>1, SlicesAgree
<1>8. OutputChallenge = [rz_0   |-> SubSeq(coins, 1, rz), rz_1 |-> None,
                         r_simd |-> SubSeq(coins, rz + 1, rz + y),
                         r_mpi  |-> SubSeq(coins, rz + y + 1, n)]
  BY <1>0 DEF OutputChallenge, coins, rz, y
<1>9. drawn + n = n
  BY <1>5
<1> QED BY <1>0, <1>4, <1>7, <1>8, <1>9

(* The challenges received in a layer make up the one for its inputs.      *)
LEMMA ReceivedChallenge ==
  ASSUME job \in Jobs, layer \in 1 .. Depth,
         IsSeq(rs.x), IsSeq(rs.simd), IsSeq(rs.mpi),
         Len(rs.x) = Layer.ivars, Len(rs.simd) = job.simd, Len(rs.mpi) = job.mpi,
         PhaseOneReceived(DrawnAbove(job)[layer])
  PROVE  /\ SkipPhaseTwo(Layer) => ChallengeOf(None) = InputChallenge(layer)
         /\ /\ ~SkipPhaseTwo(Layer) /\ IsSeq(rs.y) /\ Len(rs.y) = Layer.ivars
            /\ Received(job, rs.y, DrawnAbove(job)[layer] + PhaseOneRounds(Layer))
            => ChallengeOf(Some(rs.y)) = InputChallenge(layer)
<1> DEFINE t == TapeAt(layer)
           used == DrawnAbove(job)[layer]
           n == PhaseOneRounds(Layer)
           draws == n + PhaseTwoRounds(Layer)
           x == Layer.ivars
           y == job.simd
           z == job.mpi
<1>1. x \in Nat /\ y \in Nat /\ z \in Nat /\ Layer = job.layers[layer]
  BY JobFits DEF Layer
<1>2. n = x + y + z /\ PhaseTwoRounds(Layer) = IF SkipPhaseTwo(Layer) THEN 0 ELSE x
  BY DEF PhaseOneRounds, PhaseTwoRounds
<1>3. used \in Nat
  <2>1. layer \in 0 .. Depth
    BY JobFits
  <2> QED BY <2>1, DrawnAboveType
<1>4. /\ Received(job, rs.x, used) /\ Received(job, rs.simd, used + x)
      /\ Received(job, rs.mpi, used + x + y)
  BY DEF PhaseOneReceived
<1>5. Len(rs.x) = x /\ Len(rs.simd) = y /\ Len(rs.mpi) = z
  OBVIOUS
<1> HIDE DEF x, y, z, n, used, draws
<1>6. /\ 0 \in Nat /\ x + y \in Nat /\ n \in Nat /\ used + 0 = used /\ used + (x + y) = used + x + y
      /\ draws = IF SkipPhaseTwo(Layer) THEN n ELSE n + x
  BY <1>1, <1>2, <1>3 DEF draws
<1>7. 0 + x <= draws /\ x + y <= draws /\ (x + y) + z <= draws /\ (x + y) + z = n /\ 0 + x = x
      /\ (~SkipPhaseTwo(Layer) => n + x <= draws) /\ 0 + 1 = 1
  BY <1>1, <1>2, <1>6
<1>8. /\ rs.x = SubSeq(t, 0 + 1, 0 + x) /\ rs.simd = SubSeq(t, x + 1, x + y)
      /\ rs.mpi = SubSeq(t, (x + y) + 1, (x + y) + z)
  <2>1. rs.x = SubSeq(t, 0 + 1, 0 + Len(rs.x))
    BY <1>1, <1>4, <1>5, <1>6, <1>7, ReceivedSlice DEF used, draws, n
  <2>2. rs.simd = SubSeq(t, x + 1, x + Len(rs.simd))
    BY <1>1, <1>4, <1>5, <1>6, <1>7, ReceivedSlice DEF used, draws, n
  <2>3. rs.mpi = SubSeq(t, (x + y) + 1, (x + y) + Len(rs.mpi))
    BY <1>1, <1>4, <1>5, <1>6, <1>7, ReceivedSlice DEF used, draws, n
  <2> QED BY <1>5, <2>1, <2>2, <2>3
<1>9. InputChallenge(layer) =
        [rz_0   |-> SubSeq(t, 1, x),
         rz_1   |-> IF SkipPhaseTwo(Layer) THEN None
                    ELSE Some(SubSeq(t, n + 1, n + PhaseTwoRounds(Layer))),
         r_simd |-> SubSeq(t, x + 1, x + y),
         r_mpi  |-> SubSeq(t, x + y + 1, n)]
  BY <1>1 DEF InputChallenge, x, y, n
<1>10. ASSUME NEW ry
       PROVE  ChallengeOf(ry) = [rz_0 |-> SubSeq(t, 1, x), rz_1 |-> ry,
                                 r_simd |-> SubSeq(t, x + 1, x + y), r_mpi |-> SubSeq(t, x + y + 1, n)]
  BY <1>7, <1>8 DEF ChallengeOf
<1>11. SkipPhaseTwo(Layer) => ChallengeOf(None) = InputChallenge(layer)
  BY <1>9, <1>10
<1>12. ASSUME ~SkipPhaseTwo(Layer), IsSeq(rs.y), Len(rs.y) = x, Received(job, rs.y, used + n)
       PROVE  ChallengeOf(Some(rs.y)) = InputChallenge(layer)
  <2>1. rs.y = SubSeq(t, n + 1, n + Len(rs.y))
    BY <1>1, <1>6, <1>7, <1>12, ReceivedSlice DEF used, draws, n
  <2>2. PhaseTwoRounds(Layer) = x
    BY <1>2, <1>12
  <2> QED BY <1>9, <1>10, <1>12, <2>1, <2>2
<1> QED BY <1>5, <1>11, <1>12 DEF used, n, x

(* Nothing is drawn at first.                                              *)
LEMMA ProverCoinsInit == Init => ProverCoins
BY DEF Init, ProverCoins

(* A round draws the next coin of the tape and keeps it.                   *)
LEMMA ProverCoinsStep == ProverInv /\ ProverCoins /\ ProverStep => ProverCoins'
<1> SUFFICES ASSUME ProverInv, ProverCoins, ProverStep PROVE ProverCoins'
  OBVIOUS
<1> DEFINE used == DrawnAbove(job)[layer]
           x == Layer.ivars
           y == job.simd
           z == job.mpi
           n == PhaseOneRounds(Layer)
           m == PhaseTwoRounds(Layer)
<1>1. job \in Jobs /\ layer \in 0 .. Depth /\ (layer = 0 <=> stage = "proved")
  BY DEF ProverInv, TypeOK
<1>2. Depth \in Nat \ {0} /\ y \in Nat /\ z \in Nat /\ used \in Nat
  BY <1>1, JobFits, DrawnAboveType
<1>3. ASSUME layer # 0
      PROVE  /\ layer \in 1 .. Depth /\ Layer = job.layers[layer] /\ x \in Nat
             /\ n = x + y + z /\ n \in Nat /\ m \in Nat
             /\ m = IF SkipPhaseTwo(Layer) THEN 0 ELSE x
  <2>1. layer \in 1 .. Depth /\ Layer = job.layers[layer] /\ x \in Nat
    BY <1>1, <1>2, <1>3, JobFits DEF Layer
  <2>2. n = x + y + z /\ m = IF SkipPhaseTwo(Layer) THEN 0 ELSE x
    BY DEF PhaseOneRounds, PhaseTwoRounds
  <2> HIDE DEF x, y, z, n, m
  <2> QED BY <1>2, <2>1, <2>2
<1>4. job' = job
  BY DEF ProverStep, EvaluateLayer, SampleChallenge, PrepareLayerProver, RoundX,
         PrepareSimdVarVals, RoundSimd, PrepareMpiVarVals, RoundMpi, FinishPhaseOne, RoundY,
         FinishPhaseTwo, NextLayer
<1>5. ASSUME layer' = layer
      PROVE  /\ Layer' = Layer /\ DrawnAbove(job)[layer]' = used
             /\ PhaseOneRounds(Layer)' = n /\ PhaseTwoRounds(Layer)' = m
             /\ ChallengeAbove(layer)' = ChallengeAbove(layer)
             /\ InputChallenge(layer)' = InputChallenge(layer)
  BY <1>4, <1>5 DEF Layer, PhaseOneRounds, PhaseTwoRounds, ChallengeAbove, InputChallenge,
         OutputChallenge, OutputDraws, TapeAt, After, Depth
<1>6. ASSUME NEW k, layer' = k
      PROVE  ChallengeAbove(layer)' = ChallengeAbove(k) /\ AlphaAbove(layer)' = AlphaAbove(k)
  BY <1>4, <1>6 DEF ChallengeAbove, InputChallenge, OutputChallenge, OutputDraws, TapeAt,
         After, Depth, AlphaAbove, WeightAt, PhaseOneRounds, PhaseTwoRounds
<1>7. /\ IsSeq(rs.x) /\ IsSeq(rs.simd) /\ IsSeq(rs.mpi) /\ IsSeq(rs.y)
      /\ DOMAIN rs = {"x", "simd", "mpi", "y"}
      /\ Len(rs.x) \in Nat /\ Len(rs.simd) \in Nat /\ Len(rs.mpi) \in Nat /\ Len(rs.y) \in Nat
  BY IsSeqAppend DEF ProverInv, TypeOK
<1> HIDE DEF x, y, z, n, m
<1>8. CASE EvaluateLayer
  <2>1. /\ stage = "evaluate" /\ stage' \in {"evaluate", "sample"}
        /\ drawn' = drawn /\ alpha' = alpha
    BY <1>8 DEF EvaluateLayer
  <2> QED BY <2>1 DEF ProverCoins
<1>9. CASE SampleChallenge
  <2>1. stage = "sample" /\ stage' = "prepare" /\ layer' = layer /\ alpha' = alpha
    BY <1>9 DEF SampleChallenge
  <2>2. layer = Depth /\ drawn = 0 /\ alpha = None
    BY <2>1 DEF ProverInv, ProofLength, ProverCoins
  <2>3. challenge' = OutputChallenge /\ drawn' = OutputDraws
    BY <1>1, <1>9, <2>2, SampledChallenge
  <2>4. used = OutputDraws
    BY <1>1, <2>2, DrawnAboveType
  <2>5. ChallengeAbove(layer)' = OutputChallenge /\ AlphaAbove(layer)' = None
    BY <1>6, <2>1, <2>2 DEF ChallengeAbove, AlphaAbove
  <2> QED BY <1>5, <2>1, <2>2, <2>3, <2>4, <2>5 DEF ProverCoins
<1>10. CASE PrepareLayerProver
  <2>1. stage = "prepare" /\ stage' = "x" /\ layer' = layer /\ drawn' = drawn /\ rs' = NoRs
    BY <1>10 DEF PrepareLayerProver
  <2>2. /\ Len(rs'.x) = 0 /\ Len(rs'.simd) = 0 /\ Len(rs'.mpi) = 0
    BY <2>1, IsSeqEmpty DEF NoRs
  <2>3. drawn = used
    BY <2>1 DEF ProverCoins
  <2>4. drawn' = used + Len(rs'.x) + Len(rs'.simd) + Len(rs'.mpi)
    BY <1>2, <2>1, <2>2, <2>3
  <2>5. PhaseOneReceived(used)'
    BY <2>2 DEF PhaseOneReceived, Received
  <2> QED BY <1>5, <2>1, <2>4, <2>5 DEF ProverCoins
<1>11. CASE RoundX
  <2>1. /\ stage = "x" /\ stage' = "x" /\ layer' = layer /\ drawn' = drawn + 1
        /\ rs' = [rs EXCEPT !.x = Append(@, Coin)]
    BY <1>11 DEF RoundX, TranscriptIo
  <2>2. rs'.x = Append(rs.x, Coin) /\ rs'.simd = rs.simd /\ rs'.mpi = rs.mpi
    BY <1>7, <2>1
  <2>3. /\ drawn = used + Len(rs.x) + Len(rs.simd) + Len(rs.mpi)
        /\ Received(job, rs.x, used) /\ Len(rs.simd) = 0 /\ Len(rs.mpi) = 0
    BY <2>1, IsSeqEmpty DEF ProverCoins, PhaseOneReceived, ProverInv, ProofLength
  <2>4. drawn + 1 = used + Len(rs.x) + 1
    BY <1>2, <1>7, <2>3
  <2>5. Received(job, rs'.x, used)
    BY <1>2, <1>7, <2>2, <2>3, <2>4, ReceivedAppend DEF Coin
  <2>6. PhaseOneReceived(used)'
    BY <1>4, <1>5, <2>1, <2>2, <2>3, <2>5 DEF PhaseOneReceived, Received
  <2>7. Len(rs'.x) = Len(rs.x) + 1
    BY <1>7, <2>2, IsSeqAppend
  <2>8. drawn' = used + Len(rs'.x) + Len(rs'.simd) + Len(rs'.mpi)
    BY <1>2, <1>7, <2>1, <2>2, <2>3, <2>7
  <2> QED BY <1>5, <2>1, <2>6, <2>8 DEF ProverCoins
<1>12. CASE PrepareSimdVarVals
  <2>1. stage = "x" /\ stage' = "simd" /\ layer' = layer /\ drawn' = drawn /\ rs' = rs
    BY <1>12 DEF PrepareSimdVarVals
  <2> QED BY <1>4, <1>5, <2>1 DEF ProverCoins, PhaseOneReceived
<1>13. CASE RoundSimd
  <2>1. /\ stage = "simd" /\ stage' = "simd" /\ layer' = layer /\ drawn' = drawn + 1
        /\ rs' = [rs EXCEPT !.simd = Append(@, Coin)]
    BY <1>13 DEF RoundSimd, TranscriptIo
  <2>2. rs'.simd = Append(rs.simd, Coin) /\ rs'.x = rs.x /\ rs'.mpi = rs.mpi
    BY <1>7, <2>1
  <2>3. /\ drawn = used + Len(rs.x) + Len(rs.simd) + Len(rs.mpi) /\ Received(job, rs.x, used)
        /\ Received(job, rs.simd, used + x) /\ Len(rs.x) = x /\ Len(rs.mpi) = 0
    BY <2>1, IsSeqEmpty DEF ProverCoins, PhaseOneReceived, ProverInv, ProofLength, x
  <2>4. used + x \in Nat /\ drawn + 1 = used + x + Len(rs.simd) + 1
    BY <1>2, <1>7, <2>3
  <2>5. Received(job, rs'.simd, used + x)
    BY <1>7, <2>2, <2>3, <2>4, ReceivedAppend DEF Coin
  <2>6. PhaseOneReceived(used)'
    BY <1>4, <1>5, <2>1, <2>2, <2>3, <2>5 DEF PhaseOneReceived, Received, x
  <2>7. Len(rs'.simd) = Len(rs.simd) + 1
    BY <1>7, <2>2, IsSeqAppend
  <2>8. drawn' = used + Len(rs'.x) + Len(rs'.simd) + Len(rs'.mpi)
    BY <1>2, <1>7, <2>1, <2>2, <2>3, <2>7
  <2> QED BY <1>5, <2>1, <2>6, <2>8 DEF ProverCoins
<1>14. CASE PrepareMpiVarVals
  <2>1. stage = "simd" /\ stage' = "mpi" /\ layer' = layer /\ drawn' = drawn /\ rs' = rs
    BY <1>14 DEF PrepareMpiVarVals
  <2> QED BY <1>4, <1>5, <2>1 DEF ProverCoins, PhaseOneReceived
<1>15. CASE RoundMpi
  <2>1. /\ stage = "mpi" /\ stage' = "mpi" /\ layer' = layer /\ drawn' = drawn + 1
        /\ rs' = [rs EXCEPT !.mpi = Append(@, Coin)]
    BY <1>15 DEF RoundMpi, TranscriptIo
  <2>2. rs'.mpi = Append(rs.mpi, Coin) /\ rs'.x = rs.x /\ rs'.simd = rs.simd
    BY <1>7, <2>1
  <2>3. /\ drawn = used + Len(rs.x) + Len(rs.simd) + Len(rs.mpi) /\ Received(job, rs.x, used)
        /\ Received(job, rs.simd, used + x) /\ Received(job, rs.mpi, used + x + y)
        /\ Len(rs.x) = x /\ Len(rs.simd) = y
    BY <2>1 DEF ProverCoins, PhaseOneReceived, ProverInv, ProofLength, x, y
  <2>4. used + x + y \in Nat /\ drawn + 1 = used + x + y + Len(rs.mpi) + 1
    BY <1>2, <1>7, <2>3
  <2>5. Received(job, rs'.mpi, used + x + y)
    BY <1>7, <2>2, <2>3, <2>4, ReceivedAppend DEF Coin
  <2>6. PhaseOneReceived(used)'
    BY <1>4, <1>5, <2>1, <2>2, <2>3, <2>5 DEF PhaseOneReceived, Received, x, y
  <2>7. Len(rs'.mpi) = Len(rs.mpi) + 1
    BY <1>7, <2>2, IsSeqAppend
  <2>8. drawn' = used + Len(rs'.x) + Len(rs'.simd) + Len(rs'.mpi)
    <3> DEFINE a == Len(rs.mpi)
    <3>1. drawn = used + x + y + a /\ x \in Nat /\ a \in Nat
      BY <1>7, <2>3
    <3>2. Len(rs'.mpi) = a + 1 /\ Len(rs'.x) = x /\ Len(rs'.simd) = y
      BY <2>2, <2>3, <2>7
    <3> HIDE DEF a, used
    <3>3. drawn' = used + x + y + (a + 1)
      BY <1>2, <2>1, <3>1
    <3> QED BY <3>2, <3>3
  <2> QED BY <1>5, <2>1, <2>6, <2>8 DEF ProverCoins
<1>16. CASE FinishPhaseOne
  <2>1. stage = "mpi" /\ Len(rs.mpi) = z /\ layer' = layer /\ drawn' = drawn /\ rs' = rs
    BY <1>16 DEF FinishPhaseOne, z
  <2>2. /\ drawn = used + Len(rs.x) + Len(rs.simd) + Len(rs.mpi) /\ PhaseOneReceived(used)
        /\ Len(rs.x) = x /\ Len(rs.simd) = y /\ rs.y = <<>>
    BY <2>1 DEF ProverCoins, ProverInv, ProofLength, x, y
  <2>3. layer # 0
    BY <1>1, <2>1
  <2>4. drawn = used + n /\ Len(rs.y) = 0
    BY <1>2, <1>3, <2>1, <2>2, <2>3, IsSeqEmpty, SMTT(60)
  <2>5. CASE SkipPhaseTwo(Layer)
    <3>1. stage' = "next" /\ challenge' = ChallengeOf(None)
      BY <1>16, <2>5 DEF FinishPhaseOne
    <3>2. ChallengeOf(None) = InputChallenge(layer)
      BY <1>1, <1>3, <1>7, <2>1, <2>2, <2>3, <2>5, ReceivedChallenge DEF x, y, z
    <3>3. m = 0 /\ used + n + m = used + n
      BY <1>2, <1>3, <2>3, <2>5
    <3> QED BY <1>5, <2>1, <2>4, <3>1, <3>2, <3>3 DEF ProverCoins
  <2>6. CASE ~SkipPhaseTwo(Layer)
    <3>1. stage' = "y"
      BY <1>16, <2>6 DEF FinishPhaseOne
    <3>2. used + n + Len(rs.y) = used + n
      BY <1>2, <1>3, <2>3, <2>4
    <3>3. Received(job, rs.y, used + n)
      BY <2>4 DEF Received
    <3>4. PhaseOneReceived(used)'
      BY <1>4, <1>5, <2>1, <2>2 DEF PhaseOneReceived
    <3> QED BY <1>4, <1>5, <2>1, <2>2, <2>4, <3>1, <3>2, <3>3, <3>4 DEF ProverCoins, x, y, z
  <2> QED BY <2>5, <2>6
<1>17. CASE RoundY
  <2>1. /\ stage = "y" /\ stage' = "y" /\ layer' = layer /\ drawn' = drawn + 1
        /\ rs' = [rs EXCEPT !.y = Append(@, Coin)]
    BY <1>17 DEF RoundY, TranscriptIo
  <2>2. rs'.y = Append(rs.y, Coin) /\ rs'.x = rs.x /\ rs'.simd = rs.simd /\ rs'.mpi = rs.mpi
    BY <1>7, <2>1
  <2>3. /\ drawn = used + n + Len(rs.y) /\ PhaseOneReceived(used) /\ Received(job, rs.y, used + n)
        /\ Len(rs.x) = x /\ Len(rs.simd) = y /\ Len(rs.mpi) = z
    BY <2>1 DEF ProverCoins, x, y, z, n
  <2>4. layer # 0
    BY <1>1, <2>1
  <2>5. used + n \in Nat /\ drawn + 1 = used + n + Len(rs.y) + 1
    BY <1>2, <1>3, <1>7, <2>3, <2>4, SMTT(60)
  <2>6. Received(job, rs'.y, used + n)
    BY <1>7, <2>2, <2>3, <2>5, ReceivedAppend DEF Coin
  <2>7. PhaseOneReceived(used)'
    BY <1>4, <1>5, <2>1, <2>2, <2>3 DEF PhaseOneReceived
  <2>8. Len(rs'.y) = Len(rs.y) + 1
    BY <1>7, <2>2, IsSeqAppend
  <2>9. drawn' = used + n + Len(rs'.y)
    <3> DEFINE a == Len(rs.y)
               p == used + n
    <3>1. drawn = p + a /\ p \in Nat /\ a \in Nat /\ Len(rs'.y) = a + 1
      BY <1>7, <2>3, <2>5, <2>8
    <3> HIDE DEF a, p
    <3>2. drawn' = p + (a + 1)
      BY <2>1, <3>1
    <3> QED BY <3>1, <3>2 DEF p
  <2> QED BY <1>4, <1>5, <2>1, <2>2, <2>3, <2>6, <2>7, <2>9 DEF ProverCoins, x, y, z
<1>18. CASE FinishPhaseTwo
  <2>1. /\ stage = "y" /\ Len(rs.y) = x /\ stage' = "next" /\ layer' = layer /\ drawn' = drawn
        /\ challenge' = ChallengeOf(Some(rs.y))
    BY <1>18 DEF FinishPhaseTwo, x
  <2>2. /\ drawn = used + n + Len(rs.y) /\ PhaseOneReceived(used) /\ Received(job, rs.y, used + n)
        /\ Len(rs.x) = x /\ Len(rs.simd) = y /\ Len(rs.mpi) = z
    BY <2>1 DEF ProverCoins, x, y, z, n
  <2>3. ~SkipPhaseTwo(Layer)
    BY <2>1 DEF ProverInv, ProofLength
  <2>4. layer # 0
    BY <1>1, <2>1
  <2>5. ChallengeOf(Some(rs.y)) = InputChallenge(layer)
    BY <1>1, <1>3, <1>7, <2>1, <2>2, <2>3, <2>4, ReceivedChallenge DEF x, y, z, n
  <2>6. drawn' = used + n + m
    BY <1>3, <2>1, <2>2, <2>3, <2>4
  <2> QED BY <1>5, <2>1, <2>5, <2>6 DEF ProverCoins
<1>19. CASE NextLayer
  <2>1. /\ stage = "next" /\ layer' = layer - 1 /\ challenge' = challenge
        /\ stage' \in {"prepare", "proved"}
        /\ IF challenge.rz_1 = None
           THEN alpha' = None /\ drawn' = drawn ELSE alpha' = Some(Coin) /\ drawn' = drawn + 1
    BY <1>19 DEF NextLayer
  <2>2. drawn = used + n + m /\ challenge = InputChallenge(layer)
    BY <2>1 DEF ProverCoins, n, m
  <2>3. layer # 0 /\ layer \in 1 .. Depth /\ layer - 1 # Depth /\ (layer - 1) + 1 = layer
    BY <1>1, <1>2, <1>3, <2>1
  <2>4. ChallengeAbove(layer)' = InputChallenge(layer) /\ AlphaAbove(layer)' = WeightAt(layer)
    BY <1>6, <2>1, <2>3 DEF ChallengeAbove, AlphaAbove
  <2>5. challenge.rz_1 = None <=> SkipPhaseTwo(Layer)
    <3>1. challenge.rz_1 = IF SkipPhaseTwo(Layer) THEN None
                           ELSE Some(SubSeq(TapeAt(layer), n + 1, n + m))
      BY <2>2 DEF InputChallenge, Layer, n, m
    <3>2. \A e : Some(e) # None
      BY DEF Some, None
    <3> QED BY <3>1, <3>2
  <2>6. DrawnAbove(job)[layer - 1] = used + n + m + (IF SkipPhaseTwo(Layer) THEN 0 ELSE 1)
    <3>1. DrawnAbove(job)[layer - 1] = used + LayerDraws(job, Layer)
      BY <1>1, <1>3, <2>3, DrawnAboveType
    <3>2. LayerDraws(job, Layer) = x + y + z + (IF SkipPhaseTwo(Layer) THEN 0 ELSE x + 1)
      BY DEF LayerDraws, x, y, z
    <3> QED BY <1>2, <1>3, <2>3, <3>1, <3>2
  <2>7. WeightAt(layer) = IF SkipPhaseTwo(Layer) THEN None ELSE Some(job.coins[used + (n + m) + 1])
    <3>1. WeightAt(layer) = IF SkipPhaseTwo(Layer) THEN None ELSE Some(TapeAt(layer)[n + m + 1])
      BY DEF WeightAt, Layer, n, m
    <3>2. ~SkipPhaseTwo(Layer) => TapeAt(layer)[(n + m) + 1] = job.coins[used + (n + m) + 1]
      BY <1>1, <1>3, <2>3, UnitTapeAgrees, SMTT(60) DEF n, m
    <3> QED BY <3>1, <3>2
  <2>8. used + n + m = used + (n + m) /\ used + n + m \in Nat
    BY <1>2, <1>3, <2>3
  <2>9. DrawnAbove(job)[layer]' = DrawnAbove(job)[layer - 1]
    BY <1>4, <2>1
  <2>10. drawn' = DrawnAbove(job)[layer - 1]
    BY <2>1, <2>2, <2>5, <2>6, <2>8
  <2>11. alpha' = WeightAt(layer)
    BY <2>1, <2>2, <2>5, <2>7, <2>8 DEF Coin
  <2> QED BY <2>1, <2>2, <2>4, <2>9, <2>10, <2>11 DEF ProverCoins
<1> QED BY <1>8, <1>9, <1>10, <1>11, <1>12, <1>13, <1>14, <1>15, <1>16, <1>17, <1>18, <1>19
        DEF ProverStep

-----------------------------------------------------------------------------
(* Verifying changes nothing that the verifiers read.                      *)
LEMMA LayerUnchanged ==
  ASSUME UNCHANGED pvars, NEW CONSTANT l, NEW CONSTANT ch, NEW CONSTANT c, NEW CONSTANT a,
         NEW CONSTANT m, NEW CONSTANT t, NEW CONSTANT p
  PROVE  SumcheckVerifyGkrLayer(l, ch, c, a, m, t, p)' = SumcheckVerifyGkrLayer(l, ch, c, a, m, t, p)
<1>1. job' = job
  BY DEF pvars
<1>2. EvalCst(l, p)' = EvalCst(l, p)
  BY <1>1 DEF EvalCst, PublicInputs, Lane, Rank
<1>3. PhaseOneRounds(l)' = PhaseOneRounds(l) /\ PhaseTwoRounds(l)' = PhaseTwoRounds(l)
  BY <1>1 DEF PhaseOneRounds, PhaseTwoRounds
<1>4. (job.simd)' = job.simd
  BY <1>1
<1> QED BY <1>2, <1>3, <1>4, SMTT(30) DEF SumcheckVerifyGkrLayer

(* Nor is anything that is parsed.                                         *)
LEMMA ParsedUnchanged ==
  ASSUME UNCHANGED pvars
  PROVE  /\ ParsedAbove' = ParsedAbove /\ Depth' = Depth
         /\ NewVerifierScratchPad' = NewVerifierScratchPad
         /\ \A k : UnitOutcome(k)' = UnitOutcome(k)
<1>1. job' = job /\ proof' = proof /\ claimed_v' = claimed_v
  BY DEF pvars
<1>2. Messages' = Messages
  BY <1>1 DEF Messages, Message
<1>3. ParseStart' = ParseStart /\ Depth' = Depth
  BY <1>1 DEF ParseStart, OutputDraws, OutputChallenge, ClaimedV, Depth
<1>4. ParsedAbove' = ParsedAbove
  BY <1>1, <1>2, <1>3 DEF ParsedAbove, ParseLayer, PhaseOneRounds, PhaseTwoRounds, MessagesOf,
     After, AlphaPosition
<1>5. NewVerifierScratchPad' = NewVerifierScratchPad
  BY <1>1 DEF NewVerifierScratchPad, Lane, Rank
<1>6. ASSUME NEW CONSTANT k PROVE UnitOutcome(k)' = UnitOutcome(k)
  <2>1. UnitAt(k)' = UnitAt(k)
    BY <1>4 DEF UnitAt
  <2>2. PICK u : u = UnitAt(k)
    OBVIOUS
  <2>3. PICK l : l = job.layers[k]
    OBVIOUS
  <2>4. PICK z : z = NewVerifierScratchPad
    OBVIOUS
  <2>5. UnitOutcome(k) =
          SumcheckVerifyGkrLayer(l, u.challenge, u.claim, u.alpha, u.proof, u.tape,
            PrepareLayerNonSequential(l, u.alpha, u.challenge, z))
    BY <2>2, <2>3, <2>4 DEF UnitOutcome
  <2>6. UnitOutcome(k)' =
          SumcheckVerifyGkrLayer(l, u.challenge, u.claim, u.alpha, u.proof, u.tape,
            PrepareLayerNonSequential(l, u.alpha, u.challenge, z))'
    BY <1>1, <1>5, <2>1, <2>2, <2>3, <2>4 DEF UnitOutcome
  <2>7. SumcheckVerifyGkrLayer(l, u.challenge, u.claim, u.alpha, u.proof, u.tape,
          PrepareLayerNonSequential(l, u.alpha, u.challenge, z))' =
        SumcheckVerifyGkrLayer(l, u.challenge, u.claim, u.alpha, u.proof, u.tape,
          PrepareLayerNonSequential(l, u.alpha, u.challenge, z))
    BY LayerUnchanged
  <2> QED BY <2>5, <2>6, <2>7
<1> QED BY <1>3, <1>4, <1>5, <1>6

(* So each verifier leaves the invariant of the other as it is.            *)
LEMMA InvariantsUnchanged ==
  ASSUME UNCHANGED pvars
  PROVE  /\ ProverInv => ProverInv'
         /\ UNCHANGED seq /\ SequentialInv => SequentialInv'
         /\ UNCHANGED par /\ ParallelInv => ParallelInv'
<1>1. UNCHANGED <<job, stage, layer, rs, proof>>
  BY DEF pvars
<1>2. ProverInv => ProverInv'
  BY <1>1 DEF ProverInv, TypeOK, ProofLength, Layer, Depth, PhaseOneRounds, MessagesOf
<1>3. /\ ParsedAbove' = ParsedAbove /\ Depth' = Depth
      /\ NewVerifierScratchPad' = NewVerifierScratchPad
      /\ \A k : UnitOutcome(k)' = UnitOutcome(k)
  BY ParsedUnchanged
<1>4. UNCHANGED seq /\ SequentialInv => SequentialInv'
  BY <1>1, <1>3 DEF SequentialInv, TablesLeft, Decided
<1>5. UNCHANGED par /\ ParallelInv => ParallelInv'
  BY <1>1, <1>3 DEF ParallelInv, Decided
<1> QED BY <1>2, <1>4, <1>5

(* The prover is not at work any more once a verifier is.                  *)
LEMMA VerifierInvProver ==
  ASSUME VerifierInv, ProverStep, UNCHANGED <<seq, par>>
  PROVE  VerifierInv'
<1>1. stage # "proved" /\ job' = job
  BY DEF ProverStep, EvaluateLayer, SampleChallenge, PrepareLayerProver, RoundX,
     PrepareSimdVarVals, RoundSimd, PrepareMpiVarVals, RoundMpi, FinishPhaseOne, RoundY,
     FinishPhaseTwo, NextLayer
<1>2. ProverInv'
  BY ProverInvStep DEF VerifierInv
<1>3. seq.status = "waiting" /\ par.status = "waiting"
  BY <1>1 DEF VerifierInv, SequentialInv, ParallelInv
<1>4. Depth' = Depth /\ NewVerifierScratchPad' = NewVerifierScratchPad
  BY <1>1 DEF Depth, NewVerifierScratchPad, Lane, Rank
<1>5. SequentialInv'
  BY <1>3, <1>4 DEF VerifierInv, SequentialInv, Decided
<1>6. ParallelInv'
  BY <1>3, <1>4 DEF VerifierInv, ParallelInv, Decided
<1> QED BY <1>2, <1>5, <1>6 DEF VerifierInv

(* Both verifiers wait for the prover.                                     *)
LEMMA VerifierInvInit == VerifierInit => VerifierInv
<1>1. SUFFICES ASSUME VerifierInit PROVE VerifierInv
  OBVIOUS
<1>2. ProverInv
  BY <1>1, ProverInvInit DEF VerifierInit
<1>3. SequentialInv
  BY <1>1 DEF VerifierInit, SequentialInv, SeqFields, Decided
<1>4. ParallelInv
  BY <1>1 DEF VerifierInit, ParallelInv, ParFields, Decided
<1> QED BY <1>2, <1>3, <1>4 DEF VerifierInv

(* Proving is done when the verifiers start.                               *)
LEMMA ProvedIsComplete == ProverInv /\ stage = "proved" => ProofComplete
BY DEF ProverInv, TypeOK, ProofLength, ProofComplete

-----------------------------------------------------------------------------
(* gkr_verify starts with what parse_proof starts with, and empty tables.  *)
LEMMA StartKeeps == VerifierInv /\ StartGkrVerify => SequentialInv'
<1>1. SUFFICES ASSUME VerifierInv, StartGkrVerify PROVE SequentialInv'
  OBVIOUS
<1>2. UNCHANGED pvars /\ stage = "proved" /\ seq.status = "waiting"
  BY <1>1 DEF StartGkrVerify
<1>3. ProofComplete
  BY <1>1, <1>2, ProvedIsComplete DEF VerifierInv
<1>4. job \in Jobs
  BY <1>3 DEF ProofComplete
<1>5. Depth \in Nat \ {0} /\ Depth \in 0 .. Depth
  BY <1>4, JobFits
<1>6. /\ DOMAIN seq = SeqFields /\ seq.ok = TRUE /\ seq.alpha = None /\ seq.read = 0
      /\ seq.pad = NewVerifierScratchPad
  BY <1>1, <1>2 DEF VerifierInv, SequentialInv
<1>7. /\ DOMAIN seq' = SeqFields
      /\ seq.status' = "running" /\ seq.layer' = Depth /\ seq.challenge' = OutputChallenge
      /\ seq.claim' = [x |-> ClaimedV, y |-> None] /\ seq.drawn' = OutputDraws
      /\ seq.ok' = TRUE /\ seq.alpha' = None /\ seq.read' = 0 /\ seq.pad' = NewVerifierScratchPad
  <2>1. seq' = [seq EXCEPT !.status = "running", !.layer = Depth, !.challenge = OutputChallenge,
                           !.claim = [x |-> ClaimedV, y |-> None], !.drawn = OutputDraws]
    BY <1>1 DEF StartGkrVerify
  <2> QED BY <1>6, <2>1 DEF SeqFields
<1>8. ParsedAbove[Depth] = ParseStart
  BY <1>4, <1>5, ParsedAboveUnfolds
<1>9. TablesLeft(NewVerifierScratchPad, Depth)
  <2>1. ParsedAbove[Depth].alpha = None
    BY <1>8 DEF ParseStart
  <2>2. ~(Depth < Depth)
    BY <1>5
  <2>3. /\ DOMAIN NewVerifierScratchPad = PadFields
        /\ DOMAIN NewVerifierScratchPad.rz0 = TablePlaces(job)
        /\ DOMAIN NewVerifierScratchPad.rx = TablePlaces(job)
        /\ DOMAIN NewVerifierScratchPad.ry = TablePlaces(job)
    BY DEF NewVerifierScratchPad, PadFields
  <2> QED BY <2>1, <2>2, <2>3 DEF TablesLeft
<1>10. /\ ParsedAbove' = ParsedAbove /\ Depth' = Depth /\ stage' = stage /\ job' = job
       /\ \A k : UnitOutcome(k)' = UnitOutcome(k)
  BY <1>2, ParsedUnchanged DEF pvars
<1>11. TablesLeft(seq.pad, seq.layer)'
  BY <1>7, <1>9, <1>10 DEF TablesLeft
<1>12. \A k \in Depth + 1 .. Depth : UnitOutcome(k).ok
  BY <1>5
<1>13. /\ OutputChallenge = ParsedAbove[Depth].challenge
       /\ [x |-> ClaimedV, y |-> None] = ParsedAbove[Depth].claim
       /\ None = ParsedAbove[Depth].alpha /\ 0 = ParsedAbove[Depth].read
       /\ OutputDraws = ParsedAbove[Depth].drawn
  BY <1>8 DEF ParseStart
<1> QED BY <1>2, <1>5, <1>7, <1>10, <1>11, <1>12, <1>13 DEF SequentialInv, Decided

(* One layer more: what it finds is what its unit finds.                   *)
LEMMA LayerKeeps == VerifierInv /\ VerifyLayer => SequentialInv'
<1>1. SUFFICES ASSUME VerifierInv, VerifyLayer PROVE SequentialInv'
  OBVIOUS
<1> DEFINE k    == seq.layer
           s    == ParsedAbove[k]
           l    == job.layers[k]
           out  == SumcheckVerifyGkrLayer(l, s.challenge, s.claim, s.alpha, RecordAt(k), TapeAt(k),
                     PrepareLayer(l, s.alpha, s.challenge, seq.pad, k = Depth))
           next == s.drawn + PhaseOneRounds(l) + PhaseTwoRounds(l)
           below == ParsedAbove[k - 1]
<1>2. UNCHANGED pvars /\ seq.status = "running" /\ k > 0
  BY <1>1 DEF VerifyLayer
<1>3. /\ stage = "proved" /\ k \in 0 .. Depth /\ DOMAIN seq = SeqFields /\ seq.ok \in BOOLEAN
      /\ seq.challenge = s.challenge /\ seq.claim = s.claim /\ seq.alpha = s.alpha
      /\ seq.read = s.read /\ seq.drawn = s.drawn /\ TablesLeft(seq.pad, k)
      /\ seq.ok <=> \A j \in k + 1 .. Depth : UnitOutcome(j).ok
  BY <1>1, <1>2 DEF VerifierInv, SequentialInv
<1>4. ProofComplete
  BY <1>1, <1>3, ProvedIsComplete DEF VerifierInv
<1>5. job \in Jobs
  BY <1>4 DEF ProofComplete
<1>6. Depth \in Nat \ {0} /\ k \in 1 .. Depth /\ k - 1 \in 0 .. Depth
  BY <1>2, <1>3, <1>5, JobFits
<1>7. /\ below.alpha = WeightAt(k) /\ below.read = s.read + MessagesOf(l)
      /\ below.drawn = s.drawn + LayerDraws(job, l)
      /\ s.read = SentAbove(job, k) /\ s.drawn = DrawnAbove(job)[k]
  BY <1>4, <1>6, ParsedBelow
<1>8. /\ out.ok = UnitOutcome(k).ok /\ out.claim = below.claim /\ out.challenge = below.challenge
      /\ TablesLeft(out.pad, k - 1)
  BY <1>3, <1>4, <1>6, LayerVerified
<1>9. After(Messages, seq.read) = RecordAt(k) /\ After(job.coins, seq.drawn) = TapeAt(k)
  BY <1>3, <1>7 DEF RecordAt, TapeAt
<1> HIDE DEF k, s, l, below
<1>10. seq' = [seq EXCEPT
         !.layer = k - 1, !.ok = seq.ok /\ out.ok, !.pad = out.pad, !.claim = out.claim,
         !.challenge = out.challenge, !.read = s.read + MessagesOf(l),
         !.alpha = IF SkipPhaseTwo(l) THEN None ELSE Some(job.coins[next + 1]),
         !.drawn = IF SkipPhaseTwo(l) THEN next ELSE next + 1]
  <2>1. out = SumcheckVerifyGkrLayer(l, seq.challenge, seq.claim, seq.alpha,
                After(Messages, seq.read), After(job.coins, seq.drawn),
                PrepareLayer(l, seq.alpha, seq.challenge, seq.pad, seq.layer = Depth))
    BY <1>3, <1>9, Zenon DEF k
  <2>2. next = seq.drawn + PhaseOneRounds(l) + PhaseTwoRounds(l)
    BY <1>3
  <2> HIDE DEF out, next
  <2>3. seq' = [seq EXCEPT
         !.layer = @ - 1, !.ok = @ /\ out.ok, !.pad = out.pad, !.claim = out.claim,
         !.challenge = out.challenge, !.read = @ + MessagesOf(l),
         !.alpha = IF SkipPhaseTwo(l) THEN None ELSE Some(job.coins[next + 1]),
         !.drawn = IF SkipPhaseTwo(l) THEN next ELSE next + 1]
    BY <1>1, <2>1, <2>2, ZenonT(60) DEF VerifyLayer, l, k
  <2> QED BY <1>3, <2>3 DEF k, SeqFields
<1>11. /\ below.alpha = IF SkipPhaseTwo(l) THEN None ELSE Some(job.coins[next + 1])
       /\ below.drawn = IF SkipPhaseTwo(l) THEN next ELSE next + 1
  <2> DEFINE draws == PhaseOneRounds(l) + PhaseTwoRounds(l)
             x == l.ivars
             y == job.simd
             z == job.mpi
             used == s.drawn
  <2>1. x \in Nat /\ y \in Nat /\ z \in Nat /\ used \in Nat
    <3>1. k \in 0 .. Depth
      BY <1>6
    <3> QED BY <1>5, <1>6, <1>7, <3>1, JobFits, DrawnAboveType DEF l
  <2>2. LayerDraws(job, l) = x + y + z + (IF SkipPhaseTwo(l) THEN 0 ELSE x + 1)
    BY DEF LayerDraws
  <2>3. draws = x + y + z + (IF SkipPhaseTwo(l) THEN 0 ELSE x)
    BY DEF PhaseOneRounds, PhaseTwoRounds
  <2>4. PhaseOneRounds(l) \in Nat /\ PhaseTwoRounds(l) \in Nat
    <3>1. PhaseOneRounds(l) = x + y + z /\ PhaseTwoRounds(l) = IF SkipPhaseTwo(l) THEN 0 ELSE x
      BY DEF PhaseOneRounds, PhaseTwoRounds
    <3> HIDE DEF x, y, z
    <3> QED BY <2>1, <3>1
  <2>5. WeightAt(k) = IF SkipPhaseTwo(l) THEN None ELSE Some(TapeAt(k)[draws + 1])
    BY DEF WeightAt, l
  <2>6. ~SkipPhaseTwo(l) => TapeAt(k)[draws + 1] = job.coins[DrawnAbove(job)[k] + draws + 1]
    BY <1>5, <1>6, UnitTapeAgrees DEF l
  <2>7. below.drawn = used + LayerDraws(job, l)
    BY <1>7
  <2>8. next = used + PhaseOneRounds(l) + PhaseTwoRounds(l) /\ DrawnAbove(job)[k] = used
    BY <1>7
  <2> HIDE DEF x, y, z, used, next
  <2>9. next = used + draws /\ draws \in Nat
    BY <2>1, <2>4, <2>8
  <2> HIDE DEF draws
  <2>10. below.drawn = IF SkipPhaseTwo(l) THEN next ELSE next + 1
    BY <2>1, <2>2, <2>3, <2>7, <2>9
  <2>11. ~SkipPhaseTwo(l) => TapeAt(k)[draws + 1] = job.coins[next + 1]
    BY <2>6, <2>8, <2>9
  <2> QED BY <1>7, <2>5, <2>10, <2>11
<1> HIDE DEF out, next
<1>12. /\ DOMAIN seq' = SeqFields /\ seq.status' = "running" /\ seq.layer' = k - 1
       /\ seq.ok' = (seq.ok /\ out.ok) /\ seq.pad' = out.pad /\ seq.claim' = below.claim
       /\ seq.challenge' = below.challenge /\ seq.read' = below.read
       /\ seq.alpha' = below.alpha /\ seq.drawn' = below.drawn
  BY <1>2, <1>3, <1>7, <1>8, <1>10, <1>11 DEF SeqFields
<1>13. /\ ParsedAbove' = ParsedAbove /\ Depth' = Depth /\ stage' = stage /\ job' = job
       /\ \A j : UnitOutcome(j)' = UnitOutcome(j)
  BY <1>2, ParsedUnchanged DEF pvars
<1>14. TablesLeft(seq.pad, seq.layer)'
  <2>1. TablesLeft(seq'.pad, k - 1)
    BY <1>8, <1>12
  <2> QED BY <1>12, <1>13, <2>1 DEF TablesLeft
<1>15. (seq.ok /\ out.ok) <=> \A j \in (k - 1) + 1 .. Depth : UnitOutcome(j).ok
  <2>1. (k - 1) + 1 .. Depth = {k} \cup (k + 1 .. Depth)
    BY <1>6
  <2> QED BY <1>3, <1>8, <2>1
<1>16. (seq.ok /\ out.ok) \in BOOLEAN
  OBVIOUS
<1> QED BY <1>3, <1>6, <1>12, <1>13, <1>14, <1>15, <1>16 DEF SequentialInv, Decided, below

(* The verdict is what all layers came to.                                 *)
LEMMA FinishKeeps == VerifierInv /\ FinishGkrVerify => SequentialInv'
<1>1. SUFFICES ASSUME VerifierInv, FinishGkrVerify PROVE SequentialInv'
  OBVIOUS
<1>2. /\ UNCHANGED pvars /\ seq.status = "running" /\ seq.layer = 0
      /\ seq' = [seq EXCEPT !.status = IF seq.ok THEN "accept" ELSE "reject"]
  BY <1>1 DEF FinishGkrVerify
<1>3. DOMAIN seq = SeqFields /\ seq.ok \in BOOLEAN
  BY <1>1 DEF VerifierInv, SequentialInv
<1>4. /\ DOMAIN seq' = SeqFields /\ seq.status' = (IF seq.ok THEN "accept" ELSE "reject")
      /\ seq.layer' = seq.layer /\ seq.ok' = seq.ok /\ seq.pad' = seq.pad
      /\ seq.claim' = seq.claim /\ seq.challenge' = seq.challenge /\ seq.read' = seq.read
      /\ seq.alpha' = seq.alpha /\ seq.drawn' = seq.drawn
  BY <1>2, <1>3 DEF SeqFields
<1>5. /\ ParsedAbove' = ParsedAbove /\ Depth' = Depth /\ stage' = stage /\ job' = job
      /\ \A j : UnitOutcome(j)' = UnitOutcome(j)
  BY <1>2, ParsedUnchanged DEF pvars
<1>6. TablesLeft(seq.pad, seq.layer)'
  <2>1. TablesLeft(seq.pad, seq.layer)
    BY <1>1, <1>2 DEF VerifierInv, SequentialInv
  <2> QED BY <1>4, <1>5, <2>1 DEF TablesLeft
<1> QED BY <1>1, <1>2, <1>4, <1>5, <1>6 DEF VerifierInv, SequentialInv, Decided

-----------------------------------------------------------------------------
(* The units are those of the layers, in the order of the layers.          *)
LEMMA UnitsAreLayers ==
  ASSUME ProofComplete, NEW k \in 1 .. Depth
  PROVE  ParsedAbove[0].units[k] = UnitAt(k)
<1>1. Depth \in Nat \ {0}
  BY JobFits DEF ProofComplete
<1>2. ParsedAbove[0].units = [i \in 1 .. Depth - 0 |-> UnitAt(0 + i)]
  BY <1>1, ParsedPlaces DEF ParsedPlace
<1>3. k \in 1 .. Depth - 0 /\ 0 + k = k
  BY <1>1
<1> QED BY <1>2, <1>3

(* The units are parsed, and none is verified yet.                         *)
LEMMA ParseKeeps == VerifierInv /\ ParseProof => ParallelInv'
<1>1. SUFFICES ASSUME VerifierInv, ParseProof PROVE ParallelInv'
  OBVIOUS
<1>2. /\ UNCHANGED pvars /\ stage = "proved" /\ par.status = "waiting"
      /\ par' = [par EXCEPT !.status = "running", !.units = ParsedAbove[0].units,
                            !.challenge = ParsedAbove[0].challenge,
                            !.claim = ParsedAbove[0].claim]
  BY <1>1 DEF ParseProof
<1>3. /\ DOMAIN par = ParFields /\ DOMAIN par.result = 1 .. Depth
      /\ \A k \in 1 .. Depth : par.result[k] = "todo"
  BY <1>1, <1>2 DEF VerifierInv, ParallelInv
<1>4. /\ DOMAIN par' = ParFields /\ par.status' = "running" /\ par.result' = par.result
      /\ par.units' = ParsedAbove[0].units /\ par.challenge' = ParsedAbove[0].challenge
      /\ par.claim' = ParsedAbove[0].claim
  BY <1>2, <1>3 DEF ParFields
<1>5. /\ ParsedAbove' = ParsedAbove /\ Depth' = Depth /\ stage' = stage
      /\ \A j : UnitOutcome(j)' = UnitOutcome(j)
  BY <1>2, ParsedUnchanged DEF pvars
<1> QED BY <1>2, <1>3, <1>4, <1>5 DEF ParallelInv, Decided

(* A unit more, whichever it is.                                           *)
LEMMA UnitKeeps ==
  ASSUME VerifierInv, NEW k \in 1 .. Depth, VerifyUnit(k)
  PROVE  ParallelInv'
<1> DEFINE l    == job.layers[k]
           unit == par.units[k]
           out  == SumcheckVerifyGkrLayer(l, unit.challenge, unit.claim, unit.alpha, unit.proof,
                     unit.tape,
                     PrepareLayerNonSequential(l, unit.alpha, unit.challenge,
                       NewVerifierScratchPad))
<1>1. /\ UNCHANGED pvars /\ par.status = "running"
      /\ par' = [par EXCEPT !.result[k] = IF out.ok THEN "ok" ELSE "bad"]
  BY Zenon DEF VerifyUnit
<1>2. /\ stage = "proved" /\ par.units = ParsedAbove[0].units
      /\ DOMAIN par = ParFields /\ DOMAIN par.result = 1 .. Depth
      /\ par.challenge = ParsedAbove[0].challenge /\ par.claim = ParsedAbove[0].claim
      /\ \A j \in 1 .. Depth : /\ par.result[j] = "ok" => UnitOutcome(j).ok
                               /\ par.result[j] = "bad" => ~UnitOutcome(j).ok
  BY <1>1 DEF VerifierInv, ParallelInv
<1>3. ProofComplete
  BY <1>2, ProvedIsComplete DEF VerifierInv
<1>4. unit = UnitAt(k)
  BY <1>2, <1>3, UnitsAreLayers
<1>5. out = UnitOutcome(k)
  BY <1>4, Zenon DEF UnitOutcome
<1> HIDE DEF out
<1>6. /\ DOMAIN par' = ParFields /\ par.status' = "running" /\ par.units' = par.units
      /\ par.challenge' = par.challenge /\ par.claim' = par.claim
      /\ par.result' = [par.result EXCEPT ![k] = IF out.ok THEN "ok" ELSE "bad"]
  BY <1>1, <1>2 DEF ParFields
<1>7. /\ DOMAIN par.result' = 1 .. Depth
      /\ \A j \in 1 .. Depth : par.result'[j] = IF j = k THEN IF out.ok THEN "ok" ELSE "bad"
                                                ELSE par.result[j]
  BY <1>2, <1>6
<1>8. /\ ParsedAbove' = ParsedAbove /\ Depth' = Depth /\ stage' = stage
      /\ \A j : UnitOutcome(j)' = UnitOutcome(j)
  BY <1>1, ParsedUnchanged DEF pvars
<1>9. ASSUME NEW j \in 1 .. Depth
      PROVE  /\ par.result'[j] = "ok" => UnitOutcome(j).ok
             /\ par.result'[j] = "bad" => ~UnitOutcome(j).ok
  BY <1>2, <1>5, <1>7
<1> QED BY <1>2, <1>6, <1>7, <1>8, <1>9 DEF ParallelInv, Decided

(* The verdict is what all units came to.                                  *)
LEMMA FinishParallelKeeps == VerifierInv /\ FinishGkrParallel => ParallelInv'
<1>1. SUFFICES ASSUME VerifierInv, FinishGkrParallel PROVE ParallelInv'
  OBVIOUS
<1> DEFINE all == \A k \in 1 .. Depth : par.result[k] = "ok"
<1>2. /\ UNCHANGED pvars /\ par.status = "running"
      /\ all \/ \E k \in 1 .. Depth : par.result[k] = "bad"
      /\ par' = [par EXCEPT !.status = IF all THEN "accept" ELSE "reject"]
  BY <1>1 DEF FinishGkrParallel
<1>3. /\ stage = "proved" /\ par.units = ParsedAbove[0].units
      /\ DOMAIN par = ParFields /\ DOMAIN par.result = 1 .. Depth
      /\ par.challenge = ParsedAbove[0].challenge /\ par.claim = ParsedAbove[0].claim
      /\ \A j \in 1 .. Depth : /\ par.result[j] = "ok" => UnitOutcome(j).ok
                               /\ par.result[j] = "bad" => ~UnitOutcome(j).ok
  BY <1>1, <1>2 DEF VerifierInv, ParallelInv
<1>4. all <=> \A k \in 1 .. Depth : UnitOutcome(k).ok
  BY <1>2, <1>3
<1> HIDE DEF all
<1>5. /\ DOMAIN par' = ParFields /\ par.status' = (IF all THEN "accept" ELSE "reject")
      /\ par.units' = par.units /\ par.challenge' = par.challenge /\ par.claim' = par.claim
      /\ par.result' = par.result
  BY <1>2, <1>3 DEF ParFields
<1>6. /\ ParsedAbove' = ParsedAbove /\ Depth' = Depth /\ stage' = stage
      /\ \A j : UnitOutcome(j)' = UnitOutcome(j)
  BY <1>2, ParsedUnchanged DEF pvars
<1>7. par.status' \in {"accept", "reject"} /\ (par.status' = "accept" <=> all)
  BY <1>5
<1> QED BY <1>3, <1>4, <1>5, <1>6, <1>7 DEF ParallelInv, Decided

-----------------------------------------------------------------------------
(* Each action of either verifier, or of the prover.                       *)
LEMMA VerifierInvStep == VerifierInv /\ [Next]_vvars => VerifierInv'
<1>1. SUFFICES ASSUME VerifierInv, [Next]_vvars PROVE VerifierInv'
  OBVIOUS
<1>2. CASE ProverStep /\ UNCHANGED <<seq, par>>
  BY <1>1, <1>2, VerifierInvProver
<1>3. ASSUME UNCHANGED pvars, SequentialInv', ParallelInv'
      PROVE  VerifierInv'
  BY <1>1, <1>3, InvariantsUnchanged DEF VerifierInv
<1>4. UNCHANGED pvars /\ UNCHANGED seq => SequentialInv'
  BY <1>1, InvariantsUnchanged DEF VerifierInv
<1>5. UNCHANGED pvars /\ UNCHANGED par => ParallelInv'
  BY <1>1, InvariantsUnchanged DEF VerifierInv
<1>6. CASE StartGkrVerify
  <2>1. UNCHANGED pvars /\ UNCHANGED par
    BY <1>6 DEF StartGkrVerify
  <2> QED BY <1>1, <1>3, <1>5, <1>6, <2>1, StartKeeps
<1>7. CASE VerifyLayer
  <2>1. UNCHANGED pvars /\ UNCHANGED par
    BY <1>7 DEF VerifyLayer
  <2> QED BY <1>1, <1>3, <1>5, <1>7, <2>1, LayerKeeps
<1>8. CASE FinishGkrVerify
  <2>1. UNCHANGED pvars /\ UNCHANGED par
    BY <1>8 DEF FinishGkrVerify
  <2> QED BY <1>1, <1>3, <1>5, <1>8, <2>1, FinishKeeps
<1>9. CASE ParseProof
  <2>1. UNCHANGED pvars /\ UNCHANGED seq
    BY <1>9 DEF ParseProof
  <2> QED BY <1>1, <1>3, <1>4, <1>9, <2>1, ParseKeeps
<1>10. ASSUME NEW k \in 1 .. Depth, VerifyUnit(k) PROVE VerifierInv'
  <2>1. UNCHANGED pvars /\ UNCHANGED seq
    BY <1>10 DEF VerifyUnit
  <2>2. ParallelInv'
    BY <1>1, <1>10, UnitKeeps
  <2> QED BY <1>3, <1>4, <2>1, <2>2
<1>11. CASE FinishGkrParallel
  <2>1. UNCHANGED pvars /\ UNCHANGED seq
    BY <1>11 DEF FinishGkrParallel
  <2> QED BY <1>1, <1>3, <1>4, <1>11, <2>1, FinishParallelKeeps
<1>12. CASE UNCHANGED <<pvars, seq, par>>
  BY <1>3, <1>4, <1>5, <1>12
<1>13. Done => UNCHANGED <<pvars, seq, par>>
  BY DEF Done
<1> QED BY <1>1, <1>2, <1>6, <1>7, <1>8, <1>9, <1>10, <1>11, <1>12, <1>13 DEF Next, vvars

(* When the sequential verifier comes to layer k, it is where parse_proof  *)
(* was in the proof and in the coins, its claims are the unit's, and the   *)
(* tables that it reuses are those the unit computes anew.                 *)
THEOREM VerifierInvHolds == Spec => []VerifierInv
<1>1. VerifierInit => VerifierInv
  BY VerifierInvInit
<1>2. VerifierInv /\ [Next]_vvars => VerifierInv'
  BY VerifierInvStep
<1> QED BY <1>1, <1>2, PTL DEF Spec, vvars

-----------------------------------------------------------------------------
(* The prover does nothing while the verifiers work.                       *)
LEMMA ProverCoinsNext == ProverInv /\ ProverCoins /\ [Next]_vvars => ProverCoins'
<1>1. SUFFICES ASSUME ProverInv, ProverCoins, [Next]_vvars PROVE ProverCoins'
  OBVIOUS
<1>2. CASE ProverStep
  BY <1>1, <1>2, ProverCoinsStep
<1>3. CASE UNCHANGED pvars
  <2>1. ASSUME NEW k
        PROVE  ChallengeAbove(k)' = ChallengeAbove(k) /\ AlphaAbove(k)' = AlphaAbove(k)
    BY <1>3 DEF pvars, ChallengeAbove, InputChallenge, OutputChallenge, OutputDraws, TapeAt,
           After, Depth, AlphaAbove, WeightAt, PhaseOneRounds, PhaseTwoRounds
  <2>2. /\ Layer' = Layer /\ PhaseOneRounds(Layer)' = PhaseOneRounds(Layer)
        /\ PhaseTwoRounds(Layer)' = PhaseTwoRounds(Layer)
        /\ InputChallenge(layer)' = InputChallenge(layer)
        /\ ChallengeAbove(layer)' = ChallengeAbove(layer) /\ AlphaAbove(layer)' = AlphaAbove(layer)
        /\ DrawnAbove(job)[layer]' = DrawnAbove(job)[layer]
        /\ UNCHANGED <<job, stage, drawn, challenge, alpha, rs>>
    BY <1>3, <2>1 DEF pvars, InputChallenge, TapeAt, After, Layer, PhaseOneRounds, PhaseTwoRounds,
           ChallengeAbove, OutputChallenge, OutputDraws, Depth, AlphaAbove, WeightAt
  <2> QED BY <1>1, <2>2 DEF ProverCoins, PhaseOneReceived
<1>4. UNCHANGED pvars \/ ProverStep
  BY <1>1 DEF Next, vvars, StartGkrVerify, VerifyLayer, FinishGkrVerify, ParseProof, VerifyUnit,
         FinishGkrParallel, Done
<1> QED BY <1>2, <1>3, <1>4

(* The challenges that the prover has received, layer by layer, and the    *)
(* weight of its second claim, are the coins of the tape that parse_proof  *)
(* counts for that layer.                                                  *)
THEOREM ProverDrawsInOrder == Spec => []ProverCoins
<1>1. VerifierInit => ProverCoins
  BY ProverCoinsInit DEF VerifierInit
<1>2. VerifierInv /\ ProverCoins /\ [Next]_vvars => ProverCoins'
  BY ProverCoinsNext DEF VerifierInv
<1>3. Spec => []VerifierInv
  BY VerifierInvHolds
<1> QED BY <1>1, <1>2, <1>3, PTL DEF Spec, vvars

(* For every circuit whose layers fit together, every tape of coins and    *)
(* every corrupted message: gkr_verify and gkr_parallel come to the same   *)
(* verdict and leave the same claims, in whatever order the units are      *)
(* verified, at the challenge the prover holds; and gkr_verify has then    *)
(* read every message and drawn every coin of the prover.                  *)
THEOREM VerifiersAlwaysAgree == Spec => []VerifiersAgree
<1>1. VerifierInv /\ ProverCoins => VerifiersAgree
  <2>1. SUFFICES ASSUME VerifierInv, ProverCoins, Decided(seq), Decided(par)
                 PROVE  /\ seq.status = par.status /\ seq.challenge = par.challenge
                        /\ seq.claim = par.claim /\ seq.challenge = challenge
                        /\ seq.drawn = drawn /\ seq.read = Len(proof)
    BY DEF VerifiersAgree
  <2>2. ProverInv /\ job \in Jobs
    BY <2>1 DEF VerifierInv, ProverInv, TypeOK
  <2>3. Depth \in Nat \ {0}
    BY <2>2, JobFits
  <2>4. seq.layer = 0 /\ (seq.status = "accept" <=> seq.ok)
    BY <2>1 DEF VerifierInv, SequentialInv
  <2>5. seq.ok <=> \A k \in 0 + 1 .. Depth : UnitOutcome(k).ok
    BY <2>1, <2>4 DEF VerifierInv, SequentialInv, Decided
  <2>6. /\ stage = "proved"
        /\ seq.challenge = ParsedAbove[0].challenge /\ seq.claim = ParsedAbove[0].claim
        /\ seq.drawn = ParsedAbove[0].drawn /\ seq.read = ParsedAbove[0].read
    BY <2>1, <2>4 DEF VerifierInv, SequentialInv, Decided
  <2>7. /\ par.challenge = ParsedAbove[0].challenge /\ par.claim = ParsedAbove[0].claim
        /\ par.status = "accept" <=> \A k \in 1 .. Depth : UnitOutcome(k).ok
    BY <2>1 DEF VerifierInv, ParallelInv, Decided
  <2>8. ProofComplete
    BY <2>2, <2>6, ProvedIsComplete
  <2>9. 0 + 1 = 1 /\ 1 - 1 = 0 /\ 0 \in 0 .. Depth /\ 1 \in 1 .. Depth /\ 0 # Depth
    BY <2>3
  <2>10. ParsedAbove[0].drawn = DrawnAbove(job)[0] /\ ParsedAbove[0].read = SentAbove(job, 0)
    BY <2>8, <2>9, ParsedPlaces DEF ParsedPlace
  <2>11. ParsedAbove[0].challenge = InputChallenge(1)
    <3>1. ParsedAbove[1 - 1].challenge = InputChallenge(1)
      BY <2>8, <2>9, ParsedBelow
    <3> QED BY <2>9, <3>1
  <2>12. layer = 0
    BY <2>2, <2>6 DEF ProverInv, TypeOK
  <2>13. drawn = DrawnAbove(job)[0] /\ challenge = InputChallenge(1)
    BY <2>1, <2>6, <2>9, <2>12 DEF ProverCoins, ChallengeAbove
  <2>14. Len(proof) = SentAbove(job, 0)
    BY <2>8 DEF ProofComplete
  <2> QED BY <2>1, <2>4, <2>5, <2>6, <2>7, <2>9, <2>10, <2>11, <2>13, <2>14 DEF Decided
<1>2. Spec => []VerifierInv
  BY VerifierInvHolds
<1>3. Spec => []ProverCoins
  BY ProverDrawsInOrder
<1> QED BY <1>1, <1>2, <1>3, PTL

(* Nothing stops half-way: a second claim comes with its weight when the   *)
(* prover asserts it at the start of a layer, and no worker of             *)
(* gkr_parallel finds the tape of its unit too short.                      *)
NothingPanics ==
  /\ stage = "prepare" => (challenge.rz_1 = None <=> alpha = None)
  /\ par.status # "waiting" =>
       \A k \in 1 .. Depth :
         PhaseOneRounds(job.layers[k]) + PhaseTwoRounds(job.layers[k]) <= Len(par.units[k].tape)

(* The prover's assertion and the workers' tapes, for every circuit.       *)
THEOREM NothingEverPanics == Spec => []NothingPanics
<1>1. VerifierInv /\ ProverCoins => NothingPanics
  <2>1. SUFFICES ASSUME VerifierInv, ProverCoins PROVE NothingPanics
    OBVIOUS
  <2>2. ProverInv /\ job \in Jobs /\ layer \in 0 .. Depth
    BY <2>1 DEF VerifierInv, ProverInv, TypeOK
  <2>3. \A e : Some(e) # None
    BY DEF Some, None
  <2>4. ASSUME stage = "prepare" PROVE challenge.rz_1 = None <=> alpha = None
    <3>1. challenge = ChallengeAbove(layer) /\ alpha = AlphaAbove(layer)
      BY <2>1, <2>4 DEF ProverCoins
    <3>2. CASE layer = Depth
      BY <3>1, <3>2 DEF ChallengeAbove, AlphaAbove, OutputChallenge
    <3>3. CASE layer # Depth
      <4>1. challenge = InputChallenge(layer + 1) /\ alpha = WeightAt(layer + 1)
        BY <3>1, <3>3 DEF ChallengeAbove, AlphaAbove
      <4>2. challenge.rz_1 = None <=> SkipPhaseTwo(job.layers[layer + 1])
        BY <2>3, <4>1 DEF InputChallenge
      <4>3. alpha = None <=> SkipPhaseTwo(job.layers[layer + 1])
        BY <2>3, <4>1 DEF WeightAt
      <4> QED BY <4>2, <4>3
    <3> QED BY <3>2, <3>3
  <2>5. ASSUME par.status # "waiting", NEW k \in 1 .. Depth
        PROVE  PhaseOneRounds(job.layers[k]) + PhaseTwoRounds(job.layers[k])
                 <= Len(par.units[k].tape)
    <3>1. stage = "proved" /\ par.units = ParsedAbove[0].units
      BY <2>1, <2>5 DEF VerifierInv, ParallelInv
    <3>2. ProofComplete
      BY <2>2, <3>1, ProvedIsComplete
    <3>3. par.units[k] = UnitAt(k)
      BY <3>1, <3>2, UnitsAreLayers
    <3>4. UnitAt(k) = UnitFrom(ParsedAbove[k], k)
      BY <3>2, ParsedBelow
    <3>5. par.units[k].tape = UnitTape(k)
      BY <3>3, <3>4 DEF UnitFrom
    <3>6. PhaseOneRounds(job.layers[k]) + PhaseTwoRounds(job.layers[k]) <= Len(UnitTape(k))
      BY <2>2, UnitTapeAgrees
    <3> QED BY <3>5, <3>6
  <2> QED BY <2>4, <2>5 DEF NothingPanics
<1>2. Spec => []VerifierInv
  BY VerifierInvHolds
<1>3. Spec => []ProverCoins
  BY ProverDrawsInOrder
<1> QED BY <1>1, <1>2, <1>3, PTL

=============================================================================
