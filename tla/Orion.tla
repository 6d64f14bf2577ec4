-------------------------------- MODULE Orion --------------------------------
(***************************************************************************)
(* The Orion commitment of poly_commit/src/orion with its data: the ranks  *)
(* encode their rows, exchange them so that each holds a slice of the      *)
(* columns of the whole matrix, and commit to those; later each opens the  *)
(* columns in its slice and the root puts the answers in the order of the  *)
(* queries.  The verifier checks them against the rows it was sent.        *)
(*                                                                         *)
(* A job is one instantiation of the generic code with its inputs.  The    *)
(* collectives are single steps here: that they match is SpmdProver's      *)
(* subject, their pieces MpiChunks'.  What the transcript returns is fixed *)
(* beforehand, and the same for all (SpmdProofs).                          *)
(***************************************************************************)
EXTENDS Integers, SequencesExt, MerkleTree

CONSTANTS Nothing, Jobs, LengthThresholdG0s, AlphaG0, AlphaG1, DegreeG0, DegreeG1

VARIABLES
  job,          \* the generic parameters and the inputs
  params,       \* what gen_params returned
  srs,          \* what gen_srs returned
  at,           \* how far each rank is
  codewords,    \* each rank's buffer of packed symbols
  tree,         \* each rank's interleaved_alphabet_commitment
  merkle_cap,   \* each rank's
  rows,         \* the rows each rank has combined: the eval row and the proximity rows
  paths,        \* the paths each rank has opened
  proof,        \* the root's
  sent,         \* what arrives at the verifier, and whether it is what was sent
  verdict

vars == <<job, params, srs, at, codewords, tree, merkle_cap, rows, paths, proof, sent, verdict>>

(* The fields of the job.                                                  *)
INSTANCE OrionCode WITH P <- job.p, Red <- job.red

Ranks == 0 .. job.world - 1
ROOT_RANK == 0

Pieces(s, n) == [i \in 1 .. Len(s) \div n |-> SubSeq(s, (i - 1) * n + 1, i * n)]

(* transpose::transpose: a matrix of that width and height, row by row.    *)
Transpose(s, width, height) ==
  [k \in 1 .. width * height |-> s[((k - 1) % height) * width + (k - 1) \div height + 1]]

-----------------------------------------------------------------------------
(* The inputs.  A number for each place, with no pattern in it.            *)
Scrambled(i, j) == (job.seed * (i + 3) + i * i * 5 + i * j * 7 + j * j * 3 + (i * (i + j)) \div 3) % job.p
ExtElem(i) == [d \in 1 .. Len(job.red) |-> Scrambled(i + 11, d)]

(* MultiLinearPoly<SimdF>, or of base field elements that commit and open  *)
(* of OrionBaseFieldPCS pack first.                                        *)
InputElem(r, i) == [l \in 1 .. job.simd |-> Scrambled(job.simd * (i + r * 2^job.vars) + l, r)]
PackFromBase(es) == Pieces(es, job.simd)
Input(r) ==
  IF job.pcs = "base"
  THEN PackFromBase(FlattenSeq([i \in 1 .. 2^job.vars |-> InputElem(r, i)]))
  ELSE [i \in 1 .. 2^job.vars |-> InputElem(r, i)]

Point == [r_simd |-> [k \in 1 .. Ilog2(job.simd) |-> ExtElem(k)],
          rz     |-> [k \in 1 .. job.vars |-> ExtElem(20 + k)],
          r_mpi  |-> [k \in 1 .. Ilog2(job.world) |-> ExtElem(40 + k)]]

LocalXs(point) == point.r_simd \o point.rz
NumVars(point) == Len(point.rz) + Len(point.r_simd) + Len(point.r_mpi)

(* generate_field_elements and generate_usize_vector.                      *)
Coins(from, n) == [k \in 1 .. n |-> ExtElem(60 + from + k)]

-----------------------------------------------------------------------------
(* utils.rs: a polynomial with fewer variables is padded with zeros, and   *)
(* the point with it.                                                      *)
LiftPolyToNVars(poly, n) == poly \o [i \in 1 .. 2^n - Len(poly) |-> VZero(job.simd)]

LiftExpanderChallengeToNVars(point, n) ==
  [point EXCEPT !.rz = @ \o [k \in 1 .. n - Len(@) |-> EZero]]

Lifted(poly) == IF job.pcs = "gkr" /\ Ilog2(Len(poly)) < params THEN LiftPolyToNVars(poly, params) ELSE poly

(* The commitment's packed elements, over the same memory.                 *)
PackedEvals(poly) == [i \in 1 .. (Len(poly) * job.simd) \div job.com |->
                        FlattenSeq(SubSeq(poly, (i - 1) * (job.com \div job.simd) + 1,
                                                i * (job.com \div job.simd)))]

(* The verifier counts all variables of the point.                         *)
LiftedByVerifier(point) ==
  IF job.pcs = "gkr" /\ NumVars(point) < params THEN LiftExpanderChallengeToNVars(point, params) ELSE point

(* The prover counts those of the polynomial.                              *)
LiftedByProver(point) ==
  IF job.pcs = "gkr" /\ job.vars < params THEN LiftExpanderChallengeToNVars(point, params) ELSE point

-----------------------------------------------------------------------------
(* OrionSRS.                                                               *)
FromRandom(world, numVars, packSize) ==
  LET shape == OrionEvalShape(world, numVars, job.bits, packSize, job.leafBits)
  IN [num_vars |-> shape.vars, num_leaves_per_mt_query |-> shape.leaves,
      code_instance |-> NewOrionCode(shape.msg, job.seed)]

MessageLen  == srs.code_instance.msg_len
CodewordLen == srs.code_instance.codeword_len
CodewordPo2Len == NextPowerOfTwo(CodewordLen)
LocalNumFsPerQuery == 2^srs.num_vars \div MessageLen
PackedRows == LocalNumFsPerQuery \div job.com
SimdVars == Ilog2(job.simd)

(* gen_params of the GKR scheme plans with the circuit's packing; the      *)
(* plain schemes take what they are given.                                 *)
GenParams ==
  /\ params = Nothing
  /\ params' = IF job.pcs = "gkr"
               THEN OrionEvalShape(job.world, job.vars + SimdVars, job.bits, job.simd, job.leafBits).vars
                      - SimdVars
               ELSE job.vars + SimdVars
  /\ UNCHANGED <<job, srs, at, codewords, tree, merkle_cap, rows, paths, proof, sent, verdict>>

LocalVars == IF job.pcs = "gkr" THEN params + SimdVars ELSE params

(* gen_srs plans again, with the commitment's packing, and asserts that    *)
(* nothing has changed.                                                    *)
GenSrs ==
  /\ params # Nothing /\ srs = Nothing
  /\ LET fresh == FromRandom(job.world, LocalVars, job.com)
     IN fresh.num_vars = LocalVars /\ srs' = fresh
  /\ UNCHANGED <<job, params, at, codewords, tree, merkle_cap, rows, paths, proof, sent, verdict>>

-----------------------------------------------------------------------------
(* commit.                                                                 *)
EncodedRows(r) ==
  Transpose(FlattenSeq([i \in 1 .. PackedRows |->
                          Encode(srs.code_instance, Pieces(PackedEvals(Lifted(Input(r))), MessageLen)[i])]),
            CodewordLen, PackedRows)

Padded(buffer) ==
  buffer \o [i \in 1 .. NextPowerOfTwo(Len(buffer)) - Len(buffer) |-> VZero(job.com)]

(* compact_new_with_packed_field_elems: as many elements as fit a leaf.    *)
LeafElems == job.leafBits \div (job.com * job.bits)
CommitTree(buffer) == NewWithLeaves(Pieces(buffer, LeafElems))

CanCommit(r) ==
  /\ job.com % job.simd = 0
  /\ Len(PackedEvals(Lifted(Input(r)))) = PackedRows * MessageLen
  /\ CanBuild(Len(Padded(EncodedRows(r))) \div LeafElems)

Go(r, stage) == at' = [at EXCEPT ![r] = stage]
GoAll(stage) == at' = [r \in Ranks |-> stage]
All(stage) == \A r \in Ranks : at[r] = stage

(* orion_commit_simd_field, which the ranks of a world of one use.         *)
CommitEncoded ==
  /\ srs # Nothing /\ job.world = 1 /\ All("commit") /\ CanCommit(ROOT_RANK)
  /\ LET t == CommitTree(Padded(EncodedRows(ROOT_RANK)))
     IN tree' = [r \in Ranks |-> t] /\ merkle_cap' = [r \in Ranks |-> <<Root(t)>>]
  /\ GoAll("open")
  /\ UNCHANGED <<job, params, srs, codewords, rows, paths, proof, sent, verdict>>

(* mpi_commit_encoded, up to the exchange.                                 *)
MpiEncode(r) ==
  /\ srs # Nothing /\ job.world > 1 /\ at[r] = "commit" /\ CanCommit(r)
  /\ codewords' = [codewords EXCEPT ![r] = Padded(EncodedRows(r))]
  /\ Go(r, "exchange")
  /\ UNCHANGED <<job, params, srs, tree, merkle_cap, rows, paths, proof, sent, verdict>>

(* all_to_all_transpose: rank r gets everybody's r-th piece.               *)
AllToAllTranspose ==
  /\ job.world > 1 /\ All("exchange")
  /\ CodewordPo2Len % job.world = 0
  /\ LET piece(s, r) == Pieces(codewords[s], Len(codewords[s]) \div job.world)[r + 1]
     IN codewords' = [r \in Ranks |-> FlattenSeq([s \in 1 .. job.world |-> piece(s - 1, r)])]
  /\ GoAll("arrange")
  /\ UNCHANGED <<job, params, srs, tree, merkle_cap, rows, paths, proof, sent, verdict>>

ChunkLen == CodewordPo2Len \div job.world
GlobalPackedRows == PackedRows * job.world

(* Each rank's piece back to rows, then all rows to columns.               *)
(* Mutant: the pieces stay as they came.                                   *)
ArrangedAsCame(buffer) == Transpose(buffer, ChunkLen, GlobalPackedRows)
Arranged(buffer) ==
  LET byRank == [i \in DOMAIN Pieces(buffer, ChunkLen * PackedRows) |->
                   Transpose(Pieces(buffer, ChunkLen * PackedRows)[i], PackedRows, ChunkLen)]
  IN Transpose(FlattenSeq(byRank), ChunkLen, GlobalPackedRows)

MpiArrange(r) ==
  /\ at[r] = "arrange"
  /\ CanBuild(Len(codewords[r]) \div LeafElems)
  /\ codewords' = [codewords EXCEPT ![r] = Arranged(@)]
  /\ tree' = [tree EXCEPT ![r] = CommitTree(Arranged(codewords[r]))]
  /\ Go(r, "cap")
  /\ UNCHANGED <<job, params, srs, merkle_cap, rows, paths, proof, sent, verdict>>

(* The roots are gathered and sent back to everybody.                      *)
MpiGatherCap ==
  /\ job.world > 1 /\ All("cap")
  /\ merkle_cap' = [r \in Ranks |-> [s \in 1 .. job.world |-> Root(tree[s - 1])]]
  /\ GoAll("open")
  /\ UNCHANGED <<job, params, srs, codewords, tree, rows, paths, proof, sent, verdict>>

RootOfCap(cap) == IF Len(cap) > 1 THEN NewWithLeafNodes(cap)[0] ELSE cap[1]
Commitment == RootOfCap(merkle_cap[ROOT_RANK])

-----------------------------------------------------------------------------
(* open.  The first variables of the local point are the lanes of the      *)
(* commitment's packing, then come those of the message, then the rows'.   *)
ComVars == Ilog2(job.com)
MsgVars == Ilog2(MessageLen)
MsgPoint(xs) == SubSeq(xs, ComVars + 1, ComVars + MsgVars)
RowPoint(xs) == SubSeq(xs, 1, ComVars) \o SubSeq(xs, ComVars + MsgVars + 1, Len(xs))

ProverXs  == LocalXs(LiftedByProver(Point))
CoinsDrawn(xs, mpiPoint) == Len(xs) - MsgVars + Len(mpiPoint)
ProximityCoins(rep, n) == Coins((rep - 1) * n, n)

(* What this rank weighs its rows with.                                    *)
LocalCoeffs(r, localPoint, mpiPoint) ==
  LET mpiWeight == IthEqVecElem(mpiPoint, r)
      eq == BuildEqXR(localPoint)
  IN [k \in DOMAIN eq |-> EMul(eq[k], mpiWeight)]

EqColCoeffs(r) == LocalCoeffs(r, RowPoint(ProverXs), Point.r_mpi)

RandomColCoeffs(r, rep) ==
  LET n == CoinsDrawn(ProverXs, Point.r_mpi)
      coins == ProximityCoins(rep, n)
      local == n - Len(Point.r_mpi)
  IN LocalCoeffs(r, SubSeq(coins, 1, local), SubSeq(coins, local + 1, n))

(* SubsetSumLUTs: for bits, the sums of all sets of lanes beforehand.      *)
Luts(weights) ==
  [t \in 1 .. Len(weights) \div job.simd |->
     [lanes \in SUBSET (1 .. job.simd) |->
        ESum([l \in 1 .. job.simd |-> IF l \in lanes THEN weights[(t - 1) * job.simd + l] ELSE EZero])]]
LookupAndSum(luts, elems) ==
  ESum([t \in DOMAIN luts |-> luts[t][{l \in 1 .. job.simd : elems[t][l] = 1}]])

(* Mutant: the limbs stay in the order of the weights.                     *)
SimdLimbsUntransposed(weights) == Pieces(FlattenSeq(weights), job.simd)
(* Otherwise limb by limb with packed multiplications.                     *)
SimdLimbs(weights) == Pieces(Transpose(FlattenSeq(weights), DEGREE, Len(weights)), job.simd)
SimdExtBaseInnerProd(limbs, elems) ==
  [d \in 1 .. DEGREE |->
     Total(VSum(job.simd, [j \in DOMAIN elems |->
                             [l \in 1 .. job.simd |-> limbs[(d - 1) * Len(elems) + j][l] * elems[j][l]]]))]

(* The sums of weights and each of the columns: groups of packed elements. *)
WeighColumns(weights, columns) ==
  IF job.p = 2
  THEN LET luts == Luts(weights) IN [k \in DOMAIN columns |-> LookupAndSum(luts, columns[k])]
  ELSE LET limbs == SimdLimbs(weights) IN [k \in DOMAIN columns |-> SimdExtBaseInnerProd(limbs, columns[k])]

(* lut_open_linear_combine and simd_open_linear_combine.                   *)
OpenLinearCombine(poly, coeffs) ==
  LET chunks == Pieces(coeffs, job.com)
      evals  == Pieces(poly, Len(poly) \div Len(chunks))
      rowSums == [i \in DOMAIN chunks |-> WeighColumns(chunks[i], Pieces(evals[i], job.com \div job.simd))]
  IN [k \in 1 .. MessageLen |-> ESum([i \in DOMAIN chunks |-> rowSums[i][k]])]

LocalRows(r) ==
  LET poly == Lifted(Input(r))
  IN [eval_row |-> OpenLinearCombine(poly, EqColCoeffs(r)),
      proximity_rows |-> [rep \in 1 .. job.reps |-> OpenLinearCombine(poly, RandomColCoeffs(r, rep))]]

(* What the next draw returns depends on how many came before.             *)
QueriesAfter(drawn) == [k \in DOMAIN job.queries |-> (job.queries[k] + drawn) % CodewordLen]
QueryIndices == QueriesAfter(job.reps * CoinsDrawn(ProverXs, Point.r_mpi))
IndexRange == CodewordPo2Len \div job.world

LeavesOf(index) ==
  <<index * srs.num_leaves_per_mt_query, (index + 1) * srs.num_leaves_per_mt_query - 1>>
RangeQuery(r, index) == GenRangeProof(tree[r], LeavesOf(index)[1], LeavesOf(index)[2])
CanQuery(indices) ==
  \A k \in DOMAIN indices : RangeAsserts(LeavesOf(indices[k])[1], LeavesOf(indices[k])[2])

Evaluation(evalRow) == EvaluateWithBuffer(evalRow, MsgPoint(ProverXs))
Proof(combined, openings) ==
  [value |-> Evaluation(combined.eval_row), eval_row |-> combined.eval_row,
   proximity_rows |-> combined.proximity_rows, query_openings |-> openings,
   merkle_cap |-> merkle_cap[ROOT_RANK]]

(* orion_open_simd_field: a process on its own.                            *)
OpenSimdField ==
  /\ job.world = 1 /\ All("open") /\ CanQuery(QueryIndices)
  /\ proof' = Proof(LocalRows(ROOT_RANK),
                    [k \in DOMAIN QueryIndices |-> RangeQuery(ROOT_RANK, QueryIndices[k])])
  /\ GoAll("done")
  /\ UNCHANGED <<job, params, srs, codewords, tree, merkle_cap, rows, paths, sent, verdict>>

(* orion_mpi_open_simd_field, up to the sums.                              *)
MpiCombine(r) ==
  /\ job.world > 1 /\ at[r] = "open"
  /\ rows' = [rows EXCEPT ![r] = LocalRows(r)]
  /\ Go(r, "sum")
  /\ UNCHANGED <<job, params, srs, codewords, tree, merkle_cap, paths, proof, sent, verdict>>

(* sum_vec: only the root has the sums.                                    *)
SumRows ==
  /\ job.world > 1 /\ All("sum")
  /\ LET SumVec(s) == [k \in 1 .. MessageLen |-> ESum([i \in 1 .. job.world |-> s[i][k]])]
     IN rows' = [r \in Ranks |->
                   IF r = ROOT_RANK
                   THEN [eval_row |-> SumVec([i \in 1 .. job.world |-> rows[i - 1].eval_row]),
                         proximity_rows |->
                           [rep \in 1 .. job.reps |->
                              SumVec([i \in 1 .. job.world |-> rows[i - 1].proximity_rows[rep]])]]
                   ELSE Nothing]
  /\ GoAll("query")
  /\ UNCHANGED <<job, params, srs, codewords, tree, merkle_cap, paths, proof, sent, verdict>>

(* A rank answers the queries in its slice, in the order they came.        *)
MpiAnswer(r) ==
  /\ at[r] = "query"
  /\ LET Here(index) == index \in r * IndexRange .. (r + 1) * IndexRange - 1
         chosen == SelectSeq(QueryIndices, Here)
         mine == [k \in DOMAIN chosen |-> chosen[k] - r * IndexRange]
     IN /\ CanQuery(mine)
        /\ paths' = [paths EXCEPT ![r] = [k \in DOMAIN mine |-> RangeQuery(r, mine[k])]]
  /\ Go(r, "gather")
  /\ UNCHANGED <<job, params, srs, codewords, tree, merkle_cap, rows, proof, sent, verdict>>

(* Mutant: the answers are taken rank by rank.                             *)
ReassembledByRank(globalPaths) == FlattenSeq([i \in 1 .. job.world |-> globalPaths[i - 1]])
(* The next answer of the rank whose slice the query is in.                *)
Reassembled(globalPaths) ==
  FoldLeft(LAMBDA acc, index :
             LET r == index \div IndexRange
             IN [deque |-> [acc.deque EXCEPT ![r] = Tail(@)], flat |-> Append(acc.flat, acc.deque[r][1])],
           [deque |-> globalPaths, flat |-> <<>>], QueryIndices).flat

(* gather_varlen_vec; only the root has a proof.                           *)
GatherOpenings ==
  /\ job.world > 1 /\ All("gather")
  /\ proof' = Proof(rows[ROOT_RANK], Reassembled(paths))
  /\ GoAll("done")
  /\ UNCHANGED <<job, params, srs, codewords, tree, merkle_cap, rows, paths, sent, verdict>>

-----------------------------------------------------------------------------
(* verify.  What arrives is the root's proof, or one thing in it changed.  *)
Honest == [commitment |-> Commitment, proof |-> proof]

ChangedSymbol(v) == [v EXCEPT ![1] = (@ + 1) % job.p]

(* A change in a row that a query looks at: the code keeps the message.    *)
VisiblePlaces == {QueryIndices[k] + 1 : k \in DOMAIN QueryIndices} \intersect (1 .. MessageLen)

Tampered ==
  {[Honest EXCEPT !.commitment = LeafHash(Nothing)],
   [Honest EXCEPT !.proof.value = ChangedSymbol(@)],
   [Honest EXCEPT !.proof.merkle_cap = Tail(@)],
   [Honest EXCEPT !.proof.query_openings = Reverse(@)],
   [Honest EXCEPT !.proof.query_openings[1].leaves[1][1] = ChangedSymbol(@)]}
  \cup {[Honest EXCEPT !.proof.proximity_rows[1][k] = ChangedSymbol(@)] : k \in VisiblePlaces}
  \cup {LET lie == [proof.eval_row EXCEPT ![k] = ChangedSymbol(@)]
        IN [Honest EXCEPT !.proof.eval_row = lie, !.proof.value = Evaluation(lie)] : k \in VisiblePlaces}

Deliver ==
  /\ proof # Nothing /\ sent = Nothing
  /\ sent' \in {Honest} \cup Tampered
  /\ UNCHANGED <<job, params, srs, at, codewords, tree, merkle_cap, rows, paths, proof, verdict>>

OrionMtVerify(queries, openings, cap) ==
  LET indicesPerCap == CodewordPo2Len \div Len(cap)
  IN \A k \in DOMAIN queries :
       /\ RangePathVerify(openings[k], cap[queries[k] \div indicesPerCap + 1])
       /\ queries[k] % indicesPerCap = openings[k].left \div Len(openings[k].leaves)

(* The leaves of an opening, over the same memory.                         *)
Alphabet(opening) == Pieces(FlattenSeq(FlattenSeq(opening.leaves)), job.simd)

AlphabetCheck(codeword, fixedRl, queries, openings) ==
  LET alphabets == WeighColumns(fixedRl, [k \in DOMAIN openings |-> Alphabet(openings[k])])
  IN \A k \in DOMAIN queries : alphabets[k] = codeword[queries[k] + 1]

(* Mutant: the row behind the value is not checked with the others.        *)
RowChecksWithoutEvalRow(point, queries, got) ==
  LET n == CoinsDrawn(LocalXs(point), point.r_mpi)
  IN \A rep \in 1 .. job.reps :
       AlphabetCheck(Encode(srs.code_instance, got.proximity_rows[rep]),
                     BuildEqXR(ProximityCoins(rep, n)), queries, got.query_openings)
RowChecks(point, queries, got) ==
  LET xs == LocalXs(point)
      n  == CoinsDrawn(xs, point.r_mpi)
      Check(rl, msg) == AlphabetCheck(Encode(srs.code_instance, msg), rl, queries, got.query_openings)
  IN /\ \A rep \in 1 .. job.reps : Check(BuildEqXR(ProximityCoins(rep, n)), got.proximity_rows[rep])
     /\ Check(BuildEqXR(RowPoint(xs) \o point.r_mpi), got.eval_row)
OrionVerify(point, commitment, got) ==
  LET xs      == LocalXs(point)
      queries == QueriesAfter(job.reps * CoinsDrawn(xs, point.r_mpi))
      weights == 2^(Len(xs) - MsgVars + Len(point.r_mpi))
  IN IF Len(xs) < ComVars + MsgVars THEN "panic"
     ELSE IF \/ EvaluateWithBuffer(got.eval_row, MsgPoint(xs)) # got.value
             \/ Len(got.merkle_cap) # 2^Len(point.r_mpi)
             \/ RootOfCap(got.merkle_cap) # commitment
             \/ ~ OrionMtVerify(queries, got.query_openings, got.merkle_cap)
     THEN "reject"
     ELSE IF weights # Len(Alphabet(got.query_openings[1])) * job.simd THEN "panic"
     ELSE IF RowChecks(point, queries, got) THEN "accept" ELSE "reject"

Verify ==
  /\ sent # Nothing /\ verdict = Nothing
  /\ verdict' = OrionVerify(LiftedByVerifier(Point), sent.commitment, sent.proof)
  /\ UNCHANGED <<job, params, srs, at, codewords, tree, merkle_cap, rows, paths, proof, sent>>

-----------------------------------------------------------------------------
Init ==
  /\ job \in Jobs
  /\ params = Nothing /\ srs = Nothing
  /\ at = [r \in Ranks |-> "commit"]
  /\ codewords = [r \in Ranks |-> Nothing] /\ tree = [r \in Ranks |-> Nothing]
  /\ merkle_cap = [r \in Ranks |-> Nothing]
  /\ rows = [r \in Ranks |-> Nothing] /\ paths = [r \in Ranks |-> Nothing]
  /\ proof = Nothing /\ sent = Nothing /\ verdict = Nothing

Terminated == verdict # Nothing /\ UNCHANGED vars

Next ==
  \/ GenParams \/ GenSrs
  \/ CommitEncoded
  \/ \E r \in Ranks : MpiEncode(r) \/ MpiArrange(r) \/ MpiCombine(r) \/ MpiAnswer(r)
  \/ AllToAllTranspose \/ MpiGatherCap \/ SumRows \/ GatherOpenings
  \/ OpenSimdField
  \/ Deliver \/ Verify \/ Terminated

Spec == Init /\ [][Next]_vars

-----------------------------------------------------------------------------
(* What the commitment and its openings promise.                           *)

(* Every rank gets the same whole number of columns, at least one, and the *)
(* leaves that answer a query hold exactly one column of all ranks' rows,  *)
(* whatever the planning added to the number of variables: the asserts of  *)
(* mpi_commit_encoded and of range_query never fail.                       *)
RanksShareTheCodeword ==
  srs # Nothing =>
    /\ CodewordPo2Len % job.world = 0
    /\ LocalNumFsPerQuery = PackedRows * job.com /\ PackedRows >= 1
    /\ srs.num_leaves_per_mt_query * LeafElems = PackedRows * job.world
    /\ MessageLen = 2^MsgVars

(* The element at a row and column of the matrix the trees' leaves hold,   *)
(* rank r's slice of columns behind those of the ranks before.             *)
Committed(row, column) ==
  LET slice == FlattenSeq(tree[column \div IndexRange].leaves)
  IN slice[(column % IndexRange) * PackedRows * job.world + row]

(* What the ranks commit to together is, row by row, a codeword of each    *)
(* piece of each rank's polynomial: the message in front, every graph's    *)
(* output the sum of its neighbours, nothing behind the codeword, in spite *)
(* of two transposes, an exchange of pieces and a third transpose          *)
(* (mpi_commit_encoded) or just one (commit_encoded).                      *)
CommitsToCodewords ==
  (\A r \in Ranks : tree[r] # Nothing) =>
    \A s \in Ranks, i \in 1 .. PackedRows :
      LET word   == [c \in 1 .. CodewordPo2Len |-> Committed((s * PackedRows) + i, c - 1)]
          packed == PackedEvals(Lifted(Input(s)))
          graphs == srs.code_instance.g0s \o srs.code_instance.g1s
      IN /\ SubSeq(word, 1, MessageLen) = Pieces(packed, MessageLen)[i]
         /\ \A k \in DOMAIN graphs : \A out \in graphs[k].output_starts .. graphs[k].output_ends :
              LET edges == graphs[k].neighborings[out - graphs[k].output_starts]
                  from  == graphs[k].input_starts
              IN word[out + 1] = VSum(job.com, [e \in 1 .. graphs[k].output_starts - from |->
                                                  IF e - 1 \in edges THEN word[from + e]
                                                  ELSE VZero(job.com)])
         /\ \A c \in CodewordLen + 1 .. CodewordPo2Len : word[c] = VZero(job.com)

(* A path leads from its leaf to the root of its tree, and from no other   *)
(* place and no other leaf; nothing else connects the two index schemes:   *)
(* gen_proof climbs by node numbers, root by the bits of the leaf's index. *)
PathsOpenTheirLeafOnly ==
  \A r \in Ranks : tree[r] # Nothing =>
    \A i \in 0 .. Len(tree[r].leaves) - 1 :
      LET path == GenProof(tree[r], i)
      IN \A j \in 0 .. Len(tree[r].leaves) - 1 :
           LET leaf == tree[r].leaves[j + 1]
           IN PathRoot([path EXCEPT !.index = j, !.leaf = leaf]) = Root(tree[r])
                <=> GenProof(tree[r], j) = [path EXCEPT !.index = j, !.leaf = leaf]

(* The k-th opening the root hands over is that of the k-th query: its     *)
(* leaves are the column asked for, whichever rank answered it and however *)
(* many queries that rank answered before (orion_mpi_mt_openings).         *)
QueriesAnsweredInOrder ==
  proof # Nothing =>
    \A k \in DOMAIN QueryIndices :
      FlattenSeq(proof.query_openings[k].leaves)
        = [row \in 1 .. PackedRows * job.world |-> Committed(row, QueryIndices[k])]

(* Element e of the global polynomial, one base field element each.        *)
GlobalEvals == FlattenSeq([i \in 1 .. job.world |-> FlattenSeq(Lifted(Input(i - 1)))])

(* The value that goes with the proof is the multilinear extension of all  *)
(* ranks' evaluations at the whole point, by its definition as a sum over  *)
(* the hypercube, though it was computed from row sums weighed by tables   *)
(* of subsets or packed limbs, by each rank with its own share of eq.      *)
ValueIsMultilinearExtension ==
  proof # Nothing =>
    LET point == ProverXs \o Point.r_mpi
    IN proof.value = ESum([e \in DOMAIN GlobalEvals |->
                             VScale(GlobalEvals[e], IthEqVecElem(point, e - 1))])

(* The verifier accepts exactly the opening that was made.                 *)
OpeningDecidesRightly ==
  verdict # Nothing => verdict = IF sent = Honest THEN "accept" ELSE "reject"

=============================================================================
