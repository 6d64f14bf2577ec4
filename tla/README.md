# A TLA+ model of the Expander prover and verifier in lattice_zk

This directory holds TLA+ modules that model the GKR prover of this repository
as a parallel program, its Fiat-Shamir transcript, its verifiers, the
arithmetic of its sumchecks, its polynomial commitments (Orion, Hyrax and KZG),
the Merkle trees and the field arithmetic under them, the loading of circuits and
witnesses and the pieces in which long vectors are moved; TLC configurations
that check them; and proofs, checked by TLAPS, of what has to hold for every
number of ranks and every circuit. `PROJECT.json` lists the runs, the mutated
definitions that show each property can fail, the source lines each definition
translates, the hazards the properties are for, and the theorems.

    tlc -workers 2 -config MCProver_benchmark.cfg MCProver      # one run
    tlapm SpmdProofs.tla                                        # one proof

## 1. Inventory

The system proves the correct evaluation of a layered arithmetic circuit. The
prover is an SPMD program over MPI ranks, the verifier a single process.

| Part | State | Operations | What makes it correct |
|---|---|---|---|
| `transcript` | digest, proof bytes, hash pointer, lock | append, sample, commit, lock/unlock, `set_state`, finalize | every challenge depends on all that was appended; the proof holds exactly the unlocked appends |
| `gkr_engine` (MPI) | none of its own; MPI's matching of collectives, the shared memory window | gather, broadcast, barrier, all-to-all, `coef_combine_vec` | all ranks make the same collectives in the same order; chunking moves every byte once; a window is large enough and is read where it was written |
| `gkr` prover | transcript of each rank, scratch pad, circuit values | `prove`, `gkr_prove`, grinding, opening of the input claims | the ranks use the same challenges; no rank reads coefficients of another proof; the claims are true |
| `sumcheck`, layer by layer | tables in the scratch pad, folded in place, reused by the next layer | `prepare_*`, `poly_evals_at_*`, `receive_*`, the verifier's `eval_*` | completeness: no table is stale or folded when it is read |
| `sumcheck`, generic | round, the pairs of polynomials, prefix factors | `prover_init`, `prove_round_and_update_state`, `check_and_generate_subclaim` | pairs with fewer variables stand for padded ones although they are not written out |
| `gkr` verifier | transcript, reading position, scratch pad | `verify`, `par_verify` | follows the prover's transcript, reads the whole proof, and both verifiers agree |
| `circuit` | gates, values, random coefficients in shared memory | load, flatten, share, evaluate, load a witness, `fill_rnd_coefs` | a flattened circuit is the one of the file, prover and verifier have the same one, each lane gets one witness; coefficients are filled before they are read |
| `poly_commit` | SRS, Merkle trees, scratch pads | commit, open, verify of Raw, Orion, HyperKZG, HyperBiKZG, Hyrax; batching | the dialogue with the transcript and between ranks is the verifier's; what the ranks put together is one opening of one polynomial; the verifier accepts it and no other |
| `bin` | the proof file; in Serve four mutexes | `Prove`, `Verify`, `Serve`, the MPI benchmark | the file holds the root's proof |
| `tree` | leaves and nodes of a Merkle tree | build, path, range opening | an opened path or range verifies with its leaves and no others |
| `lattice_poly_commit` | commitment cached in the scratch pad | commit, open, verify | open uses the commitment of the polynomial it opens |
| `serdes`, `serdes_derive` | none | (de)serialization | reads what was written |
| `arith` | none | each field as a scalar and as vectors for AVX2, AVX-512 and NEON; polynomials | whatever order operations come in, words mean the right element, stay in the range the next operation needs and compare as elements |
| `hasher` | none | hashes | collision freedom |
| `recursion` (Go) | a circuit | the verifier, in a circuit | the same transcript order as `verify` |
| `celpc-main`, `crosslayer_prototype`, `expander` (Go), `tools` | own | stand-alone ports, prototypes, a converter | not used by the prover |
| `config_macros`, `utils`, `scripts`, `results` | none | configuration, timing, experiments | no behaviour |

**How they interact.** `Prover::prove` binds the public inputs, commits
(collectively), broadcasts the digest, grinds, lets the root draw the random
coefficients into the shared memory window, fences them with a barrier,
evaluates, runs one sumcheck for each layer from the output down, and opens the
commitment at one or two points inside a locked section of the transcript. Only
the root's transcript becomes the proof, but every rank keeps one and, between
broadcasts, samples from it. The scratch pad goes from layer to layer with the
tables of `eq` left in it. `Verifier::verify` re-derives the challenges from the
proof; `par_verify` first parses the whole proof into units, each with the coins
it will need, and checks the units on a thread pool.

**What is hard.**

* *Several processes, one program.* A collective inside `is_root()`, or one
  missing, pairs a call with another place's call, or hangs everybody.
* *A digest per rank.* The ranks append different values and still have to
  sample equal points; it takes a broadcast in the right place each time.
* *Shared memory.* The root writes gate coefficients through raw pointers while
  others may still use them for the last proof.
* *Bytes skipped.* `set_state` and `unlock_proof` move the hash pointer.
* *Two copies of one protocol.* Each broadcast, lock and append of the prover has
  a counterpart in the verifier, and some have an effect with MPI only.
* *Tables reused.* Rounds fold tables in place; the next layer reads some of them.
* *No layout in the window.* Writer and readers walk over shared memory with raw
  pointers, at addresses of their own.
* *Pieces.* Strides, short last pieces and an exchange in place.
* *Words that are not canonical.* Most fields keep several words for one element, each
  backend normalizes in other places, and what is compared, hashed or branched on is
  the word.
* *Answers out of order.* A rank opens the queries that fall into its columns; the root
  sorts the answers of all ranks back into the order of the queries.
* *Sizes that differ.* A polynomial too small to commit to is lifted, rows are padded,
  several openings are merged into one: prover, verifier and ranks have to agree on each.
* *Order.* A hash map gives the gates of a layer their order, and the order gives
  them their challenges. The parallel verifier's units run in any order from precomputed coins.

`PROJECT.json` has the hazards line by line. Nothing in the modelled part
persists across a crash and MPI is reliable and ordered, so there is no
crash-recovery and no message loss to model.

## 2. The modules

| Module | Models | Kind |
|---|---|---|
| `World` | ranks, root | constants |
| `BytesHashTranscript` | `transcript/src/byte_hash_transcript.rs` | operators on a record |
| `GkrScript` | the straight-line programs of `prove`, the commitment schemes, `main_mpi` and `verify` for a circuit shape | operators |
| `SpmdProver` | ranks running one program: transcript, collectives, shared coefficients, proof file | specification |
| `SharedRandomness` | the promise: each challenge is one coin | abstract specification |
| `GkrSnark` | `SpmdProver` and the verifier of `gkr/src/verifier/snark.rs` | composition |
| `MCProver`, `MCSnark` | circuit shapes for TLC | model checking |
| `TinyField` | a prime field, `eq` tables, folding, interpolation | operators |
| `GkrLayers` | the arithmetic of `gkr_prove` with the scratch pad of each rank | specification |
| `GkrLayersVerifier` | the arithmetic of `gkr_verify` and `gkr_parallel` over that proof | composition |
| `MCLayers` | small circuits for TLC | model checking |
| `MpiChunks`, `MCChunks` | `gather_vec`, `scatter_vec`, `all_to_all_transpose`, byte for byte | specification, model checking |
| `SharedMem` | `consume_obj_and_create_shared`: measuring, allocating, writing and reading an object in a shared window | specification |
| `CircuitLoading`, `MCLoading` | `SharedMem`, with `flatten`, the root, the other ranks and the verifier up to the filled coefficients | composition, model checking |
| `Words` | words of w bits, vectors of them, the default methods of `Field` and `SimdField` | operators |
| `FieldMachine`, `ExtensionMachine` | a program over one field type, whose operations are the constants; beside the accumulator the element it ought to be | specification |
| `M31x16`, `BabyBearx16`, `Goldilocksx8`, `Gf2xn` | the base fields of `arith`: the scalar, and its vectors in each backend | operators, instances of `FieldMachine` |
| `M31Ext`, `BabyBearExt`, `GoldilocksExt`, `Gf2Ext128` | their extensions | operators, instances of `ExtensionMachine` |
| `MCFields` | all 29 types over small words | model checking |
| `SmallField` | a prime field, extensions of it, `eq` tables, evaluation | operators |
| `MerkleTree` | `tree/src` | operators |
| `OrionCode` | the shape Orion commits in, its expander code | operators |
| `Orion`, `MCOpenings` | Orion with its data: commit, exchange, open and verify on all ranks | specification, model checking |
| `SumCheckIOP` | `sumcheck/src/sumcheck_generic` | operators |
| `Hyrax` | Hyrax on several ranks, batching, merging of points; the state of all curve-based schemes | specification |
| `HyperBiKzg`, `MCHyrax` | HyperKZG and HyperBiKZG over `Hyrax`'s state | composition, model checking |
| `ProofLemmas`, `SpmdProofs` | proofs about `SpmdProver`, for any program | theorems |
| `ScriptProofs` | proofs that the programs of `GkrScript` meet what those assume | theorems |
| `SnarkProofs` | proofs about `GkrSnark`: the verifier follows the prover | theorems |
| `GkrLayersProofs` | proofs about `GkrLayersVerifier`: the two verifiers agree | theorems |
| `MpiChunksProofs` | proofs about pieces | theorems |
| `SharedMemProofs` | proofs about windows, and about `CircuitLoading` | theorems |
| `M31Proofs` | proofs about `M31x16`, with the modulus 2^31 - 1 and 16 lanes | theorems |

### The control: GkrScript, SpmdProver, GkrSnark

The control flow of `prove` depends on the shape of the circuit, not on values,
so `GkrScript` unrolls it into a sequence of operations, each with the ranks
that make it (`all`, or `root` inside `is_root()`) and a label for the value.
Every operator there carries the name of its function. `SpmdProver` gives the
operations their meaning: `pc` is a rank's place in the program, `tr` its
transcript, `posted` the collectives it has entered, `chal` the challenges it
has used, `coef` the shared coefficients (by the fill that wrote them), `proofs`
what `prove` returned and `file` the proof on disk. A collective is two steps,
`Enter` and one of the `Leave` actions; MPI is external and matched by order
alone, so a mismatch is representable. A receiver of a broadcast waits for the
root, the root of a gather for everybody, a barrier or all-to-all for everybody
everywhere; in particular a leaf runs ahead of a root that gathers, and the root
ahead of leaves that receive.

`GkrSnark` adds the verifier: its program, its reading position and its verdict.
It starts when the proof file is there, and may be called with other public
inputs than the proved ones.

**Abstraction.** An item stands for the bytes of one append and carries its label
and the rank that appended it, so nothing assumes that two ranks append equal
values. A digest is the history hashed into it (a collision-free hash). The
algebraic checks of the verifier hold exactly when it has drawn the challenges
the prover used: what that rests on is the subject of `GkrLayersVerifier`.
`Prog` is a constant, so the theorems are about every program.

### The arithmetic: TinyField, GkrLayers, GkrLayersVerifier

`GkrLayers` computes with real numbers of a field of 31 elements: values, gates,
the tables of each rank's `ProverScratchPad` with their allocated sizes and
stale tails, the round messages at 0, 1, 2 (and 3), and the claims. A step is
one call made by all ranks. The challenges are a tape of coins fixed beforehand,
because the Fiat-Shamir side is covered above. `GkrLayersVerifier` runs both
verifiers on the messages, one of which may be corrupted, with an honest or a
wrong claimed value. `seq` and `par` are the two verifiers' states; the units of
`par` are verified in any order, interleaved with `seq`.

### Moving and sharing data: MpiChunks, SharedMem, CircuitLoading

`MpiChunks` moves bytes that are known by the rank and the offset they start
from. A step is one MPI call made by all ranks, because that the calls match is
what `SpmdProver` is about; MPI's own placing of equal pieces is external. The
buffer's length is a variable (`size`), since the code shortens it in the last
round and MPI takes the length of the pieces from it.

`SharedMem` follows the pointers of `consume_obj_and_create_shared`: the root adds
up `bytes_size` field by field (`upto`), writes field by field (`placed`), and every
rank reads with a pointer and a base address of its own (`got`). A field is a word
or a vector with an element size and an alignment; the window holds nothing but
what was written, so a rank that goes astray reads zeros. A read is possible
before the root is done unless the barrier forbids it.

`CircuitLoading` is what happens before `prove` and `verify`. The root and the
verifier flatten the same file, each with its own order of the leaf segments
(`Orders`: a `HashMap` iterates in any), the circuit goes through `SharedMem`, and
every process finds its random gates, adds the relay layer and loads its part of
the witness. Challenges are known by their number; that both sides draw the same
ones is `GkrSnark`'s subject. `Flattenings` are the circuits that some order gives.
Serialized files are taken as what they parse to.

### Fields: Words, FieldMachine and the types

The backends of a field differ in where they reduce, so what can go wrong is a
word that one operation leaves and another does not expect. `FieldMachine` is
therefore a program: an accumulator `acc` goes through any sequence of the
operations of the traits, and `is` holds, lane by lane, the element it ought to
be. A type is an instance with its own operations, translated word by word from
its file; the operands are words the type can hold, the non-canonical ones
included. `kind` says which type a behaviour is about. With `Careful` the program
avoids the operations listed in `KnownWrong` (section 5), without it it does not.

The word size is a constant, and TLC uses the smallest field of the same form:
2^3 - 1 for 2^31 - 1, 7 in Montgomery form modulo 2^4 for BabyBear's modulo 2^32,
2^4 - 2^2 + 1 for 2^64 - 2^32 + 1, and polynomials modulo x^28 + x^3 + x^2 + x + 1, in
words of seven bits, for those modulo x^128 + x^7 + x^2 + x + 1. Scaled down, an
addition chain no longer spells the modulus less two; the small fields are chosen
so that the chain still is an inverse. For Mersenne 31 the proofs take over at the size it
has (`M31Proofs`). Instructions are external, by what the vendor
documents.

### Orion: SmallField, MerkleTree, OrionCode, Orion

`Orion` has one action per stage of the code, on all ranks: each rank encodes its
rows, the ranks exchange them so that each holds a slice of the columns, each
builds a tree over its slice and the root one over their roots; to open, the
rows are combined, each rank answers the queries that fall into its slice, and the
root puts the answers in the order of the queries. The verifier, given the
opening with at most one thing changed, decides. A job is one instantiation of the
generic code: which interface, the field, its packing, the number of ranks, the
polynomial and the queries. A hash is the term it is the hash of. Challenges are
fixed beforehand and equal on all ranks, which is a theorem of `SpmdProofs`.

### Curves: SumCheckIOP, Hyrax, HyperBiKzg

A point of a curve is its exponent; under Hyrax's independent bases it is a vector of
exponents, a pairing is a product, and the secret of the setup is a number. So
commitments are linear and can be compared, and nothing is said about how hard they
are to forge. `Hyrax` has the state: `local` what each rank has made, `ps` the state
of the sumcheck (under HyperBiKZG, what the root has gathered), `messages`, `opening`,
then `sent` with at most one number changed, and `verdict`. HyperBiKZG alternates four
times between ranks and root, each rank at its own pace.

## 3. The runs

| Run | Instance | States | Shows |
|---|---|---|---|
| `benchmark` | 2 ranks, Orion, 2 layers, random coefficients, grinding, two proofs | 2847 | in every interleaving the collectives match, all ranks use the same challenges, coefficient reads are current, the ranks implement one shared tape, and all terminate |
| `kzg` | 2 ranks, HyperBiKZG, proof file, verifier | 1151 | the verifier follows the root's challenges through the locked opening, reads the proof to its end and accepts; each challenge binds all appended since the commitment |
| `recursion` | 1 rank, `recursion` and `grinding` features, two claims, a public input | 133 | acceptance of exactly the proved statement |
| `layers` | 20 jobs: 4 circuits, 1–4 lanes, 1–4 ranks, honest, wrong claim, corrupted messages | 2733 | the claims between layers are the multilinear extension (a reference sum over the hypercube), no table is stale when a layer begins, the sequential verifier accepts exactly the honest case, and the parallel one agrees in every order |
| `chunks` | gather, scatter, transpose; 1–4 ranks; 0–9 bytes with limits 4 and 8 | 299 | after every piece each byte is where it belongs and no other has moved; the buffer fits the short piece; nothing is left |
| `share` | 2 ranks and the verifier, 5 jobs: nested circuit, witnesses just enough, too many, too few, padded, of another circuit | 11447 | flattening gives the gates the file means in every order of the leaves; ranks build the root's circuit from the window; every lane gets one witness; prover and verifier deal the challenges to the same gates |
| `fields` | 29 types and backends, any number of operations where the words close, two otherwise | 5300 | every sequence of operations keeps words in range and means the right element; comparisons see elements; exactly the units have inverses; bytes survive the proof; no assumption handed to the compiler is false |
| `openings` | 12 jobs: 1, 2, 4 ranks; F_7 with x^2 = -1, F_2 with x^4 = x + 1; lifted, unencoded, once and twice encoded rows | 432 | the ranks plan a shape they can share, trees hold codewords, a path opens its leaf only, answers are in order, the value is the multilinear extension, and only the honest opening is accepted |
| `batch` | 16 jobs: Hyrax, HyperKZG, HyperBiKZG; 1, 2, 4 ranks; one opening, several at a point, several of different sizes at several points | 634 | each sumcheck message is that of the padded polynomials written out, both sides merge to the same commitment, and only the honest opening is accepted |
| `is_zero` | BabyBear on AVX2 with every operation | violation | see findings |
| `leaf_order` | a layer with random gates in two segments | violation | see findings |
| `pairing_dropped` | the jobs of `batch`, HyperKZG's own verdict | violation | see findings |

Every property of a passing run has a mutant in `PROJECT.json`: a named
operator, next to the definition it replaces, with a plausible mistake that
makes the property fail.

**Bounds and why they suffice.** Two ranks have every pair of roles (root, leaf);
ranks do not interact otherwise, and the theorems cover more. The programs have
one variable per loop, since a further round repeats the same operations:
`ProximityDraws` (1) and `QueryDraws` (2) stand for the repetitions of Orion,
`GrindRounds` for the grinding loop, `NProofs` (1, after the first proof) for the
ten proofs of a benchmark round, because a coefficient read can only be confused
with the neighbouring proof's. Two layers have both kinds of layer and a
transition between them. In `layers`, three layers give the transitions that
matter to the scratch pad (two claims after one, one after two, two after two),
sizes grow and shrink, four lanes and ranks give a second round of each kind,
and the two coin tapes of each circuit are fixed pseudo-random sequences: a false
identity in the tables would hold at them only by chance. That a wrong claim or
message is rejected is checked for these coins; soundness error is not a
property of a field of 31 elements.

In `chunks`, the lengths go from nothing to a byte more than two pieces, so that
there is a whole, a short and a missing last piece, with worlds that do and do
not divide the limit; the theorems cover all others. In `share`, the circuit has
a segment placed directly and inside another one that is placed twice, all gate
kinds, a first layer with and a second without products, and random gates in one
segment of each layer, which is the case in which the order of segments cannot
matter; two lanes and two ranks tell a lane from a rank.

In `fields`, a vector has two or four lanes, enough for even and odd lanes and for
two halves; the types whose words close under the operations run without a bound
and the others up to `Depth` (2) operations, of which the first can be a pack or a draw, so that an
unreduced word meets every operation. In `openings`, messages longer than 3 symbols
are encoded and those of 16 by two graphs and two more, which is where the parity
of parity is; queries fall into every rank's slice, out of order, and some are asked
twice. In `batch`, polynomials have no variable to five, sizes rise, fall and repeat, and
the root has to wait for the slowest of four ranks in each of its turns. The field has
10007 elements: a changed number goes unnoticed for one challenge in thousands, and
the coins are fixed.

**Fairness.** `SpmdProver` assumes weak fairness of each rank's step and `GkrSnark`
of the verifier's: a rank is an operating system process that runs when MPI lets
it, and no step can be disabled by another rank once enabled. Only `Termination`,
`DecidesRightly` use it. Deadlock is checked in every run, with the end of all programs
as an explicit step, except in `fields` and `is_zero`, where a program may use up its `Depth`.

## 4. What is proved

For every number of ranks and every program, in `SpmdProofs`, under
`CollectivesOnAllRanks` (no collective sits inside `is_root()`):

* `TypeCorrect`: `TypeOK` is invariant. It is not by itself inductive: a rank
  adopts as its digest what the root posted at the same number, and that this
  is a digest depends on the collectives matching.
* `CollectivesAlwaysMatch`: the n-th collective of all ranks is the same call.
  The invariant `MatchInv` adds that a rank has entered as many collectives as
  its program has before its place (plus one while inside one), and that each
  posted message is the one of its call.

In the same module, under `Disciplined` (besides, only the root fills, every
sample of one's own transcript comes after a sync with only quiet calls in
between, and reads of the gates are fenced from the fills on both sides):

* `ChallengesAgree`: all ranks use the same challenges.
* `CoefReadsAlwaysCurrent`: no rank reads a coefficient of another proof.
* `ImplementsOneSharedTape`: the parallel prover implements `SharedRandomness`.

The inductive invariant `AgreeInv` traces a challenge to what the root posted:
`SyncOK` says that after a sync, as long as only quiet calls follow, a rank's
digest is the root's of that sync hashed once for each sample since; `DrawsOK`
says that each challenge used came from such a digest or from the root's message;
`DrawOnce` that a place gives one challenge; `RootFirstOK` and `LeavesFirstOK` that
a rank past a collective knows who had to get there before; `CoefOK` that memory
holds the root's last fill.

In its second part, on transcripts:

* `ChallengesBind`, for every program that begins with `new` and makes its collectives
  on all ranks: each challenge of the root is the hash of all it appended since the
  commitment, in order. The invariant `BindInv` is about what a transcript *has bound*,
  the bytes its digest absorbed followed by those behind the hash pointer: this is all
  the root appended (`RootBound`), and inside a collective what the root posted is
  its own digest and nothing is left to hash (`OwnDigestOK`), so that adopting the
  broadcast and moving the pointer skips nothing. The pointer stays within the proof.
* `RanksNeverStuck`, if moreover `LocksAlternate`: `NeverStuck`, that all are done or
  a rank can step, spelled out as `CanStep` since ENABLED is out of the prover's reach.
  `LockInv` says that a transcript is locked exactly between a lock of the program and
  the call that opens it; that the collectives match (`MatchInv`) gives the rest: the
  rank that is furthest behind, or one beside it, waits for nobody. Since each step
  enters or leaves a call, weak fairness makes this `Termination`, which TLC checks.

In `ScriptProofs`, for `ProveCommand` and `RunBenchmark` with every circuit, commitment
scheme, number of ranks, of proofs and of grinding rounds, nothing else assumed:

* `ProgramsAreDisciplined`, and so `DisciplineKept`, `ProverRanksAgree`,
  `ProverChallengesBind` and `ProverNeverStuck`: the theorems above hold of the
  programs the code runs, not only of those that meet a condition.

Each condition on a program becomes a predicate on its pieces that two pieces in a row
keep: `Keeps` (its flag says whether a sync has to come before the piece), `Paired` for
locks, `OnlyOps` for pieces made of harmless calls. `Join`, `JoinPaired` and `OnlyJoin`
are the lemmas; then there is one lemma for each function of the code. The piece that
needs most is the commitment: that every scheme gathers when it commits is what keeps
the root from filling the coefficients of the next proof too early. A loop is a
`FlattenSeq`, and `FlattenStaysIn` leads it back to concatenation by induction on its
length; `SetInduction` states that induction for a set of numbers, as the provers
cannot instantiate the library's theorem.

In `SnarkProofs`, for `ProveCommand` and `Verify` with every circuit, every commitment scheme,
any grinding rounds and any statement, under `SidesFit`:

* `ProgramsMatch`: the two programs have the same *events*. An event is what a call does to
  a transcript: append a value, start over from the commitment, draw, refresh, lock, unlock.
  The prover's collectives, its coefficient reads and its evaluations have none, and no more
  have the verifier's reads of the public inputs; an append of the prover and a parse of the
  verifier are one event, a fill of coefficients and a sample another.
* `VerifierFollows`: `VerifierFollowsProver` is invariant in the composition of the ranks and
  the verifier.

A piece of a program leads from a *phase* (fresh, bound, locked, ...) to another by a
sequence of events (`Traces`). Pieces in a row that match still match (`MatchesJoin`), and a
piece without events may be put beside any other (`SilentAfter`, `SilentBefore`), so that
`ProgramsMatch` is again one lemma for each pair of functions: `SameLayer`, `SameOrion`,
`SameHyperBiKzg`, `SamePublicInputs` and so on. The verifier's functions cut its program at
other places than the prover's, which is what the lemmas on regrouping are for.

The events lead through transcripts `T[0], T[1], ...` that depend on nothing else (`IsRun`).
The inductive invariant `FollowInv` says that the root's transcript is `T[n]` for the number
n of events its place in the program stands for (`RootTranscript`), the verifier's likewise,
and that each has drawn its challenges from these (`RootDrew`, `VerifierDrew`). It holds
beside `MatchInv`, which makes what the root takes from a broadcast its own digest, so that
a sync is a refresh, and `BindInv`. Two things are not equality. Before the
commitment the prover has one sync the verifier has not, and only in builds without recursion does the commitment make both forget
what they had hashed (`Alike`). And inside a collective the root is ahead by the refresh
(`Ahead`). `FiledLast` says that a verifier that has drawn
anything reads a finished proof, so the root has all its challenges.

`SidesFit` is what both sides have to be built and called with. The MPI rounds, which one
side counts with `trailing_zeros` and the other with `ilog2`, are as many, which holds for a
power of two. The verifier is given the root's public inputs. With several
ranks the `recursion` feature is off and there is one claim about the input:
`pre_process_gkr` (`circuit/src/layered/circuit.rs:384`, `WithRelay` in `CircuitLoading`) puts
a relay layer, which has no products, in front of any circuit that would have two
(`OneInputClaim`, below). The instances of `kzg` and `recursion` meet it. TLC refutes
`VerifierFollowsProver` without the last condition (section 5).

In `GkrLayersProofs`, for every circuit, number of lanes and ranks, tape of coins, corrupted
message and wrong claim that `JobsAssumption` admits:

* `ProverDrawsInOrder`: whenever `gkr_prove` is at a layer, its challenges, its weight and the
  coins it has drawn are those `parse_proof` will find for that layer in the finished proof.
* `VerifiersAlwaysAgree`: `VerifiersAgree` is invariant, in every order of the units. The two
  verifiers decide the same and leave the same claims, at the challenge the prover opens its
  input at, and `gkr_verify` has read the proof to its end and drawn what the prover drew.
* `NothingEverPanics`: the weight of a second claim comes with its point where the prover
  asserts it, and each unit's tape has the coins its layer draws.

The reason is that a layer's verdict is local (`LayerIsLocal`): it depends on the claims and
challenges it starts from, the messages of its layer, its coins and the tables of `eq`, and on
nothing else in the scratch pad. The inductive invariant `VerifierInv` carries that down the
layers. `SequentialInv` says that when `gkr_verify` comes to a layer it has read, drawn and
claimed what `parse_proof` has above that layer (`ParsedAbove`), that the tables `rx` and
`ry` it left behind are those the next unit computes anew (`TablesLeft`; only where there is a
second claim is `ry` right, and only there is it read), and that it has accepted so far
exactly if the units above the layer accept. `ParallelInv` says that a unit's result is its outcome
alone, whatever order they come in. `ProverInv` counts the messages, so that both verifiers
find a whole proof; `ProverCoins` places each coin on the tape. The soundness of the sumcheck
plays no part: the verifiers agree on corrupted proofs as well.

`JobsAssumption` is what a circuit is: a layer has the inputs the one below puts out, gates
lie at places their layer has, and coins do not run out, as a transcript's never do. The
scratch pad's tables are as large as `VerifierScratchPad::new` makes them, which has to suffice
for every layer. TLC evaluates the assumption for the jobs of `layers`.

In `MpiChunksProofs`, for every limit, number of ranks and length:
`ChunksTypeCorrect`, `BytesArrive`, `NothingLeftBehind`, `BuffersFit` and, when the
world size divides the limit, `TransposeWithinLimit`. `EachByteInItsPlace` needs
`RoundsInStep` to be inductive: that the buffer has its full length before the
last round, and that all rows have been moved equally far. The rest is arithmetic
of rows, in lemmas of its own (`RowOfIndex`, `IndexHasRow`).

In `SharedMemProofs`, for every object, all alignments from 8 on and all
addresses that are equal up to the alignment: `SharedTypeCorrect`,
`WindowIsLargeEnough` and `ReadersFollowTheWriter`. A field starts at a multiple of
8, so aligning behind its length takes at most `align - 8` bytes more
(`AlignUpBounds`), which is what `bytes_size` pays for; two ranks that start a field
at the same offset agree on all of it (`AlignUpShift`, `FieldShift`). The invariant
`IInv` has for each pointer that it stands where the fields before it end, and
that the places of fields follow each other without overlap, which is why a
reader finds the word with the length (`WordOfField`).

The same module goes on to `CircuitLoading`, for every number of ranks and lanes, every
circuit file and every witness file with at least one witness and one private input:

* `LoadingSharesAnObject`: it implements `SharedMem` (`Spec => SmSpec`), so the two
  theorems hold while a circuit is loaded.
* `LanesHoldTheirWitnesses`: `WitnessesReachTheirLanes`, with the arithmetic of rows, lanes and
  witnesses in `IndexOfValue`, `ValuesAre` and `LaneOf`.
* `AllOrNoneAccept`: `AllAcceptTheWitness`.
* `CoefficientsAgree`: `SameCoefficients`, under `OneOrder`, that the order of the leaves does
  not matter to the order of the random gates. Without it the property is false (`leaf_order`).
  An assumption of `MCLoading` has TLC evaluate `OneOrder`, to true for the jobs of `share` and to
  false for the two leaves of `leaf_order`.
* `OneInputClaim`: the first layer of a circuit made ready has no products.

`LoadInv` adds to `IInv` that the layers flattened so far are the start of one of the
`Flattenings` of the file (`FlatInv`), that each process has made ready one of them, not
necessarily the same (`CircuitInv`), and that its inputs and coefficients follow
from that and from the files (`InputInv`, `CoefInv`). `RanksHaveTheCircuit` is where the window
comes in: a rank that has read all fields where the root wrote them has the root's
flattening and no other.

In `M31Proofs`, for Mersenne 31 as the code has it, 2^31 - 1 in words of 32 bits and vectors of
16 lanes: `ScalarProgramsAreExact`, `Avx256ProgramsAreExact`, `Avx512ProgramsAreExact` and
`NeonProgramsAreExact`. A program of any length over `Arithmetic`, all operations of
`FieldMachine` but powers, inverses and sums over the lanes, keeps four of the six properties of
`fields` (they are those of the machine's instance here, so the list of theorems in
`PROJECT.json` names no property of `MCFields`): the accumulator is the
element it ought to be, its words are in range, comparisons see elements, bytes survive.
What the module calls known to be wrong is left out here too (`Careful`).

The inductive invariants say it lane by lane: `ScalarExact` and `NeonExact` keep words below
the modulus, `AvxExact` at most at it, since AVX has two zeros. First come
lemmas on one lane, where the numbers are: a sum or difference that wraps at 2^32 and takes the
lesser of two words (`AddLaneExact`, `SubLaneExact`), the fold at bit 31 (`ReducesExact`), the
halves of a product (`ProductHalves`, from `Halves`: the product is the upper times 2^31 plus the lower, so
it is their sum modulo 2^31 - 1, and doubling moves the cut to bit 32), the odd lane
that is doubled by a shift of the pair (`DoubledWords`), and NEON's subtraction with a borrow
(`NeonMulLaneExact`). With these the numbers are hidden again and each type has one lemma with a
step per operation (`ScalarStep`, `Avx256Step`, ...). The prover adds and multiplies literals in 63 bits,
so a numeral from 2^62 on cannot be trusted in a proof; those of Mersenne 31 stay below.

**Assumptions.** Those named (`WorldAssumption`, `ProgAssumption`,
`RecursionAssumption`, `ScriptAssumption`, `ChunksAssumption`, `SharedAssumption`,
`JobsAssumption`). The conditions on programs
(`CollectivesOnAllRanks`, `Disciplined`, `StartsNew`, `LocksAlternate`) are assumptions of the general
theorems only; `ScriptProofs` discharges them. `SidesFit` is the hypothesis of
`SnarkProofs` and `OneOrder` that of `CoefficientsAgree`, discussed there.

**Only model-checked.** `Termination` and `DecidesRightly` (liveness and ENABLED are
out of the prover's reach). And what rests on induction over data, sums and products
folded over tables above all: that the claims of the layer sumcheck are multilinear extensions
(`ClaimsAreMle`) and an honest proof is accepted (`SequentialDecidesRightly`), the properties of
`openings` and `batch`, and that flattening gives the file's gates (`FlatMeansTheFile`).
Of `fields`, the powers, inverses and lane sums of Mersenne 31 (induction, and Fermat's theorem); the extensions;
BabyBear, Goldilocks and GF2_128, whose numerals (2^64 and beyond) are too large for the
prover. These are checked at the small size only.

## 5. Findings

Three runs show a disagreement between the code and what it says of itself.

* `leaf_order`: `flatten` pushes the gates of a layer in the order of a `HashMap`,
  which differs between two processes, and the k-th challenge goes to the k-th
  random gate. With random gates in two segments of a layer the `Verify` command
  rejects what the `Prove` command has honestly proved. The tests verify with the
  circuit object of the prover.
* `is_zero`: BabyBear's AVX2 vector takes itself for zero when each lane is zero in
  one of its halves.
* `pairing_dropped`: HyperKZG's verifier computes its pairing check, drops the result and
  returns true. The run `batch` checks the verdict together with that check.

Others were met while modelling and are kept out of the way of the runs, which use
inputs they do not concern:

* *Public inputs of an MPI proof.* The verifier reads as many as all ranks have
  (`gkr/src/verifier/snark.rs:404`), the prover binds the root's only; with one per
  rank the commitment is taken for a public input. With the `recursion` feature,
  the prover's broadcast after them (`gkr/src/prover/snark.rs:105`) has no counterpart either.
* *A second claim with several ranks.* The prover broadcasts its transcript before the second
  opening (`gkr/src/prover/snark.rs:158`), the verifier has no sync there
  (`gkr/src/verifier/snark.rs:237`), and would reject an honest proof. The relay layer
  that loading adds keeps this case away.
* *The benchmark's file.* Every rank writes it (`bin/src/main_mpi.rs:205`).
* *Power gates.* The circuit evaluates them, the sumcheck ignores them.
* *Small polynomials under Orion.* `orion/expander_api.rs:174` lifts a point only if it has
  fewer variables than the parameters, ranks and lanes counted; commit and open compare the
  polynomial's. In between, an honest opening fails. And `gen_params` sizes by the pack size of
  the circuit's field, `gen_srs` by that of the commitment's (`assert` at line 69).
* *Hyrax.* Opening several points panics on any rank but the root, and verifying asserts that
  there are no MPI variables; the parameters must be the largest polynomial's.
* *HyperBiKZG* would panic for a rank's polynomial of one variable, which
  `MINIMUM_SUPPORTED_NUM_VARS` = 2 keeps away (its comment says one).
* *`fix_bottom_variable`* (`arith/polynomials/src/mle.rs:91`) reads `coeffs[i]` for `coeffs[2i]`; nothing calls it.
* *Serve* cannot start: loading the circuit unwraps the world it has not got
  (`bin/src/executor.rs:250`).
* *Fields*, collected in the modules' `KnownWrong`: M31's `from_uniform_bytes` of all ones is a
  word above the modulus, so is the horizontal sum of a vector; AVX2's `==` tells 0 from the
  modulus. BabyBear's AVX `random_bool` puts in words that are not in Montgomery form, and
  AVX-512's `random_unsafe` may leave the modulus. Goldilocks: AVX-512's negation of a word above
  the modulus, AVX2's `From<u32>`, NEON's addition of a scalar, which multiplies. GF2's `exp`
  makes one of zero to an even power; a vector of GF2_128 with some zeros has an "inverse";
  GF2_128's `From<u32>` takes 0 and 1 only. Some methods are `todo!` or
  `unimplemented!`, the modules' `Panics`.

## 6. Not modelled

Curves and hashes, abstracted as above; rounds of the layer sumcheck in fields of
characteristic two, which use other points; `BN254` and the Go fields;
`gather_varlen_vec` and split communicators; file formats and parameter files; Serve;
the lattice commitment; serialization; the Go verifier; CUDA; the stand-alone ports
and prototypes. `PROJECT.json` gives the reason for each.

## 7. Plan

In this order, each with its runs, mutants and theorems:

1. The lattice scheme's cached commitment.
2. The recursion verifier's transcript as one more verifier program.
3. Ranks that race to create the parameter file.
4. Proofs: that random gates in one leaf of each layer give `OneOrder`, and the extensions of
   Mersenne 31 from what `M31Proofs` says of its words.
