------------------------------ MODULE MCFields ------------------------------
(* Every type of arith, over small fields: a run is a program over one of  *)
(* them.  Kinds are the types of the run.                                  *)
EXTENDS Integers

CONSTANTS Kinds, Careful

VARIABLES kind, acc, is, steps

(* 2^3 - 1, 7 in Montgomery form modulo 2^4, 2^4 - 2^2 + 1, and the        *)
(* polynomials modulo x^28 + x^3 + x^2 + x + 1.                            *)
Mersenne == INSTANCE M31Ext WITH K <- 3, PackSize <- 4, Depth <- 2
BabyBear == INSTANCE BabyBearExt WITH P <- 7, W <- 4, MU <- 7, PackSize <- 4, Depth <- 2
Golden == INSTANCE GoldilocksExt WITH H <- 2, PackSize <- 2, Depth <- 2
Binary == INSTANCE Gf2xn WITH PackBits <- 4
Binary128 == INSTANCE Gf2Ext128 WITH PackBits <- 2, Quarter <- 7, Taps <- {1, 2, 3}, Depth <- 2

ASSUME AssumptionsHold ==
  /\ Mersenne!MersenneAssumption /\ Mersenne!PackAssumption
  /\ BabyBear!MontyAssumption /\ BabyBear!PackAssumption
  /\ Golden!HalfAssumption /\ Golden!PackAssumption
  /\ Binary!PackBitsAssumption /\ Binary128!PackBitsAssumption /\ Binary128!TapsAssumption

Init ==
  /\ kind \in Kinds
  /\ \/ Mersenne!Scalar!Init \/ Mersenne!Avx256!Init \/ Mersenne!Avx512!Init
     \/ Mersenne!Neon!Init \/ Mersenne!Extension3!Init \/ Mersenne!Extension3x16!Init
     \/ Mersenne!Extension6!Init
     \/ BabyBear!Scalar!Init \/ BabyBear!Avx256!Init \/ BabyBear!Avx512!Init
     \/ BabyBear!Neon!Init \/ BabyBear!Extension3!Init \/ BabyBear!Extension3x16!Init
     \/ Golden!Scalar!Init \/ Golden!Avx256!Init \/ Golden!Avx512!Init
     \/ Golden!Neon!Init \/ Golden!Extension2!Init \/ Golden!Extension2x8!Init
     \/ Binary!Scalar!Init \/ Binary!Packed8!Init \/ Binary!Packed64!Init
     \/ Binary!Avx128!Init \/ Binary!Neon128!Init
     \/ Binary128!Avx!Init \/ Binary128!Neon!Init \/ Binary128!Avx256x8!Init
     \/ Binary128!Avx512x8!Init \/ Binary128!Neonx8!Init

Next ==
  \/ Mersenne!Scalar!Next \/ Mersenne!Avx256!Next \/ Mersenne!Avx512!Next
  \/ Mersenne!Neon!Next \/ Mersenne!Extension3!ExtensionNext
  \/ Mersenne!Extension3x16!ExtensionNext \/ Mersenne!Extension6!ExtensionNext
  \/ BabyBear!Scalar!Next \/ BabyBear!Avx256!Next \/ BabyBear!Avx512!Next
  \/ BabyBear!Neon!Next \/ BabyBear!Extension3!ExtensionNext
  \/ BabyBear!Extension3x16!ExtensionNext
  \/ Golden!Scalar!Next \/ Golden!Avx256!Next \/ Golden!Avx512!Next
  \/ Golden!Neon!Next \/ Golden!Extension2!ExtensionNext
  \/ Golden!Extension2x8!ExtensionNext
  \/ Binary!Scalar!Next \/ Binary!Packed8!Next \/ Binary!Packed64!Next
  \/ Binary!Avx128!Next \/ Binary!Neon128!Next
  \/ Binary128!Avx!ExtensionNext \/ Binary128!Neon!ExtensionNext
  \/ Binary128!Avx256x8!ExtensionNext \/ Binary128!Avx512x8!ExtensionNext
  \/ Binary128!Neonx8!ExtensionNext

vars == <<kind, acc, is, steps>>

Spec == Init /\ [][Next]_vars

EveryType(property) ==
  /\ Mersenne!Scalar!Holds(property) /\ Mersenne!Avx256!Holds(property)
  /\ Mersenne!Avx512!Holds(property) /\ Mersenne!Neon!Holds(property)
  /\ Mersenne!Extension3!Holds(property) /\ Mersenne!Extension3x16!Holds(property)
  /\ Mersenne!Extension6!Holds(property)
  /\ BabyBear!Scalar!Holds(property) /\ BabyBear!Avx256!Holds(property)
  /\ BabyBear!Avx512!Holds(property) /\ BabyBear!Neon!Holds(property)
  /\ BabyBear!Extension3!Holds(property) /\ BabyBear!Extension3x16!Holds(property)
  /\ Golden!Scalar!Holds(property) /\ Golden!Avx256!Holds(property)
  /\ Golden!Avx512!Holds(property) /\ Golden!Neon!Holds(property)
  /\ Golden!Extension2!Holds(property) /\ Golden!Extension2x8!Holds(property)
  /\ Binary!Scalar!Holds(property) /\ Binary!Packed8!Holds(property)
  /\ Binary!Packed64!Holds(property) /\ Binary!Avx128!Holds(property)
  /\ Binary!Neon128!Holds(property)
  /\ Binary128!Avx!Holds(property) /\ Binary128!Neon!Holds(property)
  /\ Binary128!Avx256x8!Holds(property) /\ Binary128!Avx512x8!Holds(property)
  /\ Binary128!Neonx8!Holds(property)

(* Whatever the type and the program, the accumulator is the element it    *)
(* ought to be: no operation of any backend, in any order, loses more than *)
(* a multiple of the modulus.                                              *)
ValueIsExact == EveryType("value")

(* Every word stays one that the type's own operations accept: an          *)
(* unreduced result is never the operand of an operation that needs a      *)
(* reduced one.                                                            *)
WordsInRange == EveryType("words")

(* is_zero and == see elements, not words, however the two were computed.  *)
ComparisonsAreExact == EveryType("comparisons")

(* inv answers None for zero and for nothing else: the callers that unwrap *)
(* it do not stop, and none divides by zero.                               *)
UnitsHaveInverses == EveryType("inverses")

(* The bytes the verifier appends to its transcript, of what it read, are  *)
(* those the prover appended.                                              *)
BytesSurviveTheProof == EveryType("bytes")

(* Nothing a type produced makes its arithmetic panic, or breaks what the  *)
(* code tells the compiler to assume.                                      *)
NoUndefinedBehaviour == EveryType("assumptions")
=============================================================================
