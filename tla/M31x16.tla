------------------------------- MODULE M31x16 -------------------------------
(***************************************************************************)
(* arith/mersenne31/src/m31.rs: the prime field of 2^K - 1 elements (K is  *)
(* 31) in words of K + 1 bits.  Zero has two words, 0 and MOD.             *)
(* m31x16/: M31 as a vector of words, with AVX2 (Avx256...), AVX-512       *)
(* (Avx512...) and NEON (Neon...).  The files repeat each other; what they *)
(* share is written once.                                                  *)
(***************************************************************************)
EXTENDS Words

CONSTANT K

MersenneAssumption == K \in Nat /\ K > 2

MOD  == 2^K - 1
W    == K + 1
Word == 0 .. 2^W - 1

ModReduceU32(x) == LowBits(K, x) + HighBits(K, x)

ModReduceU32Safe(x) == LET r == ModReduceU32(x) IN IF r = MOD THEN 0 ELSE r

M31From(x) == IF x < MOD THEN x ELSE x % MOD

M31Add(a, b) == LET v == Wrap(W, a + b) IN IF v >= MOD THEN v - MOD ELSE v

M31Sub(a, b) == LET v == Wrap(W, a + MOD - b) IN IF v >= MOD THEN v - MOD ELSE v

M31Mul(a, b) ==
  LET v == LowBits(K, a * b) + HighBits(K, a * b)
  IN Wrap(W, IF v >= MOD THEN v - MOD ELSE v)

M31Neg(a) == IF a = 0 THEN 0 ELSE Wrap(W, MOD - a)

M31IsZero(a) == a \in {0, MOD}

M31Eq(a, b) == ModReduceU32Safe(a) = ModReduceU32Safe(b)

M31Square(a) == M31Mul(a, a)
M31Double(a) == M31Add(a, a)
M31Exp(a, n) == Exp(M31Mul, 1, a, n)
M31MulBy3(a) == DefaultMulBy3(M31Add, a)
M31MulBy5(a) == M31Mul(a, 5)
M31MulBy6(a) == M31Mul(a, 6)

(* The addition chain that raises to 2^31 - 3; the scaled field is chosen  *)
(* so that this is still an inverse.                                       *)
M31TryInverse(a) ==
  IF M31IsZero(a) THEN None
  ELSE Some(AlongChain(M31Mul, M31Square,
              <<<<1, 2, 1>>, <<2, 1, 2>>, <<3, 4, 3>>, <<4, 4, 3>>, <<4, 8, 4>>, <<6, 12, 5>>, <<7, 3, 2>>>>, a))

M31Serialize(a)       == a
M31Deserialize(bytes) == ModReduceU32(bytes)
M31FromUniformBytes(w) == ModReduceU32Safe(w)
M31RandomUnsafe(w)     == M31From(w)
M31RandomBool(bits)    == bits[1] % 2

(* The field itself.                                                       *)
ModP(x)     == x % MOD
EAdd(x, y)  == (x + y) % MOD
EMul(x, y)  == (x * y) % MOD
ENeg(x)     == (MOD - x) % MOD
EInv(x)     == CHOOSE y \in 0 .. MOD - 1 : EMul(x, y) = 1

-----------------------------------------------------------------------------
(* The vectors.                                                             *)
CONSTANTS PackSize, Careful

PackAssumption == PackSize \in Nat /\ PackSize % 4 = 0 /\ PackSize > 0

VARIABLES kind, acc, is, steps

(* Reductions: AVX2 folds the top bit, the others take the lesser of the   *)
(* word and the word less MOD.                                             *)
Avx256Reduce(x) == Wrap(W, LowBits(K, x) + HighBits(K, x))
Avx512Reduce(x) == LesserOf(x, Wrap(W, x - MOD))
NeonReduce(x)   == LesserOf(x, Wrap(W, x - MOD))

(* Mutant: the sum is not reduced.                                        *)
AddLaneUnreduced(x, y) == Wrap(W, x + y)
AddLane(x, y) == LET t == Wrap(W, x + y) IN LesserOf(t, Wrap(W, t - MOD))
SubLane(x, y) == LET t == Wrap(W, x - y) IN LesserOf(t, Wrap(W, t + MOD))

PackedZero == Fill(PackSize, 0)
PackedOne  == Fill(PackSize, 1)

-----------------------------------------------------------------------------
Avx256Add(u, v) == PerLane2(AddLane, u, v)
Avx512Add(u, v) == PerLane2(AddLane, u, v)
NeonAdd(u, v)   == PerLane2(AddLane, u, v)
Avx256Sub(u, v) == PerLane2(SubLane, u, v)
Avx512Sub(u, v) == PerLane2(SubLane, u, v)
NeonSub(u, v)   == PerLane2(SubLane, u, v)

(* A lane of the product from the doubled word of one factor and the word  *)
(* of the other: the upper word, and the lower word shifted back.          *)
MulDoubled(d, y) == AddLane(HighBits(1, LowBits(W, d * y)), HighBits(W, d * y))

(* The even lanes are doubled by an addition, the odd ones by shifting the *)
(* pair they are the upper half of.                                        *)
OddLaneDoubled(u, l) == LowBits(W, HighBits(K, u[l] * 2^W + u[l - 1]))
EvenLaneDoubled(u, l) == Wrap(W, u[l] + u[l])
Avx256Mul(u, v) ==
  [l \in DOMAIN u |->
     MulDoubled(IF IsOdd(l) THEN OddLaneDoubled(u, l) ELSE EvenLaneDoubled(u, l), v[l])]
Avx512Mul(u, v) == Avx256Mul(u, v)

(* vqdmulh doubles the signed product and keeps the upper word.            *)
NeonMulLane(x, y) ==
  LET high == HighBits(W, 2 * AsSigned(W, x) * AsSigned(W, y))
  IN NeonReduce(Wrap(W, LowBits(W, x * y) - high * MOD))
NeonMul(u, v) == PerLane2(NeonMulLane, u, v)

(* The AVX negation flips the bits of MOD: that of zero is MOD.            *)
XorMod(x)    == MOD - LowBits(K, x) + HighBits(K, x) * 2^K
Avx256Neg(u) == PerLane(XorMod, u)
Avx512Neg(u) == PerLane(XorMod, u)
NeonNeg(u)   == NeonSub(PackedZero, u)

Avx256Double(u) == Avx256Add(u, u)
Avx512Double(u) == Avx512Add(u, u)
NeonDouble(u)   == PerLane(LAMBDA x : NeonReduce(Wrap(W, 2 * x)), u)
Avx256Square(u) == Avx256Mul(u, u)
Avx512Square(u) == Avx512Mul(u, u)
NeonSquare(u)   == NeonMul(u, u)

(* Shift, reduce, add and reduce.                                          *)
TimesTwo(reduce(_), x) == reduce(Wrap(W, 2 * x))
Avx256Exp(u, n) == Exp(Avx256Mul, PackedOne, u, n)
Avx512Exp(u, n) == Exp(Avx512Mul, PackedOne, u, n)
NeonExp(u, n) == Exp(NeonMul, PackedOne, u, n)
Avx256MulBy3(u) ==
  PerLane(LAMBDA x : Avx256Reduce(Wrap(W, x + TimesTwo(Avx256Reduce, x))), u)
Avx512MulBy3(u) ==
  PerLane(LAMBDA x : Avx512Reduce(Wrap(W, x + TimesTwo(Avx512Reduce, x))), u)
NeonMulBy3(u) == DefaultMulBy3(NeonAdd, u)
TimesFive(reduce(_), x) == reduce(Wrap(W, x + TimesTwo(reduce, TimesTwo(reduce, x))))
Avx256MulBy5(u) == PerLane(LAMBDA x : TimesFive(Avx256Reduce, x), u)
Avx512MulBy5(u) == PerLane(LAMBDA x : TimesFive(Avx512Reduce, x), u)
NeonMulBy5(u)   == PerLane(LAMBDA x : TimesFive(NeonReduce, x), u)
Avx256MulBy6(u) == DefaultMulBy6(Avx256MulBy3, Avx256Add, u)
Avx512MulBy6(u) == DefaultMulBy6(Avx512MulBy3, Avx512Add, u)
NeonMulBy6(u)   == DefaultMulBy6(NeonMulBy3, NeonAdd, u)

(* Mutant: only a vector of zeros has no inverse.                          *)
Avx256InvOfOthers(u) ==
  IF AllLanes(M31IsZero, u) THEN None
  ELSE Some(PerLane(LAMBDA x : IF M31IsZero(x) THEN 0 ELSE M31TryInverse(x)[1], u))
Avx256Inv(u) == InvLanes(M31IsZero, M31TryInverse, u)
Avx512Inv(u) == InvLanes(M31IsZero, M31TryInverse, u)
NeonInv(u)   == InvLanes(M31IsZero, M31TryInverse, u)

-----------------------------------------------------------------------------
(* NEON knows one zero, AVX both.                                          *)
Avx256IsZero(u) == AllLanes(M31IsZero, u)
(* Mutant: one of the zeros only.                                          *)
Avx512IsZeroWord(u) == AllLanes(LAMBDA x : x = 0, u)
Avx512IsZero(u) == AllLanes(M31IsZero, u)
NeonIsZero(u)   == AllLanes(LAMBDA x : x = 0, u)

(* AVX2's fold leaves both zeros as they are.                              *)
Avx256Eq(u, v) == PerLane(Avx256Reduce, u) = PerLane(Avx256Reduce, v)
Avx512Eq(u, v) == PerLane(Avx512Reduce, u) = PerLane(Avx512Reduce, v)
NeonEq(u, v)   == PerLane(NeonReduce, u) = PerLane(NeonReduce, v)

(* Only AVX-512 writes reduced words; NEON reads them as they are.         *)
Avx256Serialize(u) == u
Avx512Serialize(u) == PerLane(Avx512Reduce, u)
NeonSerialize(u)   == u
(* Mutant: what is read back is canonical, what was written was not.       *)
Avx256DeserializeCanonical(bytes) == PerLane(Avx512Reduce, bytes)
Avx256Deserialize(bytes) == PerLane(Avx256Reduce, bytes)
Avx512Deserialize(bytes) == PerLane(Avx512Reduce, bytes)
NeonDeserialize(bytes)   == bytes

Avx256PackFull(s) == Fill(PackSize, s)
Avx512PackFull(s) == Fill(PackSize, s)
NeonPackFull(s)   == Fill(PackSize, s)
Avx256Pack(s) == s
Avx512Pack(s) == s
NeonPack(s)   == s
Avx256Unpack(u) == u
Avx512Unpack(u) == u
NeonUnpack(u)   == u

(* A wide sum of the words, reduced once: with more than one lane the      *)
(* result may exceed MOD.                                                  *)
WideSum(u) ==
  LET sum == FoldLeft(+, 0, u)
      r   == LowBits(K, sum) + HighBits(K, sum)
  IN IF r = MOD THEN 0 ELSE Wrap(W, r)
Avx256HorizontalSum(u) == WideSum(u)
Avx512HorizontalSum(u) == WideSum(u)
NeonHorizontalSum(u)   == WideSum(u)

Avx256AddScalar(u, s) == Avx256Add(u, Avx256PackFull(s))
Avx512AddScalar(u, s) == Avx512Add(u, Avx512PackFull(s))
NeonAddScalar(u, s)   == NeonAdd(u, NeonPackFull(s))
Avx256MulScalar(u, s) == Avx256Mul(u, Avx256PackFull(s))
Avx512MulScalar(u, s) == Avx512Mul(u, Avx512PackFull(s))
NeonMulScalar(u, s)   == NeonMul(u, NeonPackFull(s))

Avx256From(n) == Avx256PackFull(M31From(n))
Avx512From(n) == Avx512PackFull(M31From(n))
NeonFrom(n)   == NeonPackFull(M31From(n))
Avx256FromUniformBytes(w) == Fill(PackSize, M31FromUniformBytes(w))
Avx512FromUniformBytes(w) == Fill(PackSize, M31FromUniformBytes(w))
NeonFromUniformBytes(w)   == Fill(PackSize, M31FromUniformBytes(w))

Avx256RandomUnsafe(w) == Fill(PackSize, Avx256Reduce(Avx256Reduce(w)))
Avx512RandomUnsafe(w) == Fill(PackSize, Avx512Reduce(Avx512Reduce(w)))
NeonRandomUnsafe(w)   == Fill(PackSize, w % MOD)
Avx256RandomBool(bits) == bits
Avx512RandomBool(bits) == bits
NeonRandomBool(bits)   == bits

-----------------------------------------------------------------------------
(* The four types as instances of the machine.  Known to be wrong: what is *)
(* made of the uniform word of ones, which one fold leaves above MOD; the  *)
(* sum of the lanes when it exceeds MOD; and AVX2's comparison of one zero *)
(* with the other.                                                         *)
ScalarWords == 0 .. MOD - 1
AvxWords    == 0 .. MOD
InScalarWords(x) == x \in ScalarWords
InAvxWords(x)    == x \in AvxWords
NeverPanics(op, u, v) == FALSE
TopWord(op, u, v)     == op = "from_uniform_bytes" /\ u = MOD + 1
SumTooWide(op, u, v)  ==
  \/ op = "horizontal_sum" /\ WideSum(u) > MOD
  \/ TopWord(op, u[1], v[1])
WrongWithAvx256(op, u, v) ==
  \/ SumTooWide(op, u, v)
  \/ op = "eq" /\ \E l \in DOMAIN u : {u[l], v[l]} = {0, MOD}
ScalarPackFull(s)    == s
ScalarPack(s)        == s[1]
ScalarUnpack(a)      == <<a>>
ScalarHorizontalSum(a) == M31Add(0, a)
PackedSeeds == {0, 1, MOD - 1}

Scalar == INSTANCE FieldMachine WITH
  Kind <- "m31", Lanes <- 1, Depth <- 0, Operands <- ScalarWords,
  Seeds <- PackedSeeds, InRange <- InScalarWords, Panics <- NeverPanics,
  KnownWrong <- TopWord, EFrom <- ModP, Element <- ModP, Draws <- Word,
  Zero <- 0, One <- 1, Add <- M31Add, Sub <- M31Sub, Mul <- M31Mul,
  Neg <- M31Neg, Double <- M31Double, Square <- M31Square, Power <- M31Exp,
  MulBy3 <- M31MulBy3, MulBy5 <- M31MulBy5, MulBy6 <- M31MulBy6,
  Inv <- M31TryInverse, IsZero <- M31IsZero, Eq <- M31Eq,
  PackFull <- ScalarPackFull, Pack <- ScalarPack, Unpack <- ScalarUnpack,
  HorizontalSum <- ScalarHorizontalSum, AddScalar <- M31Add,
  MulScalar <- M31Mul, Serialize <- M31Serialize, Deserialize <- M31Deserialize,
  From <- M31From, FromUniformBytes <- M31FromUniformBytes,
  RandomUnsafe <- M31RandomUnsafe, RandomBool <- M31RandomBool
Avx256 == INSTANCE FieldMachine WITH
  Kind <- "m31x16.avx256", Lanes <- PackSize, Depth <- 0, Operands <- AvxWords,
  Seeds <- PackedSeeds, InRange <- InAvxWords, Panics <- NeverPanics,
  KnownWrong <- WrongWithAvx256, EFrom <- ModP, Element <- ModP, Draws <- Word,
  Zero <- PackedZero, One <- PackedOne, Add <- Avx256Add, Sub <- Avx256Sub,
  Mul <- Avx256Mul, Neg <- Avx256Neg, Double <- Avx256Double,
  Square <- Avx256Square, Power <- Avx256Exp, MulBy3 <- Avx256MulBy3,
  MulBy5 <- Avx256MulBy5, MulBy6 <- Avx256MulBy6, Inv <- Avx256Inv,
  IsZero <- Avx256IsZero, Eq <- Avx256Eq, PackFull <- Avx256PackFull,
  Pack <- Avx256Pack, Unpack <- Avx256Unpack,
  HorizontalSum <- Avx256HorizontalSum, AddScalar <- Avx256AddScalar,
  MulScalar <- Avx256MulScalar, Serialize <- Avx256Serialize,
  Deserialize <- Avx256Deserialize, From <- Avx256From,
  FromUniformBytes <- Avx256FromUniformBytes,
  RandomUnsafe <- Avx256RandomUnsafe, RandomBool <- Avx256RandomBool
Avx512 == INSTANCE FieldMachine WITH
  Kind <- "m31x16.avx512", Lanes <- PackSize, Depth <- 0, Operands <- AvxWords,
  Seeds <- PackedSeeds, InRange <- InAvxWords, Panics <- NeverPanics,
  KnownWrong <- SumTooWide, EFrom <- ModP, Element <- ModP, Draws <- Word,
  Zero <- PackedZero, One <- PackedOne, Add <- Avx512Add, Sub <- Avx512Sub,
  Mul <- Avx512Mul, Neg <- Avx512Neg, Double <- Avx512Double,
  Square <- Avx512Square, Power <- Avx512Exp, MulBy3 <- Avx512MulBy3,
  MulBy5 <- Avx512MulBy5, MulBy6 <- Avx512MulBy6, Inv <- Avx512Inv,
  IsZero <- Avx512IsZero, Eq <- Avx512Eq, PackFull <- Avx512PackFull,
  Pack <- Avx512Pack, Unpack <- Avx512Unpack,
  HorizontalSum <- Avx512HorizontalSum, AddScalar <- Avx512AddScalar,
  MulScalar <- Avx512MulScalar, Serialize <- Avx512Serialize,
  Deserialize <- Avx512Deserialize, From <- Avx512From,
  FromUniformBytes <- Avx512FromUniformBytes,
  RandomUnsafe <- Avx512RandomUnsafe, RandomBool <- Avx512RandomBool
Neon == INSTANCE FieldMachine WITH
  Kind <- "m31x16.neon", Lanes <- PackSize, Depth <- 0, Operands <- ScalarWords,
  Seeds <- PackedSeeds, InRange <- InScalarWords, Panics <- NeverPanics,
  KnownWrong <- SumTooWide, EFrom <- ModP, Element <- ModP, Draws <- Word,
  Zero <- PackedZero, One <- PackedOne, Add <- NeonAdd, Sub <- NeonSub,
  Mul <- NeonMul, Neg <- NeonNeg, Double <- NeonDouble, Square <- NeonSquare,
  Power <- NeonExp, MulBy3 <- NeonMulBy3, MulBy5 <- NeonMulBy5,
  MulBy6 <- NeonMulBy6, Inv <- NeonInv, IsZero <- NeonIsZero, Eq <- NeonEq,
  PackFull <- NeonPackFull, Pack <- NeonPack, Unpack <- NeonUnpack,
  HorizontalSum <- NeonHorizontalSum, AddScalar <- NeonAddScalar,
  MulScalar <- NeonMulScalar, Serialize <- NeonSerialize,
  Deserialize <- NeonDeserialize, From <- NeonFrom,
  FromUniformBytes <- NeonFromUniformBytes, RandomUnsafe <- NeonRandomUnsafe,
  RandomBool <- NeonRandomBool
=============================================================================
