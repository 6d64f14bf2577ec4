----------------------------- MODULE BabyBearx16 -----------------------------
(***************************************************************************)
(* arith/src/monty.rs, as BabyBear (arith/babybear/src/babybear.rs): a     *)
(* prime field below half the word, in Montgomery form.  The word of x is  *)
(* x * 2^W modulo P.  arith/babybear/src/babybearx16/: BabyBear as a       *)
(* vector of Montgomery words, with AVX2 (Avx256...), AVX-512 (Avx512...)  *)
(* and NEON (Neon...).                                                     *)
(***************************************************************************)
EXTENDS Words

CONSTANTS P, W, MU

MontyAssumption ==
  /\ W \in Nat /\ W > 2 /\ P \in 3 .. 2^(W - 1) - 1
  /\ MU \in 0 .. 2^W - 1 /\ (MU * P) % 2^W = 1

R    == 2^W
Word == 0 .. R - 1

ToMonty(x) == (x * R) % P

MontyReduce(x) ==
  LET t == (x * MU) % R
      u == t * P
  IN Wrap(W, HighBits(W, (x - u) % R^2) + IF x < u THEN P ELSE 0)

FromMonty(x) == MontyReduce(x)

MontyAdd(a, b) == LET s == Wrap(W, a + b) IN IF s < P THEN s ELSE s - P
MontySub(a, b) == Wrap(W, a - b + IF a < b THEN P ELSE 0)
MontyMul(a, b) == MontyReduce(a * b)
MontyNeg(a)    == MontySub(ToMonty(0), a)
MontyIsZero(a) == a = ToMonty(0)
MontyEq(a, b)  == a = b
MontySquare(a) == MontyMul(a, a)
MontyDouble(a) == MontyAdd(a, a)
MontyExp(a, n) == Exp(MontyMul, ToMonty(1), a, n)
MontyMulBy3(a) == DefaultMulBy3(MontyAdd, a)
MontyMulBy5(a) == DefaultMulBy5(MontyDouble, MontyAdd, a)
MontyMulBy6(a) == DefaultMulBy6(MontyMulBy3, MontyAdd, a)

(* The addition chain that raises to P - 2.                                *)
TryInverse(a) ==
  IF MontyIsZero(a) THEN None
  ELSE Some(AlongChain(MontyMul, MontySquare,
              <<<<1, 8, 1>>, <<1, 16, 2>>, <<3, 8, 1>>, <<3, 3, 4>>, <<4, 1, 5>>, <<4, 2, 6>>, <<7, 4, 7>>>>, a))

(* The bytes are canonical.                                                *)
MontySerialize(a)       == FromMonty(a)
MontyDeserialize(bytes) == ToMonty(bytes)
MontyFrom(n)            == ToMonty(n)
MontyFromUniformBytes(w) == ToMonty(w)
MontyRandomUnsafe(w)     == ToMonty(w)
MontyRandomBool(bits)    == ToMonty(bits[1])

(* The field itself, and what a word stands for.                           *)
ModP(x)       == x % P
Meaning(a)    == CHOOSE x \in 0 .. P - 1 : (x * R) % P = a % P
EAdd(x, y)    == (x + y) % P
EMul(x, y)    == (x * y) % P
ENeg(x)       == (P - x) % P
EInv(x)       == CHOOSE y \in 0 .. P - 1 : EMul(x, y) = 1

-----------------------------------------------------------------------------
(* The vectors.                                                             *)
CONSTANTS PackSize, Careful

PackAssumption == PackSize \in Nat /\ PackSize % 4 = 0 /\ PackSize > 0

VARIABLES kind, acc, is, steps

(* The reductions: AVX-512 keeps P itself.                                 *)
Avx256Reduce(x) == LesserOf(x, Wrap(W, x - P))
Avx512Reduce(x) == IF x > P THEN x - P ELSE x
NeonReduce(x)   == IF x >= P THEN x - P ELSE x
Twice(reduce(_), x) == reduce(reduce(x))

PackedZero == Fill(PackSize, ToMonty(0))
PackedOne  == Fill(PackSize, ToMonty(1))

-----------------------------------------------------------------------------
AddLane(x, y)   == LET s == Wrap(W, x + y) IN LesserOf(s, Wrap(W, s - P))
Avx256Add(u, v) == PerLane2(AddLane, u, v)
Avx512Add(u, v) == PerLane2(AddLane, u, v)
NeonAdd(u, v)   == PerLane2(AddLane, u, v)

SubLane(x, y)     == LET d == Wrap(W, x - y) IN LesserOf(d, Wrap(W, d + P))
NeonSubLane(x, y) == Wrap(W, x - y + IF x < y THEN P ELSE 0)
Avx256Sub(u, v)   == PerLane2(SubLane, u, v)
Avx512Sub(u, v)   == PerLane2(SubLane, u, v)
NeonSub(u, v)     == PerLane2(NeonSubLane, u, v)

(* The upper words of the product and of the multiple of P that clears its *)
(* lower word; AVX2 takes the lesser of the difference and the difference  *)
(* plus P, AVX-512 asks which is less.                                     *)
ProdHi(x, y) == HighBits(W, x * y)
QPHi(x, y)   == HighBits(W, LowBits(W, LowBits(W, x * y) * MU) * P)
Avx256MulLane(x, y) ==
  LET d == Wrap(W, ProdHi(x, y) - QPHi(x, y)) IN LesserOf(d, Wrap(W, d + P))
Avx512MulLane(x, y) ==
  Wrap(W, ProdHi(x, y) - QPHi(x, y) + IF ProdHi(x, y) < QPHi(x, y) THEN P ELSE 0)

(* NEON doubles the signed products and halves the difference.             *)
NeonMulLane(x, y) ==
  LET q   == AsSigned(W, Wrap(W, x * Wrap(W, y * MU)))
      cHi == HighBits(W, 2 * AsSigned(W, x) * AsSigned(W, y))
      qHi == HighBits(W, 2 * q * P)
  IN Wrap(W, HighBits(1, cHi - qHi) + IF cHi < qHi THEN P ELSE 0)

Avx256Mul(u, v) == PerLane2(Avx256MulLane, u, v)
Avx512Mul(u, v) == PerLane2(Avx512MulLane, u, v)
NeonMul(u, v)   == PerLane2(NeonMulLane, u, v)

(* AVX2 lets the sign of the word decide (vpsignd), the others a mask.     *)
SignNegLane(x) ==
  CASE x = 0              -> 0
    [] AsSigned(W, x) > 0 -> Wrap(W, P - x)
    [] OTHER              -> Wrap(W, x - P)
MaskedNegLane(x) == IF x = 0 THEN 0 ELSE Wrap(W, P - x)
Avx256Neg(u)     == PerLane(SignNegLane, u)
Avx512Neg(u)     == PerLane(MaskedNegLane, u)
NeonNeg(u)       == PerLane(MaskedNegLane, u)

Avx256Square(u) == Avx256Mul(u, u)
Avx512Square(u) == Avx512Mul(u, u)
NeonSquare(u)   == NeonMul(u, u)
Avx256Double(u) == Avx256Add(u, u)
Avx512Double(u) == Avx512Add(u, u)
NeonDouble(u)   == NeonAdd(u, u)
Avx256Exp(u, n) == Exp(Avx256Mul, PackedOne, u, n)
Avx512Exp(u, n) == Exp(Avx512Mul, PackedOne, u, n)
NeonExp(u, n) == Exp(NeonMul, PackedOne, u, n)
MulBy3(u) == DefaultMulBy3(NeonAdd, u)
MulBy5(u) == DefaultMulBy5(NeonDouble, NeonAdd, u)
MulBy6(u) == DefaultMulBy6(MulBy3, NeonAdd, u)

Avx256Inv(u) == InvLanes(MontyIsZero, TryInverse, u)
Avx512Inv(u) == InvLanes(MontyIsZero, TryInverse, u)
NeonInv(u)   == InvLanes(MontyIsZero, TryInverse, u)

-----------------------------------------------------------------------------
(* The AVX2 test takes the two halves of the vector together: a place that *)
(* is zero in one of them is enough.                                       *)
Avx256IsZero(u) ==
  \A l \in 1 .. PackSize \div 2 : {u[l], u[l + PackSize \div 2]} \cap {0, P} # {}
Avx512IsZero(u) == AllLanes(LAMBDA x : x \in {0, P}, u)
NeonIsZero(u)   == AllLanes(LAMBDA x : Twice(NeonReduce, x) = 0, u)

Avx256Eq(u, v) == PerLane(Avx256Reduce, u) = PerLane(Avx256Reduce, v)
Avx512Eq(u, v) == PerLane(Avx512Reduce, u) = PerLane(Avx512Reduce, v)
NeonEq(u, v) ==
  PerLane(LAMBDA x : Twice(NeonReduce, x), u) = PerLane(LAMBDA x : Twice(NeonReduce, x), v)

(* The bytes of a vector are its Montgomery words.                         *)
Avx256Serialize(u) == u
Avx512Serialize(u) == PerLane(Avx512Reduce, u)
NeonSerialize(u)   == PerLane(LAMBDA x : Twice(NeonReduce, x), u)
Avx256Deserialize(bytes) == PerLane(Avx256Reduce, bytes)
Avx512Deserialize(bytes) == bytes
NeonDeserialize(bytes)   == bytes

Avx256PackFull(s) == Fill(PackSize, s)
Avx512PackFull(s) == Fill(PackSize, s)
NeonPackFull(s) == Fill(PackSize, s)
Avx256Pack(s) == s
Avx512Pack(s) == s
NeonPack(s) == s
Avx256Unpack(u) == u
Avx512Unpack(u) == u
NeonUnpack(u) == u
HorizontalSum(u) == DefaultHorizontalSum(MontyAdd, ToMonty(0), u)

Avx256AddScalar(u, s) == Avx256Add(u, Avx256PackFull(s))
Avx512AddScalar(u, s) == Avx512Add(u, Avx512PackFull(s))
NeonAddScalar(u, s) == NeonAdd(u, NeonPackFull(s))
Avx256MulScalar(u, s) == Avx256Mul(u, Avx256PackFull(s))
Avx512MulScalar(u, s) == Avx512Mul(u, Avx512PackFull(s))
NeonMulScalar(u, s) == NeonMul(u, NeonPackFull(s))
Avx256From(n) == Avx256PackFull(MontyFrom(n))
Avx512From(n) == Avx512PackFull(MontyFrom(n))
NeonFrom(n) == NeonPackFull(MontyFrom(n))
Avx256FromUniformBytes(w) == Avx256PackFull(MontyFromUniformBytes(w))
Avx512FromUniformBytes(w) == Avx512PackFull(MontyFromUniformBytes(w))
NeonFromUniformBytes(w) == NeonPackFull(MontyFromUniformBytes(w))

(* Raw words; only NEON's Booleans are converted.                          *)
Avx256RandomUnsafe(w) == Fill(PackSize, Twice(Avx256Reduce, w))
Avx512RandomUnsafe(w) == Fill(PackSize, Twice(Avx512Reduce, w))
(* Mutant: one reduction of a raw word is not enough.                      *)
NeonRandomUnsafeOnce(w) == Fill(PackSize, NeonReduce(w))
NeonRandomUnsafe(w)   == Fill(PackSize, Twice(NeonReduce, w))
Avx256RandomBool(bits) == bits
Avx512RandomBool(bits) == bits
NeonRandomBool(bits)   == PerLane(ToMonty, bits)

-----------------------------------------------------------------------------
(* The four types as instances of the machine.  The NEON product panics on *)
(* a word that is not below P.  Known to be wrong: AVX2's test for zero    *)
(* when a place is zero in one half only; the Booleans AVX draws, which    *)
(* are not converted; and the word P that AVX-512's raw draws leave.       *)
FieldWords      == 0 .. P - 1
InFieldWords(x) == x \in FieldWords
NeverPanics(op, u, v) == FALSE
MulPanics(op, u, v) == op = "mul" /\ \E l \in DOMAIN u : u[l] >= P \/ v[l] >= P
NeverWrong(op, u, v) == FALSE
WrongWithAvx256(op, u, v) ==
  \/ op = "is_zero" /\ Avx256IsZero(u) /\ \E l \in DOMAIN u : u[l] # 0
  \/ op = "random_bool"
WrongWithAvx512(op, u, v) ==
  \/ op = "random_unsafe" /\ \E l \in DOMAIN u : u[l] = P
  \/ op = "random_bool"
ScalarPackFull(s)      == s
ScalarPack(s)          == s[1]
ScalarUnpack(a)        == <<a>>
ScalarHorizontalSum(a) == a
MontyZero == ToMonty(0)
MontyOne  == ToMonty(1)
PackedSeeds == {0, 1, P - 1}

Scalar == INSTANCE FieldMachine WITH
  Kind <- "babybear", Lanes <- 1, Depth <- 0, Panics <- NeverPanics,
  KnownWrong <- NeverWrong, EFrom <- ModP, Element <- Meaning, Draws <- Word,
  Operands <- FieldWords, InRange <- InFieldWords, Seeds <- PackedSeeds,
  Zero <- MontyZero, One <- MontyOne, Add <- MontyAdd, Sub <- MontySub,
  Mul <- MontyMul, Neg <- MontyNeg, Double <- MontyDouble,
  Square <- MontySquare, Power <- MontyExp, MulBy3 <- MontyMulBy3,
  MulBy5 <- MontyMulBy5, MulBy6 <- MontyMulBy6, Inv <- TryInverse,
  IsZero <- MontyIsZero, Eq <- MontyEq, PackFull <- ScalarPackFull,
  Pack <- ScalarPack, Unpack <- ScalarUnpack,
  HorizontalSum <- ScalarHorizontalSum, AddScalar <- MontyAdd,
  MulScalar <- MontyMul, Serialize <- MontySerialize,
  Deserialize <- MontyDeserialize, From <- MontyFrom,
  FromUniformBytes <- MontyFromUniformBytes, RandomUnsafe <- MontyRandomUnsafe,
  RandomBool <- MontyRandomBool
Avx256 == INSTANCE FieldMachine WITH
  Kind <- "babybearx16.avx256", Lanes <- PackSize, Depth <- 0,
  Panics <- NeverPanics, KnownWrong <- WrongWithAvx256, EFrom <- ModP,
  Element <- Meaning, Draws <- Word, Operands <- FieldWords,
  InRange <- InFieldWords, Seeds <- PackedSeeds, Zero <- PackedZero,
  One <- PackedOne, Add <- Avx256Add, Sub <- Avx256Sub, Mul <- Avx256Mul,
  Neg <- Avx256Neg, Double <- Avx256Double, Square <- Avx256Square,
  Power <- Avx256Exp, MulBy3 <- MulBy3, MulBy5 <- MulBy5, MulBy6 <- MulBy6,
  Inv <- Avx256Inv, IsZero <- Avx256IsZero, Eq <- Avx256Eq,
  PackFull <- Avx256PackFull, Pack <- Avx256Pack, Unpack <- Avx256Unpack,
  HorizontalSum <- HorizontalSum, AddScalar <- Avx256AddScalar,
  MulScalar <- Avx256MulScalar, Serialize <- Avx256Serialize,
  Deserialize <- Avx256Deserialize, From <- Avx256From,
  FromUniformBytes <- Avx256FromUniformBytes,
  RandomUnsafe <- Avx256RandomUnsafe, RandomBool <- Avx256RandomBool
Avx512 == INSTANCE FieldMachine WITH
  Kind <- "babybearx16.avx512", Lanes <- PackSize, Depth <- 0,
  Panics <- NeverPanics, KnownWrong <- WrongWithAvx512, EFrom <- ModP,
  Element <- Meaning, Draws <- Word, Operands <- FieldWords,
  InRange <- InFieldWords, Seeds <- PackedSeeds, Zero <- PackedZero,
  One <- PackedOne, Add <- Avx512Add, Sub <- Avx512Sub, Mul <- Avx512Mul,
  Neg <- Avx512Neg, Double <- Avx512Double, Square <- Avx512Square,
  Power <- Avx512Exp, MulBy3 <- MulBy3, MulBy5 <- MulBy5, MulBy6 <- MulBy6,
  Inv <- Avx512Inv, IsZero <- Avx512IsZero, Eq <- Avx512Eq,
  PackFull <- Avx512PackFull, Pack <- Avx512Pack, Unpack <- Avx512Unpack,
  HorizontalSum <- HorizontalSum, AddScalar <- Avx512AddScalar,
  MulScalar <- Avx512MulScalar, Serialize <- Avx512Serialize,
  Deserialize <- Avx512Deserialize, From <- Avx512From,
  FromUniformBytes <- Avx512FromUniformBytes,
  RandomUnsafe <- Avx512RandomUnsafe, RandomBool <- Avx512RandomBool
Neon == INSTANCE FieldMachine WITH
  Kind <- "babybearx16.neon", Lanes <- PackSize, Depth <- 0,
  Panics <- MulPanics, KnownWrong <- NeverWrong, EFrom <- ModP,
  Element <- Meaning, Draws <- Word, Operands <- FieldWords,
  InRange <- InFieldWords, Seeds <- PackedSeeds, Zero <- PackedZero,
  One <- PackedOne, Add <- NeonAdd, Sub <- NeonSub, Mul <- NeonMul,
  Neg <- NeonNeg, Double <- NeonDouble, Square <- NeonSquare, Power <- NeonExp,
  MulBy3 <- MulBy3, MulBy5 <- MulBy5, MulBy6 <- MulBy6, Inv <- NeonInv,
  IsZero <- NeonIsZero, Eq <- NeonEq, PackFull <- NeonPackFull,
  Pack <- NeonPack, Unpack <- NeonUnpack, HorizontalSum <- HorizontalSum,
  AddScalar <- NeonAddScalar, MulScalar <- NeonMulScalar,
  Serialize <- NeonSerialize, Deserialize <- NeonDeserialize, From <- NeonFrom,
  FromUniformBytes <- NeonFromUniformBytes, RandomUnsafe <- NeonRandomUnsafe,
  RandomBool <- NeonRandomBool
=============================================================================
