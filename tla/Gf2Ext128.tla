------------------------------ MODULE Gf2Ext128 ------------------------------
(***************************************************************************)
(* arith/gf2_128: polynomials over GF2 modulo x^128 + x^7 + x^2 + x + 1,   *)
(* with SSE (gf2_ext128/avx.rs, Avx...) and NEON (gf2_ext128/neon.rs,      *)
(* Neon...), and eight of them at once with AVX2, AVX-512 and NEON         *)
(* (gf2_ext128x8/, Avx256x8..., Avx512x8..., Neonx8...).                   *)
(*                                                                         *)
(* A polynomial is the set of its exponents.  The code works in four words *)
(* of 32 bits, here of Quarter; the exponents 1, 2 and 7 of the modulus    *)
(* are Taps.                                                               *)
(***************************************************************************)
EXTENDS Gf2xn

CONSTANTS Quarter, Taps, Depth

(* What spills over the top folds back once and stays in the lowest word.  *)
TapsAssumption ==
  Quarter \in Nat /\ Taps \subseteq 1 .. Quarter - 1 /\ \A s, t \in Taps : s - 1 + t < Quarter

N        == 4 * Quarter
HalfOfN  == 2 * Quarter
Modulus  == Taps \cup {0}

-----------------------------------------------------------------------------
(* The instructions: shifts within words of w bits, and the carry-less     *)
(* product.                                                                *)
Slli(w, k, a) == {e + k : e \in {f \in a : (f % w) + k < w}}
Srli(w, k, a) == {e - k : e \in {f \in a : f % w >= k}}
XorOverTaps(shifted(_)) ==
  {e \in 0 .. N - 1 : Cardinality({t \in Taps : e \in shifted(t)}) % 2 = 1}
Clmul(a, b) ==
  {e \in 0 .. 2 * N - 2 : Cardinality({i \in a : e - i \in b}) % 2 = 1}
LowHalf(a)  == {e \in a : e < HalfOfN}
HighHalf(a) == {e - HalfOfN : e \in a \ LowHalf(a)}

(* The upper N coefficients are first given what their own top bits fold  *)
(* back to, word by word, and then folded once.                            *)
FoldedOnce(lower, upper) == Xor(Xor(lower, XorOverTaps(LAMBDA t : Slli(Quarter, t, upper))), upper)
WithSpilled(lower, upper, rotated) ==
  FoldedOnce(Xor(lower, {e \in rotated : e >= Quarter}), Xor(upper, {e \in rotated : e < Quarter}))
Reduced(lower, upper) ==
  WithSpilled(lower, upper,
    {(e + Quarter) % N : e \in XorOverTaps(LAMBDA t : Srli(Quarter, Quarter - t, upper))})

(* Karatsuba's product of the halves, then the reduction.                  *)
Recombined(low, mid, high) ==
  Reduced(Xor(low, {e + HalfOfN : e \in LowHalf(mid)}), Xor(high, HighHalf(mid)))
Karatsuba(low, high, both) == Recombined(low, Xor(Xor(both, low), high), high)
GfMul(a, b) ==
  Karatsuba(Clmul(LowHalf(a), LowHalf(b)), Clmul(HighHalf(a), HighHalf(b)),
            Clmul(Xor(LowHalf(a), HighHalf(a)), Xor(LowHalf(b), HighHalf(b))))

AvxMul(a, b)  == GfMul(a, b)
NeonMul(a, b) == GfMul(a, b)

(* Times x: the halves are shifted, the top bit of the lower one is moved  *)
(* across, and that of the upper one brings in the modulus.                *)
Shifted(a) ==
  Slli(HalfOfN, 1, a) \cup {e + HalfOfN : e \in Srli(HalfOfN, HalfOfN - 1, LowHalf(a))}
Reduction(a)  == IF N - 1 \in a THEN Modulus ELSE {}
AvxMulByX(a)  == Xor(Shifted(a), Reduction(a))
NeonMulByX(a) == Xor(Shifted(a), Reduction(a))

AvxZero == {}
AvxOne  == {0}
AvxX    == {1}
AvxAdd(a, b) == Xor(a, b)
AvxSub(a, b) == Xor(a, b)
AvxNeg(a)    == a
AvxSquare(a) == AvxMul(a, a)
AvxExp(a, n) == Exp(AvxMul, AvxOne, a, n)
AvxInv(a)    == IF a = {} THEN None ELSE Some(AvxExp(a, 2^N - 2))
AvxIsZero(a) == a = {}
AvxEq(a, b)  == a = b
AvxMulByBaseField(a, b) == IF b = 0 THEN {} ELSE a
AvxAddByBaseField(a, b) == IF b = 0 THEN a ELSE AvxAdd(AvxOne, a)
AvxSerialize(a)       == a
AvxDeserialize(bytes) == bytes
AvxFrom(n)            == BitsOf(N, n)
AvxFromUniformBytes(w) == BitsOf(N, w)
AvxRandomUnsafe(w)     == BitsOf(N, w)
AvxRandomBool(bits)    == IF bits[1] = 1 THEN AvxOne ELSE {}

NeonZero == {}
NeonOne  == {0}
NeonX    == {1}
NeonAdd(a, b) == Xor(a, b)
NeonSub(a, b) == Xor(a, b)
NeonNeg(a)    == a
NeonSquare(a) == NeonMul(a, a)
NeonExp(a, n) == Exp(NeonMul, NeonOne, a, n)
NeonInv(a)    == IF a = {} THEN None ELSE Some(NeonExp(a, 2^N - 2))
NeonIsZero(a) == a = {}
NeonEq(a, b)  == a = b
NeonMulByBaseField(a, b) == IF b = 0 THEN {} ELSE a
NeonAddByBaseField(a, b) == IF b = 0 THEN a ELSE NeonAdd(NeonOne, a)
NeonSerialize(a)       == a
NeonDeserialize(bytes) == bytes
NeonFrom(n)            == BitsOf(N, n)
NeonFromUniformBytes(w) == BitsOf(N, w)
NeonRandomUnsafe(w)     == BitsOf(N, w)
NeonRandomBool(bits)    == IF bits[1] = 1 THEN NeonOne ELSE {}

-----------------------------------------------------------------------------
(* GF2_128x8: a vector of them.  The bits of a GF2x8 go to the lanes in    *)
(* order; AVX-512 spreads each over the two halves of its lane.            *)
Avx256x8Zero == Fill(PackBits, {})
Avx256x8One  == Fill(PackBits, {0})
Avx256x8X    == Fill(PackBits, {1})
Avx256x8Add(u, v) == PerLane2(Xor, u, v)
Avx256x8Sub(u, v) == PerLane2(Xor, u, v)
Avx256x8Mul(u, v) == PerLane2(GfMul, u, v)
Avx256x8Neg(u)    == u
Avx256x8Square(u) == Avx256x8Mul(u, u)
Avx256x8Exp(u, n) == Exp(Avx256x8Mul, Avx256x8One, u, n)
Avx256x8IsZero(u) == AllLanes(LAMBDA a : a = {}, u)
Avx256x8Inv(u)    == IF Avx256x8IsZero(u) THEN None ELSE Some(Avx256x8Exp(u, 2^N - 2))
Avx256x8Eq(u, v)  == \A l \in DOMAIN u : u[l] = v[l]
Avx256x8PackFull(s) == Fill(PackBits, s)
Avx256x8Pack(s)     == s
Avx256x8Unpack(u)   == u
Avx256x8MulByX(u) == PerLane(LAMBDA a : Xor(Shifted(a), Reduction(a)), u)
Avx256x8Double(u) == Avx256x8Zero
Avx256x8MulBy3(u) == u
Avx256x8MulBy5(u) == u
Avx256x8MulBy6(u) == Avx256x8Zero
Avx256x8MulScalar(u, s) == Avx256x8Mul(u, Avx256x8PackFull(s))
Avx256x8From(n)         == Fill(PackBits, IF n = 0 THEN {} ELSE {0})
Avx256x8MulByBaseField(u, b) == [l \in 1 .. PackBits |-> IF l - 1 \in b THEN u[l] ELSE {}]
Avx256x8AddByBaseField(u, b) == PerLane2(LAMBDA a, bit : Xor(a, IF bit = 1 THEN {0} ELSE {}), u, X8Unpack(b))
Avx256x8Serialize(u)       == u
Avx256x8Deserialize(bytes) == bytes
Avx256x8RandomUnsafe(w)    == [l \in 1 .. PackBits |-> BitsOf(N, w * l)]
Avx256x8RandomBool(bits)   == PerLane(LAMBDA b : IF b = 1 THEN {0} ELSE {}, bits)

KeptHalves(b, l) == IF l - 1 \in b THEN {0, 1} ELSE {}
Avx512x8Zero == Fill(PackBits, {})
Avx512x8One  == Fill(PackBits, {0})
Avx512x8X    == Fill(PackBits, {1})
Avx512x8Add(u, v) == PerLane2(Xor, u, v)
Avx512x8Sub(u, v) == PerLane2(Xor, u, v)
Avx512x8Mul(u, v) == PerLane2(GfMul, u, v)
Avx512x8Neg(u)    == u
Avx512x8Square(u) == Avx512x8Mul(u, u)
Avx512x8Exp(u, n) == Exp(Avx512x8Mul, Avx512x8One, u, n)
Avx512x8IsZero(u) == AllLanes(LAMBDA a : a = {}, u)
Avx512x8Inv(u)    == IF Avx512x8IsZero(u) THEN None ELSE Some(Avx512x8Exp(u, 2^N - 2))
Avx512x8Eq(u, v)  == \A l \in DOMAIN u : u[l] = v[l]
Avx512x8PackFull(s) == Fill(PackBits, s)
Avx512x8Pack(s)     == s
Avx512x8Unpack(u)   == u
Avx512x8MulByX(u) == PerLane(LAMBDA a : Xor(Shifted(a), Reduction(a)), u)
Avx512x8Double(u) == Avx512x8Zero
Avx512x8MulBy3(u) == u
Avx512x8MulBy5(u) == u
Avx512x8MulBy6(u) == Avx512x8Zero
Avx512x8MulScalar(u, s) == Avx512x8Mul(u, Avx512x8PackFull(s))
Avx512x8From(n)         == Fill(PackBits, IF n = 0 THEN {} ELSE {0})
Avx512x8MulByBaseField(u, b) == [l \in 1 .. PackBits |-> {e \in u[l] : e \div HalfOfN \in KeptHalves(b, l)}]
Avx512x8AddByBaseField(u, b) == PerLane2(LAMBDA a, bit : Xor(a, IF bit = 1 THEN {0} ELSE {}), u, X8Unpack(b))
Avx512x8Serialize(u)       == u
Avx512x8Deserialize(bytes) == bytes
Avx512x8RandomUnsafe(w)    == [l \in 1 .. PackBits |-> BitsOf(N, w * l)]
Avx512x8RandomBool(bits)   == PerLane(LAMBDA b : IF b = 1 THEN {0} ELSE {}, bits)

Neonx8Zero == Fill(PackBits, {})
Neonx8One  == Fill(PackBits, {0})
Neonx8X    == Fill(PackBits, {1})
Neonx8Add(u, v) == PerLane2(Xor, u, v)
Neonx8Sub(u, v) == PerLane2(Xor, u, v)
Neonx8Mul(u, v) == PerLane2(GfMul, u, v)
Neonx8Neg(u)    == u
Neonx8Square(u) == Neonx8Mul(u, u)
Neonx8Exp(u, n) == Exp(Neonx8Mul, Neonx8One, u, n)
Neonx8IsZero(u) == AllLanes(LAMBDA a : a = {}, u)
Neonx8Inv(u)    == IF Neonx8IsZero(u) THEN None ELSE Some(Neonx8Exp(u, 2^N - 2))
Neonx8Eq(u, v)  == \A l \in DOMAIN u : u[l] = v[l]
Neonx8PackFull(s) == Fill(PackBits, s)
Neonx8Pack(s)     == s
Neonx8Unpack(u)   == u
Neonx8MulByX(u) == PerLane(NeonMulByX, u)
Neonx8Double(u) == Neonx8Add(u, u)
Neonx8MulBy3(u) == DefaultMulBy3(Neonx8Add, u)
Neonx8MulBy5(u) == DefaultMulBy5(Neonx8Double, Neonx8Add, u)
Neonx8MulBy6(u) == DefaultMulBy6(Neonx8MulBy3, Neonx8Add, u)
Neonx8MulScalar(u, s) == PerLane(LAMBDA a : NeonMul(a, s), u)
Neonx8From(n)         == Fill(PackBits, BitsOf(N, n))
Neonx8MulByBaseField(u, b) == [l \in 1 .. PackBits |-> NeonMul(u[l], IF l - 1 \in b THEN {0} ELSE {})]
Neonx8AddByBaseField(u, b) == PerLane2(LAMBDA a, bit : Xor(a, IF bit = 1 THEN {0} ELSE {}), u, X8Unpack(b))
Neonx8Serialize(u)       == u
Neonx8Deserialize(bytes) == bytes
Neonx8RandomUnsafe(w)    == [l \in 1 .. PackBits |-> BitsOf(N, w * l)]
Neonx8RandomBool(bits)   == PerLane(LAMBDA b : IF b = 1 THEN {0} ELSE {}, bits)

-----------------------------------------------------------------------------
(* The field itself, and the five types as instances of the machine.       *)
(* Known to be wrong: the inverse of a vector with some lanes zero; and a  *)
(* conversion from an integer above 1, which takes its bits for            *)
(* coefficients where AVX's vectors panic.  A product is reduced by putting  *)
(* the modulus for x^N, which twice leaves no exponent above.              *)
Congruent(c) == Xor({e \in c : e < N},
  {e \in 0 .. 2 * N - 2 : Cardinality({t \in Modulus : e - t + N \in {f \in c : f >= N}}) % 2 = 1})
EProductOf(a, b) == Congruent(Congruent(Clmul(a, b)))
EBit(n)    == IF n % 2 = 1 THEN {0} ELSE {}
EInvOf(a)  == Exp(EProductOf, {0}, a, 2^N - 2)
InField(a) == a \subseteq 0 .. N - 1
Twice128(a)  == Xor(a, a)
Thrice(a)    == DefaultMulBy3(Xor, a)
FiveTimes(a) == DefaultMulBy5(Twice128, Xor, a)
SixTimes(a)  == DefaultMulBy6(Thrice, Xor, a)
HorizontalSumOf(u) == DefaultHorizontalSum(Xor, {}, u)
LiftedAdd(u, s)    == PerLane2(Xor, u, Fill(PackBits, s))
BitsOfInteger(op, n, v) == op = "from" /\ n > 1
SomeLaneZero(op, u, v)  == op = "inv" /\ \E l \in DOMAIN u : u[l] = {}
SomeLaneZeroOrBits(op, u, v) == SomeLaneZero(op, u, v) \/ BitsOfInteger(op, u, v)
NoChallenge(op, u, v)   == op = "from_uniform_bytes"
NoChallengeNorInteger(op, n, v) == op = "from_uniform_bytes" \/ (op = "from" /\ n > 1)
Polynomials == {{}, {0, N - 1}, {1, HalfOfN - 1, HalfOfN, N - 2}}
Draws128    == {0, 1, 2^(N - 1) + 2^HalfOfN + 2}
BaseWords   == {{}, {0}, 1 .. PackBits - 1}

Avx == INSTANCE ExtensionMachine WITH
  Kind <- "gf2_128.avx", Lanes <- 1, Panics <- NeverPanics,
  KnownWrong <- BitsOfInteger, Operands <- Polynomials, Seeds <- Polynomials,
  Draws <- Draws128, Element <- ESelf, InRange <- InField, EFrom <- EBit,
  EAdd <- Xor, EMul <- EProductOf, ENeg <- ESelf, EInv <- EInvOf, EX <- {1},
  EBase <- EBit, BaseOperands <- Bit, UnpackBase <- SelfUnpack, Zero <- AvxZero,
  One <- AvxOne, Add <- AvxAdd, Sub <- AvxSub, Mul <- AvxMul, Neg <- AvxNeg,
  Double <- Twice128, Square <- AvxSquare, Power <- AvxExp, MulBy3 <- Thrice,
  MulBy5 <- FiveTimes, MulBy6 <- SixTimes, Inv <- AvxInv, IsZero <- AvxIsZero,
  Eq <- AvxEq, PackFull <- SelfPackFull, Pack <- SelfPack, Unpack <- SelfUnpack,
  HorizontalSum <- SelfHorizontalSum, AddScalar <- AvxAdd, MulScalar <- AvxMul,
  Serialize <- AvxSerialize, Deserialize <- AvxDeserialize, From <- AvxFrom,
  FromUniformBytes <- AvxFromUniformBytes, RandomUnsafe <- AvxRandomUnsafe,
  RandomBool <- AvxRandomBool, MulByX <- AvxMulByX,
  MulByBaseField <- AvxMulByBaseField, AddByBaseField <- AvxAddByBaseField
Neon == INSTANCE ExtensionMachine WITH
  Kind <- "gf2_128.neon", Lanes <- 1, Panics <- NeverPanics,
  KnownWrong <- BitsOfInteger, Operands <- Polynomials, Seeds <- Polynomials,
  Draws <- Draws128, Element <- ESelf, InRange <- InField, EFrom <- EBit,
  EAdd <- Xor, EMul <- EProductOf, ENeg <- ESelf, EInv <- EInvOf, EX <- {1},
  EBase <- EBit, BaseOperands <- Bit, UnpackBase <- SelfUnpack,
  Zero <- NeonZero, One <- NeonOne, Add <- NeonAdd, Sub <- NeonSub,
  Mul <- NeonMul, Neg <- NeonNeg, Double <- Twice128, Square <- NeonSquare,
  Power <- NeonExp, MulBy3 <- Thrice, MulBy5 <- FiveTimes, MulBy6 <- SixTimes,
  Inv <- NeonInv, IsZero <- NeonIsZero, Eq <- NeonEq, PackFull <- SelfPackFull,
  Pack <- SelfPack, Unpack <- SelfUnpack, HorizontalSum <- SelfHorizontalSum,
  AddScalar <- NeonAdd, MulScalar <- NeonMul, Serialize <- NeonSerialize,
  Deserialize <- NeonDeserialize, From <- NeonFrom,
  FromUniformBytes <- NeonFromUniformBytes, RandomUnsafe <- NeonRandomUnsafe,
  RandomBool <- NeonRandomBool, MulByX <- NeonMulByX,
  MulByBaseField <- NeonMulByBaseField, AddByBaseField <- NeonAddByBaseField
Avx256x8 == INSTANCE ExtensionMachine WITH
  Kind <- "gf2_128x8.avx256", Lanes <- PackBits,
  Panics <- NoChallengeNorInteger, KnownWrong <- SomeLaneZero,
  Operands <- Polynomials, Seeds <- Polynomials, Draws <- Draws128,
  Element <- ESelf, InRange <- InField, EFrom <- EBit, EAdd <- Xor,
  EMul <- EProductOf, ENeg <- ESelf, EInv <- EInvOf, EX <- {1}, EBase <- EBit,
  BaseOperands <- BaseWords, UnpackBase <- X8Unpack, Zero <- Avx256x8Zero,
  One <- Avx256x8One, Add <- Avx256x8Add, Sub <- Avx256x8Sub,
  Mul <- Avx256x8Mul, Neg <- Avx256x8Neg, Double <- Avx256x8Double,
  Square <- Avx256x8Square, Power <- Avx256x8Exp, MulBy3 <- Avx256x8MulBy3,
  MulBy5 <- Avx256x8MulBy5, MulBy6 <- Avx256x8MulBy6, Inv <- Avx256x8Inv,
  IsZero <- Avx256x8IsZero, Eq <- Avx256x8Eq, PackFull <- Avx256x8PackFull,
  Pack <- Avx256x8Pack, Unpack <- Avx256x8Unpack,
  HorizontalSum <- HorizontalSumOf, AddScalar <- LiftedAdd,
  MulScalar <- Avx256x8MulScalar, Serialize <- Avx256x8Serialize,
  Deserialize <- Avx256x8Deserialize, From <- Avx256x8From,
  FromUniformBytes <- Avx256x8RandomUnsafe,
  RandomUnsafe <- Avx256x8RandomUnsafe, RandomBool <- Avx256x8RandomBool,
  MulByX <- Avx256x8MulByX, MulByBaseField <- Avx256x8MulByBaseField,
  AddByBaseField <- Avx256x8AddByBaseField
Avx512x8 == INSTANCE ExtensionMachine WITH
  Kind <- "gf2_128x8.avx512", Lanes <- PackBits,
  Panics <- NoChallengeNorInteger, KnownWrong <- SomeLaneZero,
  Operands <- Polynomials, Seeds <- Polynomials, Draws <- Draws128,
  Element <- ESelf, InRange <- InField, EFrom <- EBit, EAdd <- Xor,
  EMul <- EProductOf, ENeg <- ESelf, EInv <- EInvOf, EX <- {1}, EBase <- EBit,
  BaseOperands <- BaseWords, UnpackBase <- X8Unpack, Zero <- Avx512x8Zero,
  One <- Avx512x8One, Add <- Avx512x8Add, Sub <- Avx512x8Sub,
  Mul <- Avx512x8Mul, Neg <- Avx512x8Neg, Double <- Avx512x8Double,
  Square <- Avx512x8Square, Power <- Avx512x8Exp, MulBy3 <- Avx512x8MulBy3,
  MulBy5 <- Avx512x8MulBy5, MulBy6 <- Avx512x8MulBy6, Inv <- Avx512x8Inv,
  IsZero <- Avx512x8IsZero, Eq <- Avx512x8Eq, PackFull <- Avx512x8PackFull,
  Pack <- Avx512x8Pack, Unpack <- Avx512x8Unpack,
  HorizontalSum <- HorizontalSumOf, AddScalar <- LiftedAdd,
  MulScalar <- Avx512x8MulScalar, Serialize <- Avx512x8Serialize,
  Deserialize <- Avx512x8Deserialize, From <- Avx512x8From,
  FromUniformBytes <- Avx512x8RandomUnsafe,
  RandomUnsafe <- Avx512x8RandomUnsafe, RandomBool <- Avx512x8RandomBool,
  MulByX <- Avx512x8MulByX, MulByBaseField <- Avx512x8MulByBaseField,
  AddByBaseField <- Avx512x8AddByBaseField
Neonx8 == INSTANCE ExtensionMachine WITH
  Kind <- "gf2_128x8.neon", Lanes <- PackBits, Panics <- NoChallenge,
  KnownWrong <- SomeLaneZeroOrBits, Operands <- Polynomials,
  Seeds <- Polynomials, Draws <- Draws128, Element <- ESelf, InRange <- InField,
  EFrom <- EBit, EAdd <- Xor, EMul <- EProductOf, ENeg <- ESelf, EInv <- EInvOf,
  EX <- {1}, EBase <- EBit, BaseOperands <- BaseWords, UnpackBase <- X8Unpack,
  Zero <- Neonx8Zero, One <- Neonx8One, Add <- Neonx8Add, Sub <- Neonx8Sub,
  Mul <- Neonx8Mul, Neg <- Neonx8Neg, Double <- Neonx8Double,
  Square <- Neonx8Square, Power <- Neonx8Exp, MulBy3 <- Neonx8MulBy3,
  MulBy5 <- Neonx8MulBy5, MulBy6 <- Neonx8MulBy6, Inv <- Neonx8Inv,
  IsZero <- Neonx8IsZero, Eq <- Neonx8Eq, PackFull <- Neonx8PackFull,
  Pack <- Neonx8Pack, Unpack <- Neonx8Unpack, HorizontalSum <- HorizontalSumOf,
  AddScalar <- LiftedAdd, MulScalar <- Neonx8MulScalar,
  Serialize <- Neonx8Serialize, Deserialize <- Neonx8Deserialize,
  From <- Neonx8From, FromUniformBytes <- Neonx8RandomUnsafe,
  RandomUnsafe <- Neonx8RandomUnsafe, RandomBool <- Neonx8RandomBool,
  MulByX <- Neonx8MulByX, MulByBaseField <- Neonx8MulByBaseField,
  AddByBaseField <- Neonx8AddByBaseField
=============================================================================
