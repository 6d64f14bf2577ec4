---------------------------- MODULE Goldilocksx8 ----------------------------
(***************************************************************************)
(* arith/goldilocks/src/goldilocks.rs: the prime field of 2^2H - 2^H + 1   *)
(* elements (H is 32) in words of 2H bits.  Any word stands for an element *)
(* and operations leave words at and above MOD; 2^2H is EPSILON.           *)
(* goldilocksx8/: Goldilocks as a vector of words, with AVX2 (Avx256...)   *)
(* and AVX-512 (Avx512...); on NEON an array of the scalars (Neon...).     *)
(***************************************************************************)
EXTENDS Words

CONSTANT H

HalfAssumption == H \in Nat /\ H > 1

W       == 2 * H
MOD     == 2^W - 2^H + 1
EPSILON == 2^H - 1
Word    == 0 .. 2^W - 1

ModReduceU64(x) == IF x >= MOD THEN x - MOD ELSE x

(* After a carry EPSILON is added, which can carry once more; the code     *)
(* then tells the compiler that both operands were above MOD.              *)
Carries(x, y) == x + y >= 2^W
AddOnce(x, y) == Wrap(W, x + y) + IF Carries(x, y) THEN EPSILON ELSE 0
(* Mutant: the second carry is forgotten.                                  *)
GAddOneCarry(a, b) == Wrap(W, AddOnce(a, b))
GAdd(a, b)    == AddOnce(a, b) + IF AddOnce(a, b) >= 2^W THEN EPSILON - 2^W ELSE 0
SubOnce(a, b) == Wrap(W, a - b) - IF a < b THEN EPSILON ELSE 0
GSub(a, b)    == SubOnce(a, b) + IF SubOnce(a, b) < 0 THEN 2^W - EPSILON ELSE 0
AssumesFalsely(op, a, b) ==
  \/ op = "add" /\ AddOnce(a, b) >= 2^W /\ ~(a > MOD /\ b > MOD)
  \/ op = "sub" /\ SubOnce(a, b) < 0 /\ ~(a < EPSILON - 1 /\ b > MOD)

(* p2_instructions: no second carry is possible here.                      *)
AddNoCanonicalize(x, y) == Wrap(W, AddOnce(x, y))
Reduce128(x) ==
  LET hi == HighBits(W, x)
      lo == LowBits(W, x)
      t0 == Wrap(W, Wrap(W, lo - HighBits(H, hi)) - IF lo < HighBits(H, hi) THEN EPSILON ELSE 0)
  IN AddNoCanonicalize(t0, LowBits(H, hi) * EPSILON)

GMul(a, b)  == Reduce128(a * b)
GNeg(a)     == GSub(0, a)
GDouble(a)  == GAdd(a, a)
GSquare(a)  == GMul(a, a)
GExp(a, n)  == Exp(GMul, 1, a, n)
GMulBy3(a)  == DefaultMulBy3(GAdd, a)
GMulBy5(a)  == DefaultMulBy5(GDouble, GAdd, a)
GMulBy6(a)  == DefaultMulBy6(GMulBy3, GAdd, a)
GMulBy7(a)  == GMul(a, 7)
GIsZero(a)  == a \in {0, MOD}
GEq(a, b)   == ModReduceU64(a) = ModReduceU64(b)

-----------------------------------------------------------------------------
(* The plus-minus inversion: f and g are odd, c and d keep f and g times   *)
(* the operand's inverse, up to 2^k.                                       *)
TrailingZeros(f) == CHOOSE n \in 0 .. W : f % 2^n = 0 /\ (f \div 2^n) % 2 = 1

Swapped(s) ==
  IF s.f < s.g THEN [s EXCEPT !.f = s.g, !.g = s.f, !.c = s.d, !.d = s.c] ELSE s
Agree(s) == s.f % 4 = s.g % 4

(* The sum of f and g is halved twice before it can overflow...            *)
SafeIteration(from) ==
  LET s    == Swapped(from)
      f    == IF Agree(s) THEN s.f - s.g ELSE HighBits(2, s.f) + HighBits(2, s.g) + 1
      kk   == TrailingZeros(f)
      more == kk + IF Agree(s) THEN 0 ELSE 2
  IN [s EXCEPT !.f = HighBits(kk, f), !.c = IF Agree(s) THEN s.c - s.d ELSE s.c + s.d,
               !.d = s.d * 2^more, !.k = s.k + more]

(* ... which two iterations rule out.                                      *)
UnsafeIteration(from) ==
  LET s  == Swapped(from)
      f  == Wrap(W, IF Agree(s) THEN s.f - s.g ELSE s.f + s.g)
      kk == TrailingZeros(f)
  IN [s EXCEPT !.f = HighBits(kk, f), !.c = IF Agree(s) THEN s.c - s.d ELSE s.c + s.d,
               !.d = s.d * 2^kk, !.k = s.k + kk]

IteratedToOne(s) ==
  FoldLeft(LAMBDA t, i : IF t.f = 1 THEN t ELSE UnsafeIteration(t), s, Fill(2 * W, 0))

Inverse2Exp(exp) ==
  LET shifted(e)  == MOD - ((MOD - 1) \div 2^e)
      rounds      == (exp - 1) \div H          \* H is the two-adicity
  IN IF exp <= H THEN shifted(exp)
     ELSE GMul(FoldLeft(LAMBDA r, i : GMul(r, shifted(H)), shifted(H), Fill(rounds - 1, 0)),
               shifted(exp - rounds * H))

NegatedIf(negative, x) == IF negative THEN MOD - x ELSE x
ScaledBack(s) == GMul(s.c % MOD, Inverse2Exp(s.k))
AfterFirst(s) ==
  IF s.f = 1 THEN NegatedIf(s.c = -1, Inverse2Exp(s.k)) ELSE ScaledBack(IteratedToOne(SafeIteration(s)))

TryInverseU64(x) ==
  LET k == TrailingZeros(x)
  IN CASE GIsZero(x)         -> None
       [] HighBits(k, x) = 1 -> Some(Inverse2Exp(k))
       [] OTHER -> Some(AfterFirst(SafeIteration([f |-> HighBits(k, x), g |-> MOD, c |-> 1, d |-> 0, k |-> k])))

-----------------------------------------------------------------------------
(* Bytes are canonical both ways.                                          *)
GSerialize(a)       == ModReduceU64(a)
GDeserialize(bytes) == ModReduceU64(bytes)
GFromU32(n) == n
GFromU64(n) == ModReduceU64(n)
GFrom(n)    == IF n <= EPSILON THEN GFromU32(n) ELSE GFromU64(n)
GFromUniformBytes(w) == ModReduceU64(w)
GRandomUnsafe(w)     == GFromU64(w)
GRandomBool(bits)    == GFromU64(bits[1])

(* The field itself.                                                       *)
ModP(x)    == x % MOD
EAdd(x, y) == (x + y) % MOD
EMul(x, y) == (x * y) % MOD
ENeg(x)    == (MOD - x) % MOD
EInv(x)    == CHOOSE y \in 0 .. MOD - 1 : EMul(x, y) = 1

-----------------------------------------------------------------------------
(* The vectors.                                                             *)
CONSTANTS PackSize, Careful

PackAssumption == PackSize \in Nat /\ PackSize % 2 = 0 /\ PackSize > 0

VARIABLES kind, acc, is, steps

(* AVX2 compares words as signed, shifted by half their range: as unsigned *)
(* ones.  Its small operands are compared by their upper halves only.      *)
Avx256Canonicalize(x) == Wrap(W, x + IF x >= MOD THEN EPSILON ELSE 0)
Avx512Canonicalize(x) == IF x >= MOD THEN x - MOD ELSE x
Avx256ModReduce(x)    == IF x >= MOD THEN x - MOD ELSE x
Avx512ModReduce(x)    == IF x >= MOD THEN x - MOD ELSE x

PackedZero == Fill(PackSize, 0)
PackedOne  == Fill(PackSize, 1)

-----------------------------------------------------------------------------
(* Sums and differences whose second operand is below MOD wrap once.       *)
Avx256AddNoDoubleOverflow(x, y) ==
  LET r == Wrap(W, x + y) IN Wrap(W, r + IF y > r THEN EPSILON ELSE 0)
Avx512AddNoDoubleOverflow(x, y) ==
  LET r == Wrap(W, x + y) IN Wrap(W, r - IF r < y THEN MOD ELSE 0)
Avx512SubNoDoubleOverflow(x, y) ==
  LET r == Wrap(W, x - y) IN Wrap(W, r + IF x < y THEN MOD ELSE 0)
Avx256SubLane(x, y) ==
  LET c == Avx256Canonicalize(y) IN Wrap(W, Wrap(W, x - c) - IF c > x THEN EPSILON ELSE 0)

Avx256Add(u, v) == PerLane2(LAMBDA x, y : Avx256AddNoDoubleOverflow(x, Avx256Canonicalize(y)), u, v)
Avx512Add(u, v) == PerLane2(LAMBDA x, y : Avx512AddNoDoubleOverflow(x, Avx512Canonicalize(y)), u, v)
NeonAdd(u, v)   == PerLane2(GAdd, u, v)
Avx256Sub(u, v) == PerLane2(Avx256SubLane, u, v)
Avx512Sub(u, v) == PerLane2(LAMBDA x, y : Avx512SubNoDoubleOverflow(x, Avx512Canonicalize(y)), u, v)
NeonSub(u, v)   == PerLane2(GSub, u, v)

(* The double word of a product from the four products of half words, and  *)
(* of a square from three; each is its own code in the two files.          *)
Mul64(x, y) ==
  LET ll == LowBits(H, x) * LowBits(H, y)
      lh == LowBits(H, x) * HighBits(H, y)
      hl == HighBits(H, x) * LowBits(H, y)
      hh == HighBits(H, x) * HighBits(H, y)
      t0 == Wrap(W, hl + HighBits(H, ll))
      t1 == Wrap(W, lh + LowBits(H, t0))
      t2 == Wrap(W, hh + HighBits(H, t0))
  IN [hi |-> Wrap(W, t2 + HighBits(H, t1)), lo |-> LowBits(H, ll) + LowBits(H, t1) * 2^H]
Square64(x) ==
  LET ll == LowBits(H, x) * LowBits(H, x)
      lh == LowBits(H, x) * HighBits(H, x)
      hh == HighBits(H, x) * HighBits(H, x)
      t0 == Wrap(W, lh + HighBits(H + 1, ll))
  IN [hi |-> Wrap(W, hh + HighBits(H - 1, t0)), lo |-> Wrap(W, ll + lh * 2^(H + 1))]
Avx256Mul64(x, y)  == Mul64(x, y)
Avx512Mul64(x, y)  == Mul64(x, y)
Avx256Square64(x)  == Square64(x)
Avx512Square64(x)  == Square64(x)

Avx256AddSmall(x, y) ==
  LET r == Wrap(W, x + y) IN Wrap(W, r + IF HighBits(H, x) > HighBits(H, r) THEN EPSILON ELSE 0)
Avx256SubSmall(x, y) ==
  LET r == Wrap(W, x - y) IN Wrap(W, r - IF HighBits(H, r) > HighBits(H, x) THEN EPSILON ELSE 0)
Avx256Reduce128(x) ==
  Avx256AddSmall(Avx256SubSmall(x.lo, HighBits(H, x.hi)), LowBits(H, x.hi) * EPSILON)
Avx512Reduce128(x) ==
  Avx512AddNoDoubleOverflow(Avx512SubNoDoubleOverflow(x.lo, HighBits(H, x.hi)),
                            LowBits(H, x.hi) * EPSILON)

Avx256Mul(u, v)  == PerLane2(LAMBDA x, y : Avx256Reduce128(Avx256Mul64(x, y)), u, v)
Avx512Mul(u, v)  == PerLane2(LAMBDA x, y : Avx512Reduce128(Avx512Mul64(x, y)), u, v)
NeonMul(u, v)    == PerLane2(GMul, u, v)
Avx256Square(u)  == PerLane(LAMBDA x : Avx256Reduce128(Avx256Square64(x)), u)
Avx512Square(u)  == PerLane(LAMBDA x : Avx512Reduce128(Avx512Square64(x)), u)
NeonSquare(u)    == NeonMul(u, u)

(* AVX-512 canonicalizes nothing, and leaves alone what is zero in every   *)
(* lane.                                                                   *)
Avx256Neg(u) == PerLane(LAMBDA x : MOD - Avx256Canonicalize(x), u)
Avx512Neg(u) ==
  IF AllLanes(GIsZero, u) THEN u ELSE PerLane(LAMBDA x : Wrap(W, MOD - x), u)
NeonNeg(u)   == PerLane(GNeg, u)

Avx256Double(u) == Avx256Add(u, u)
Avx512Double(u) == Avx512Add(u, u)
NeonDouble(u) == NeonAdd(u, u)
Avx256Exp(u, n) == Exp(Avx256Mul, PackedOne, u, n)
Avx512Exp(u, n) == Exp(Avx512Mul, PackedOne, u, n)
NeonExp(u, n) == Exp(NeonMul, PackedOne, u, n)
Avx256MulBy3(u) == DefaultMulBy3(Avx256Add, u)
Avx512MulBy3(u) == DefaultMulBy3(Avx512Add, u)
NeonMulBy3(u) == DefaultMulBy3(NeonAdd, u)
Avx256MulBy5(u) == DefaultMulBy5(Avx256Double, Avx256Add, u)
Avx512MulBy5(u) == DefaultMulBy5(Avx512Double, Avx512Add, u)
NeonMulBy5(u) == DefaultMulBy5(NeonDouble, NeonAdd, u)
Avx256MulBy6(u) == DefaultMulBy6(Avx256MulBy3, Avx256Add, u)
Avx512MulBy6(u) == DefaultMulBy6(Avx512MulBy3, Avx512Add, u)
NeonMulBy6(u) == DefaultMulBy6(NeonMulBy3, NeonAdd, u)
Avx256Inv(u) == InvLanes(GIsZero, TryInverseU64, u)
Avx512Inv(u) == InvLanes(GIsZero, TryInverseU64, u)
NeonInv(u) == InvLanes(GIsZero, TryInverseU64, u)

-----------------------------------------------------------------------------
Avx256IsZero(u) == AllLanes(GIsZero, u)
Avx512IsZero(u) == AllLanes(GIsZero, u)
NeonIsZero(u) == AllLanes(GIsZero, u)
Avx256Eq(u, v) == PerLane(Avx256ModReduce, u) = PerLane(Avx256ModReduce, v)
Avx512Eq(u, v) == PerLane(Avx512ModReduce, u) = PerLane(Avx512ModReduce, v)
NeonEq(u, v)   == \A l \in DOMAIN u : GEq(u[l], v[l])

Avx256Serialize(u) == PerLane(Avx256ModReduce, u)
Avx512Serialize(u) == PerLane(Avx512ModReduce, u)
NeonSerialize(u)   == PerLane(GSerialize, u)
Avx256Deserialize(bytes) == bytes
Avx512Deserialize(bytes) == bytes
NeonDeserialize(bytes)   == PerLane(GDeserialize, bytes)

Avx256PackFull(s) == Fill(PackSize, s)
Avx512PackFull(s) == Fill(PackSize, s)
NeonPackFull(s) == Fill(PackSize, s)
Avx256Pack(s) == s
Avx512Pack(s) == s
NeonPack(s) == s
Avx256Unpack(u) == u
Avx512Unpack(u) == u
NeonUnpack(u) == u
Avx256HorizontalSum(u) == Reduce128(FoldLeft(+, 0, u))
Avx512HorizontalSum(u) == Reduce128(FoldLeft(+, 0, u))
NeonHorizontalSum(u) == Reduce128(FoldLeft(+, 0, u))

(* NEON's sum with a scalar multiplies.                                    *)
Avx256AddScalar(u, s) == Avx256Add(u, Avx256PackFull(s))
Avx512AddScalar(u, s) == Avx512Add(u, Avx512PackFull(s))
NeonAddScalar(u, s)   == PerLane(LAMBDA x : GMul(x, s), u)
Avx256MulScalar(u, s) == Avx256Mul(u, Avx256PackFull(s))
Avx512MulScalar(u, s) == Avx512Mul(u, Avx512PackFull(s))
NeonMulScalar(u, s)   == PerLane(LAMBDA x : GMul(x, s), u)

(* AVX2's conversion of a half word flips the top bit.                     *)
Avx256FromU32(n) == Fill(PackSize, Wrap(W, n + 2^(W - 1)))
Avx512FromU32(n) == Fill(PackSize, n)
NeonFromU32(n)   == Fill(PackSize, GFromU32(n))
Avx256From(n) == IF n <= EPSILON THEN Avx256FromU32(n) ELSE Avx256PackFull(GFromU64(n))
Avx512From(n) == IF n <= EPSILON THEN Avx512FromU32(n) ELSE Avx512PackFull(GFromU64(n))
NeonFrom(n) == IF n <= EPSILON THEN NeonFromU32(n) ELSE NeonPackFull(GFromU64(n))
Avx256FromUniformBytes(w) == Avx256PackFull(GFromUniformBytes(w))
Avx512FromUniformBytes(w) == Avx512PackFull(GFromUniformBytes(w))
NeonFromUniformBytes(w) == NeonPackFull(GFromUniformBytes(w))
Avx256RandomUnsafe(w) == Fill(PackSize, Avx256ModReduce(w))
Avx512RandomUnsafe(w) == Fill(PackSize, Avx512ModReduce(w))
NeonRandomUnsafe(w)   == Fill(PackSize, GRandomUnsafe(w))
Avx256RandomBool(bits) == bits
Avx512RandomBool(bits) == bits
NeonRandomBool(bits)   == PerLane(LAMBDA b : GRandomBool(<<b>>), bits)

-----------------------------------------------------------------------------
(* The four types as instances of the machine.  Known to be wrong: the     *)
(* conversion and the sum above, and AVX-512's negation of a word above    *)
(* MOD beside a lane that is not zero.                                     *)
InWord(x) == x \in Word
NeverWrong(op, u, v) == FALSE
NeverPanics(op, u, v) == FALSE
AssumesFalselyInALane(op, u, v) ==
  op \in {"add", "sub"} /\ \E l \in DOMAIN u : AssumesFalsely(op, u[l], v[l])
WrongWithAvx256(op, u, v) == op = "from" /\ u <= EPSILON
WrongWithAvx512(op, u, v) ==
  op = "neg" /\ ~AllLanes(GIsZero, u) /\ \E l \in DOMAIN u : u[l] > MOD
WrongWithNeon(op, u, v) == op = "add_scalar"
ScalarPackFull(s)      == s
ScalarPack(s)          == s[1]
ScalarUnpack(a)        == <<a>>
ScalarHorizontalSum(a) == GAdd(0, a)
PackedSeeds == {1, MOD - 1, MOD + 1}

Scalar == INSTANCE FieldMachine WITH
  Kind <- "goldilocks", Lanes <- 1, Depth <- 0, Panics <- AssumesFalsely,
  KnownWrong <- NeverWrong, EFrom <- ModP, Element <- ModP, Draws <- Word,
  Operands <- Word, InRange <- InWord, Seeds <- PackedSeeds, Zero <- 0,
  One <- 1, Add <- GAdd, Sub <- GSub, Mul <- GMul, Neg <- GNeg,
  Double <- GDouble, Square <- GSquare, Power <- GExp, MulBy3 <- GMulBy3,
  MulBy5 <- GMulBy5, MulBy6 <- GMulBy6, Inv <- TryInverseU64, IsZero <- GIsZero,
  Eq <- GEq, PackFull <- ScalarPackFull, Pack <- ScalarPack,
  Unpack <- ScalarUnpack, HorizontalSum <- ScalarHorizontalSum,
  AddScalar <- GAdd, MulScalar <- GMul, Serialize <- GSerialize,
  Deserialize <- GDeserialize, From <- GFrom,
  FromUniformBytes <- GFromUniformBytes, RandomUnsafe <- GRandomUnsafe,
  RandomBool <- GRandomBool
Avx256 == INSTANCE FieldMachine WITH
  Kind <- "goldilocksx8.avx256", Lanes <- PackSize, Depth <- 0,
  Panics <- NeverPanics, KnownWrong <- WrongWithAvx256, EFrom <- ModP,
  Element <- ModP, Draws <- Word, Operands <- Word, InRange <- InWord,
  Seeds <- PackedSeeds, Zero <- PackedZero, One <- PackedOne, Add <- Avx256Add,
  Sub <- Avx256Sub, Mul <- Avx256Mul, Neg <- Avx256Neg, Double <- Avx256Double,
  Square <- Avx256Square, Power <- Avx256Exp, MulBy3 <- Avx256MulBy3,
  MulBy5 <- Avx256MulBy5, MulBy6 <- Avx256MulBy6, Inv <- Avx256Inv,
  IsZero <- Avx256IsZero, Eq <- Avx256Eq, PackFull <- Avx256PackFull,
  Pack <- Avx256Pack, Unpack <- Avx256Unpack,
  HorizontalSum <- Avx256HorizontalSum, AddScalar <- Avx256AddScalar,
  MulScalar <- Avx256MulScalar, Serialize <- Avx256Serialize,
  Deserialize <- Avx256Deserialize, From <- Avx256From,
  FromUniformBytes <- Avx256FromUniformBytes,
  RandomUnsafe <- Avx256RandomUnsafe, RandomBool <- Avx256RandomBool
Avx512 == INSTANCE FieldMachine WITH
  Kind <- "goldilocksx8.avx512", Lanes <- PackSize, Depth <- 0,
  Panics <- NeverPanics, KnownWrong <- WrongWithAvx512, EFrom <- ModP,
  Element <- ModP, Draws <- Word, Operands <- Word, InRange <- InWord,
  Seeds <- PackedSeeds, Zero <- PackedZero, One <- PackedOne, Add <- Avx512Add,
  Sub <- Avx512Sub, Mul <- Avx512Mul, Neg <- Avx512Neg, Double <- Avx512Double,
  Square <- Avx512Square, Power <- Avx512Exp, MulBy3 <- Avx512MulBy3,
  MulBy5 <- Avx512MulBy5, MulBy6 <- Avx512MulBy6, Inv <- Avx512Inv,
  IsZero <- Avx512IsZero, Eq <- Avx512Eq, PackFull <- Avx512PackFull,
  Pack <- Avx512Pack, Unpack <- Avx512Unpack,
  HorizontalSum <- Avx512HorizontalSum, AddScalar <- Avx512AddScalar,
  MulScalar <- Avx512MulScalar, Serialize <- Avx512Serialize,
  Deserialize <- Avx512Deserialize, From <- Avx512From,
  FromUniformBytes <- Avx512FromUniformBytes,
  RandomUnsafe <- Avx512RandomUnsafe, RandomBool <- Avx512RandomBool
Neon == INSTANCE FieldMachine WITH
  Kind <- "goldilocksx8.neon", Lanes <- PackSize, Depth <- 0,
  Panics <- AssumesFalselyInALane, KnownWrong <- WrongWithNeon, EFrom <- ModP,
  Element <- ModP, Draws <- Word, Operands <- Word, InRange <- InWord,
  Seeds <- PackedSeeds, Zero <- PackedZero, One <- PackedOne, Add <- NeonAdd,
  Sub <- NeonSub, Mul <- NeonMul, Neg <- NeonNeg, Double <- NeonDouble,
  Square <- NeonSquare, Power <- NeonExp, MulBy3 <- NeonMulBy3,
  MulBy5 <- NeonMulBy5, MulBy6 <- NeonMulBy6, Inv <- NeonInv,
  IsZero <- NeonIsZero, Eq <- NeonEq, PackFull <- NeonPackFull,
  Pack <- NeonPack, Unpack <- NeonUnpack, HorizontalSum <- NeonHorizontalSum,
  AddScalar <- NeonAddScalar, MulScalar <- NeonMulScalar,
  Serialize <- NeonSerialize, Deserialize <- NeonDeserialize, From <- NeonFrom,
  FromUniformBytes <- NeonFromUniformBytes, RandomUnsafe <- NeonRandomUnsafe,
  RandomBool <- NeonRandomBool
=============================================================================
