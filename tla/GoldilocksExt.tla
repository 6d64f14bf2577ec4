---------------------------- MODULE GoldilocksExt ----------------------------
(***************************************************************************)
(* The extension of arith/goldilocks: two Goldilocks limbs modulo x^2 - 7  *)
(* (goldilocks_ext.rs, Ext2...), and eight of them at once over AVX2       *)
(* vectors (goldilocks_ext2x8.rs, Ext2x8...).                              *)
(***************************************************************************)
EXTENDS Goldilocksx8

CONSTANT Depth

Ext2Zero == <<0, 0>>
Ext2One  == <<1, 0>>

Ext2Add(a, b) == PerLane2(GAdd, a, b)
Ext2Sub(a, b) == PerLane2(GSub, a, b)
Ext2Neg(a)    == PerLane(GNeg, a)
Ext2Double(a) == Ext2Add(a, a)

Ext2Mul(a, b) ==
  << GAdd(GMul(a[1], b[1]), GMul(a[2], GMulBy7(b[2]))),
     GAdd(GMul(a[1], b[2]), GMul(a[2], b[1])) >>

Ext2Square(a) ==
  << GAdd(GSquare(a[1]), GMulBy7(GSquare(a[2]))), GMul(a[1], GDouble(a[2])) >>

(* The root that raising to MOD multiplies the limbs by is -1 to the power *)
(* of the limb; the code's first limb takes the root and its second the    *)
(* square, which is the conjugate negated.                                 *)
Ext2Frobenius(a) == <<GMul(a[1], MOD - 1), GMul(a[2], GMul(MOD - 1, MOD - 1))>>

Ext2MulByBaseField(a, b) == PerLane(LAMBDA x : GMul(x, b), a)
Ext2Inv(a) ==
  IF GIsZero(a[1]) /\ GIsZero(a[2]) THEN None
  ELSE Some(Ext2MulByBaseField(Ext2Frobenius(a), TryInverseU64(Ext2Mul(Ext2Frobenius(a), a)[1])[1]))

Ext2Exp(a, n) == Exp(Ext2Mul, Ext2One, a, n)
Ext2MulBy3(a) == DefaultMulBy3(Ext2Add, a)
Ext2MulBy5(a) == DefaultMulBy5(Ext2Double, Ext2Add, a)
Ext2MulBy6(a) == DefaultMulBy6(Ext2MulBy3, Ext2Add, a)
Ext2MulByX(a) == <<GMulBy7(a[2]), a[1]>>
Ext2AddByBaseField(a, b) == <<GAdd(a[1], b), a[2]>>

Ext2IsZero(a)  == AllLanes(GIsZero, a)
Ext2Eq(a, b)   == GEq(a[1], b[1]) /\ GEq(a[2], b[2])
Ext2Serialize(a)        == PerLane(GSerialize, a)
Ext2Deserialize(bytes)  == PerLane(GDeserialize, bytes)
Ext2From(n)             == <<GFrom(n), 0>>
Ext2FromUniformBytes(w) == PerLane(GFromUniformBytes, DrawOf(W, 2, w))
Ext2RandomUnsafe(w)     == PerLane(GRandomUnsafe, DrawOf(W, 2, w))
Ext2RandomBool(bits)    == <<GRandomBool(bits), 0>>

-----------------------------------------------------------------------------
(* GoldilocksExt2x8: c0 and c1.                                            *)
Ext2x8Zero        == <<PackedZero, PackedZero>>
Ext2x8One         == <<PackedOne, PackedZero>>
Ext2x8PackFull(s) == PerLane(Avx256PackFull, s)
Ext2x8Pack(s)     == [i \in 1 .. 2 |-> Avx256Pack([l \in 1 .. PackSize |-> s[l][i]])]
Ext2x8Unpack(u)   == [l \in 1 .. PackSize |-> [i \in 1 .. 2 |-> Avx256Unpack(u[i])[l]]]
Ext2x8HorizontalSum(u) == DefaultHorizontalSum(Ext2Add, Ext2Zero, Ext2x8Unpack(u))

Ext2x8Add(u, v) == PerLane2(Avx256Add, u, v)
Ext2x8Sub(u, v) == PerLane2(Avx256Sub, u, v)
Ext2x8Neg(u)    == PerLane(Avx256Neg, u)
Ext2x8Double(u) == Ext2x8Add(u, u)

PackedSeven == Avx256PackFull(GFromU64(7))

Ext2x8Mul(u, v) ==
  LET m(i, j) == Avx256Mul(u[i], v[j])
  IN << Avx256Add(m(1, 1), Avx256Mul(m(2, 2), PackedSeven)),
        Avx256Add(m(1, 2), m(2, 1)) >>

Ext2x8MulScalar(u, s) ==
  LET m(i, x) == Avx256MulScalar(u[i], x)
  IN << Avx256Add(m(1, s[1]), Avx256MulScalar(m(2, s[2]), GFromU32(7))),
        Avx256Add(m(1, s[2]), m(2, s[1])) >>

Ext2x8Square(u) ==
  << Avx256Add(Avx256Square(u[1]), Avx256Mul(Avx256Square(u[2]), PackedSeven)),
     Avx256Mul(u[1], Avx256Double(u[2])) >>

Conjugate(u, inverse) ==
  IF inverse = None THEN None
  ELSE Some(<<Avx256Mul(Avx256Neg(u[1]), inverse[1]), Avx256Mul(u[2], inverse[1])>>)
Ext2x8Inv(u) ==
  IF Avx256IsZero(u[1]) /\ Avx256IsZero(u[2]) THEN None
  ELSE Conjugate(u, Avx256Inv(Avx256Add(Avx256Neg(Avx256Square(u[1])),
                                        Avx256Mul(Avx256Square(u[2]), PackedSeven))))

Ext2x8Exp(u, n) == Exp(Ext2x8Mul, Ext2x8One, u, n)
Ext2x8MulBy3(u) == DefaultMulBy3(Ext2x8Add, u)
Ext2x8MulBy5(u) == DefaultMulBy5(Ext2x8Double, Ext2x8Add, u)
Ext2x8MulBy6(u) == DefaultMulBy6(Ext2x8MulBy3, Ext2x8Add, u)
Ext2x8MulByX(u) == <<Avx256Mul(u[2], PackedSeven), u[1]>>
Ext2x8MulByBaseField(u, b) == PerLane(LAMBDA x : Avx256Mul(x, b), u)
Ext2x8AddByBaseField(u, b) == <<Avx256Add(u[1], b), u[2]>>

Ext2x8IsZero(u)  == AllLanes(Avx256IsZero, u)
Ext2x8Eq(u, v)   == \A i \in 1 .. 2 : Avx256Eq(u[i], v[i])
Ext2x8Serialize(u)       == PerLane(Avx256Serialize, u)
Ext2x8Deserialize(bytes) == PerLane(Avx256Deserialize, bytes)
Ext2x8From(n)            == <<Avx256From(n), PackedZero>>
Ext2x8RandomUnsafe(w)    == PerLane(Avx256RandomUnsafe, DrawOf(W, 2, w))
Ext2x8RandomBool(bits)   == <<Avx256RandomBool(bits), PackedZero>>

-----------------------------------------------------------------------------
(* The field itself, and the two types as instances of the machine.        *)
E2Add(u, v)  == PerLane2(EAdd, u, v)
E2Mul(u, v)  == BinomialProduct(EAdd, EMul, 0, 7, u, v)
E2Neg(u)     == PerLane(ENeg, u)
E2Of(x)      == <<x % MOD, 0>>
E2Meaning(s) == PerLane(ModP, s)
E2Inv(u)     == Exp(E2Mul, E2Of(1), u, MOD^2 - 2)
E2X          == <<0, 1>>

InExt2(s) == AllLanes(InWord, s)
AssumesFalselyInALimb(op, u, v) ==
  op \in {"add", "sub", "mul"} /\ \E i \in DOMAIN u : AssumesFalsely(op, u[i], v[i])
Unimplemented(op, u, v) == op = "from_uniform_bytes"
LiftedAdd(u, s)      == Ext2x8Add(u, Ext2x8PackFull(s))
SelfPackFull(s)      == s
SelfPack(s)          == s[1]
SelfUnpack(a)        == <<a>>
SelfHorizontalSum(a) == Ext2Add(Ext2Zero, a)

Ext2Scalars == {<<0, MOD>>, <<MOD - 1, 3>>, <<2, MOD + 1>>}
BaseScalars == {0, 3, MOD - 1}
BaseVectors == {PackedOne, [l \in 1 .. PackSize |-> IF IsOdd(l) THEN MOD + 1 ELSE 3]}

Extension2 == INSTANCE ExtensionMachine WITH
  Kind <- "goldilocksext2", Lanes <- 1, InRange <- InExt2,
  Panics <- AssumesFalselyInALimb, KnownWrong <- NeverWrong,
  Seeds <- Ext2Scalars, Operands <- Ext2Scalars, Draws <- Word, EFrom <- E2Of,
  Element <- E2Meaning, EAdd <- E2Add, EMul <- E2Mul, ENeg <- E2Neg,
  EInv <- E2Inv, EX <- E2X, EBase <- E2Of, BaseOperands <- BaseScalars,
  UnpackBase <- SelfUnpack, Zero <- Ext2Zero, One <- Ext2One, Add <- Ext2Add,
  Sub <- Ext2Sub, Mul <- Ext2Mul, Neg <- Ext2Neg, Double <- Ext2Double,
  Square <- Ext2Square, Power <- Ext2Exp, MulBy3 <- Ext2MulBy3,
  MulBy5 <- Ext2MulBy5, MulBy6 <- Ext2MulBy6, Inv <- Ext2Inv,
  IsZero <- Ext2IsZero, Eq <- Ext2Eq, PackFull <- SelfPackFull,
  Pack <- SelfPack, Unpack <- SelfUnpack, HorizontalSum <- SelfHorizontalSum,
  AddScalar <- Ext2Add, MulScalar <- Ext2Mul, Serialize <- Ext2Serialize,
  Deserialize <- Ext2Deserialize, From <- Ext2From,
  FromUniformBytes <- Ext2FromUniformBytes, RandomUnsafe <- Ext2RandomUnsafe,
  RandomBool <- Ext2RandomBool, MulByX <- Ext2MulByX,
  MulByBaseField <- Ext2MulByBaseField, AddByBaseField <- Ext2AddByBaseField
Extension2x8 == INSTANCE ExtensionMachine WITH
  Kind <- "goldilocksext2x8.avx256", Lanes <- PackSize, InRange <- InExt2,
  Panics <- Unimplemented, KnownWrong <- WrongWithAvx256, Seeds <- Ext2Scalars,
  Operands <- Ext2Scalars, Draws <- Word, EFrom <- E2Of, Element <- E2Meaning,
  EAdd <- E2Add, EMul <- E2Mul, ENeg <- E2Neg, EInv <- E2Inv, EX <- E2X,
  EBase <- E2Of, BaseOperands <- BaseVectors, UnpackBase <- Avx256Unpack,
  Zero <- Ext2x8Zero, One <- Ext2x8One, Add <- Ext2x8Add, Sub <- Ext2x8Sub,
  Mul <- Ext2x8Mul, Neg <- Ext2x8Neg, Double <- Ext2x8Double,
  Square <- Ext2x8Square, Power <- Ext2x8Exp, MulBy3 <- Ext2x8MulBy3,
  MulBy5 <- Ext2x8MulBy5, MulBy6 <- Ext2x8MulBy6, Inv <- Ext2x8Inv,
  IsZero <- Ext2x8IsZero, Eq <- Ext2x8Eq, PackFull <- Ext2x8PackFull,
  Pack <- Ext2x8Pack, Unpack <- Ext2x8Unpack,
  HorizontalSum <- Ext2x8HorizontalSum, AddScalar <- LiftedAdd,
  MulScalar <- Ext2x8MulScalar, Serialize <- Ext2x8Serialize,
  Deserialize <- Ext2x8Deserialize, From <- Ext2x8From,
  FromUniformBytes <- Ext2x8RandomUnsafe, RandomUnsafe <- Ext2x8RandomUnsafe,
  RandomBool <- Ext2x8RandomBool, MulByX <- Ext2x8MulByX,
  MulByBaseField <- Ext2x8MulByBaseField, AddByBaseField <- Ext2x8AddByBaseField
=============================================================================
