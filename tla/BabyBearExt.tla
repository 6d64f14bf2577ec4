----------------------------- MODULE BabyBearExt -----------------------------
(***************************************************************************)
(* The extension of arith/babybear: three BabyBear limbs modulo x^3 - 2    *)
(* (babybear_ext.rs, Ext3...), and sixteen of them at once over NEON       *)
(* vectors (babybear_ext3x16.rs, Ext3x16...).                              *)
(***************************************************************************)
EXTENDS BabyBearx16

CONSTANT Depth

Ext3Zero == <<MontyZero, MontyZero, MontyZero>>
Ext3One  == <<MontyOne, MontyZero, MontyZero>>

Ext3Add(a, b) == PerLane2(MontyAdd, a, b)
Ext3Sub(a, b) == PerLane2(MontySub, a, b)
Ext3Neg(a)    == PerLane(MontyNeg, a)
Ext3Double(a) == Ext3Add(a, a)

Ext3Mul(a, b) ==
  LET m(i, j) == MontyMul(a[i], b[j])
      two(x)  == MontyMul(ToMonty(2), x)
  IN << MontyAdd(m(1, 1), two(MontyAdd(m(2, 3), m(3, 2)))),
        MontyAdd(MontyAdd(m(1, 2), m(2, 1)), MontyMul(two(a[3]), b[3])),
        MontyAdd(MontyAdd(m(1, 3), m(2, 2)), m(3, 1)) >>

Ext3Square(a) ==
  << MontyAdd(MontySquare(a[1]), MontyMul(ToMonty(4), MontyMul(a[2], a[3]))),
     MontyAdd(MontyMul(a[1], MontyDouble(a[2])), MontyMul(ToMonty(2), MontySquare(a[3]))),
     MontyAdd(MontyMul(a[1], MontyDouble(a[3])), MontySquare(a[2])) >>

Ext3Exp(a, n) == Exp(Ext3Mul, Ext3One, a, n)
Ext3MulBy3(a) == DefaultMulBy3(Ext3Add, a)
Ext3MulBy5(a) == DefaultMulBy5(Ext3Double, Ext3Add, a)
Ext3MulBy6(a) == DefaultMulBy6(Ext3MulBy3, Ext3Add, a)
Ext3MulByX(a) == <<MontyDouble(a[3]), a[1], a[2]>>
Ext3MulByBaseField(a, b) == PerLane(LAMBDA x : MontyMul(x, b), a)
Ext3AddByBaseField(a, b) == <<MontyAdd(a[1], b), a[2], a[3]>>

Ext3IsZero(a)  == AllLanes(MontyIsZero, a)
Ext3Eq(a, b)   == a = b
Ext3Inv(a)     == IF Ext3IsZero(a) THEN None ELSE Some(Ext3Exp(a, P^3 - 2))
Ext3Serialize(a)        == PerLane(MontySerialize, a)
Ext3Deserialize(bytes)  == PerLane(MontyDeserialize, bytes)
Ext3From(n)             == <<MontyFrom(n), MontyZero, MontyZero>>
Ext3FromUniformBytes(w) == PerLane(MontyFromUniformBytes, DrawOf(W, 3, w))
Ext3RandomUnsafe(w)     == PerLane(MontyRandomUnsafe, DrawOf(W, 3, w))
Ext3RandomBool(bits)    == <<MontyRandomBool(bits), MontyZero, MontyZero>>

-----------------------------------------------------------------------------
(* BabyBearExt3x16: three vectors, one per coefficient.                    *)
Ext3x16Zero        == <<PackedZero, PackedZero, PackedZero>>
Ext3x16One         == <<PackedOne, PackedZero, PackedZero>>
Ext3x16PackFull(s) == PerLane(NeonPackFull, s)
Ext3x16Pack(s)     == [i \in 1 .. 3 |-> NeonPack([l \in 1 .. PackSize |-> s[l][i]])]
Ext3x16Unpack(u)   == [l \in 1 .. PackSize |-> [i \in 1 .. 3 |-> NeonUnpack(u[i])[l]]]
Ext3x16HorizontalSum(u) == PerLane(HorizontalSum, u)

Ext3x16Add(u, v) == PerLane2(NeonAdd, u, v)
Ext3x16Sub(u, v) == PerLane2(NeonSub, u, v)
Ext3x16Neg(u)    == PerLane(NeonNeg, u)
Ext3x16Double(u) == Ext3x16Add(u, u)

Ext3x16Mul(u, v) ==
  LET m(i, j) == NeonMul(u[i], v[j])
  IN << NeonAdd(m(1, 1), NeonDouble(NeonAdd(m(2, 3), m(3, 2)))),
        NeonAdd(NeonAdd(m(1, 2), m(2, 1)), NeonMul(u[3], NeonDouble(v[3]))),
        NeonAdd(NeonAdd(m(1, 3), m(2, 2)), m(3, 1)) >>

(* By one BabyBearExt3 for all lanes, whose coefficients are the ones      *)
(* doubled.                                                                *)
Ext3x16MulScalar(u, s) ==
  LET m(i, x) == NeonMulScalar(u[i], x)
      two(x)  == MontyMul(x, ToMonty(2))
  IN << NeonAdd(NeonAdd(m(1, s[1]), m(2, two(s[3]))), m(3, two(s[2]))),
        NeonAdd(NeonAdd(m(1, s[2]), m(2, s[1])), m(3, two(s[3]))),
        NeonAdd(NeonAdd(m(1, s[3]), m(2, s[2])), m(3, s[1])) >>

Ext3x16Square(u) ==
  LET w == NeonDouble(u[3])
  IN << NeonAdd(NeonSquare(u[1]), NeonMul(u[2], NeonDouble(w))),
        NeonAdd(NeonMul(u[1], NeonDouble(u[2])), NeonMul(u[3], w)),
        NeonAdd(NeonMul(u[1], NeonDouble(u[3])), NeonMul(u[2], u[2])) >>

Ext3x16Exp(u, n) == Exp(Ext3x16Mul, Ext3x16One, u, n)
Ext3x16MulBy3(u) == DefaultMulBy3(Ext3x16Add, u)
Ext3x16MulBy5(u) == DefaultMulBy5(Ext3x16Double, Ext3x16Add, u)
Ext3x16MulBy6(u) == DefaultMulBy6(Ext3x16MulBy3, Ext3x16Add, u)
Ext3x16MulByX(u) == <<NeonDouble(u[3]), u[1], u[2]>>
Ext3x16MulByBaseField(u, b) == PerLane(LAMBDA x : NeonMul(x, b), u)
Ext3x16AddByBaseField(u, b) == <<NeonAdd(u[1], b), u[2], u[3]>>

(* The inverse is taken lane by lane, out of the vectors and back.         *)
Ext3x16Inv(u) ==
  LET each == InvLanes(Ext3IsZero, Ext3Inv, Ext3x16Unpack(u))
  IN IF each = None THEN None ELSE Some(Ext3x16Pack(each[1]))

Ext3x16IsZero(u)  == AllLanes(NeonIsZero, u)
Ext3x16Eq(u, v)   == \A i \in 1 .. 3 : NeonEq(u[i], v[i])
Ext3x16Serialize(u)       == PerLane(NeonSerialize, u)
Ext3x16Deserialize(bytes) == PerLane(NeonDeserialize, bytes)
Ext3x16From(n)            == <<NeonFrom(n), PackedZero, PackedZero>>
Ext3x16RandomUnsafe(w)    == PerLane(NeonRandomUnsafe, DrawOf(W, 3, w))
Ext3x16RandomBool(bits)   == <<NeonRandomBool(bits), PackedZero, PackedZero>>

-----------------------------------------------------------------------------
(* The field itself, and the two types as instances of the machine.        *)
(* BabyBearExt3x16 draws no challenge: from_uniform_bytes is unimplemented.*)
E3Add(u, v)  == PerLane2(EAdd, u, v)
E3Mul(u, v)  == BinomialProduct(EAdd, EMul, 0, 2, u, v)
E3Neg(u)     == PerLane(ENeg, u)
E3Of(x)      == <<x % P, 0, 0>>
E3Base(b)    == E3Of(Meaning(b))
E3Meaning(s) == PerLane(Meaning, s)
E3Inv(u)     == Exp(E3Mul, E3Of(1), u, P^3 - 2)
E3X          == <<0, 1, 0>>

InExt3(s) == AllLanes(InFieldWords, s)
Unimplemented(op, u, v) ==
  \/ op = "from_uniform_bytes"
  \/ op = "mul" /\ \E i \in DOMAIN u, j \in DOMAIN v : MulPanics(op, u[i], v[j])
LiftedAdd(u, s)      == Ext3x16Add(u, Ext3x16PackFull(s))
SelfPackFull(s)      == s
SelfPack(s)          == s[1]
SelfUnpack(a)        == <<a>>
SelfHorizontalSum(a) == a

Ext3Scalars == {Ext3Zero, <<P - 1, ToMonty(3), 0>>, <<ToMonty(2), P - 2, P - 1>>}
BaseScalars == {0, MontyOne, P - 1}
BaseVectors == {PackedOne, [l \in 1 .. PackSize |-> IF IsOdd(l) THEN P - 1 ELSE ToMonty(3)]}

Extension3 == INSTANCE ExtensionMachine WITH
  Kind <- "babybearext3", Lanes <- 1, InRange <- InExt3, Panics <- NeverPanics,
  KnownWrong <- NeverWrong, Seeds <- Ext3Scalars, Operands <- Ext3Scalars,
  Draws <- Word, EFrom <- E3Of, Element <- E3Meaning, EAdd <- E3Add,
  EMul <- E3Mul, ENeg <- E3Neg, EInv <- E3Inv, EX <- E3X, EBase <- E3Base,
  BaseOperands <- BaseScalars, UnpackBase <- SelfUnpack, Zero <- Ext3Zero,
  One <- Ext3One, Add <- Ext3Add, Sub <- Ext3Sub, Mul <- Ext3Mul,
  Neg <- Ext3Neg, Double <- Ext3Double, Square <- Ext3Square, Power <- Ext3Exp,
  MulBy3 <- Ext3MulBy3, MulBy5 <- Ext3MulBy5, MulBy6 <- Ext3MulBy6,
  Inv <- Ext3Inv, IsZero <- Ext3IsZero, Eq <- Ext3Eq, PackFull <- SelfPackFull,
  Pack <- SelfPack, Unpack <- SelfUnpack, HorizontalSum <- SelfHorizontalSum,
  AddScalar <- Ext3Add, MulScalar <- Ext3Mul, Serialize <- Ext3Serialize,
  Deserialize <- Ext3Deserialize, From <- Ext3From,
  FromUniformBytes <- Ext3FromUniformBytes, RandomUnsafe <- Ext3RandomUnsafe,
  RandomBool <- Ext3RandomBool, MulByX <- Ext3MulByX,
  MulByBaseField <- Ext3MulByBaseField, AddByBaseField <- Ext3AddByBaseField
Extension3x16 == INSTANCE ExtensionMachine WITH
  Kind <- "babybearext3x16.neon", Lanes <- PackSize, InRange <- InExt3,
  Panics <- Unimplemented, KnownWrong <- NeverWrong, Seeds <- Ext3Scalars,
  Operands <- Ext3Scalars, Draws <- Word, EFrom <- E3Of, Element <- E3Meaning,
  EAdd <- E3Add, EMul <- E3Mul, ENeg <- E3Neg, EInv <- E3Inv, EX <- E3X,
  EBase <- E3Base, BaseOperands <- BaseVectors, UnpackBase <- NeonUnpack,
  Zero <- Ext3x16Zero, One <- Ext3x16One, Add <- Ext3x16Add, Sub <- Ext3x16Sub,
  Mul <- Ext3x16Mul, Neg <- Ext3x16Neg, Double <- Ext3x16Double,
  Square <- Ext3x16Square, Power <- Ext3x16Exp, MulBy3 <- Ext3x16MulBy3,
  MulBy5 <- Ext3x16MulBy5, MulBy6 <- Ext3x16MulBy6, Inv <- Ext3x16Inv,
  IsZero <- Ext3x16IsZero, Eq <- Ext3x16Eq, PackFull <- Ext3x16PackFull,
  Pack <- Ext3x16Pack, Unpack <- Ext3x16Unpack,
  HorizontalSum <- Ext3x16HorizontalSum, AddScalar <- LiftedAdd,
  MulScalar <- Ext3x16MulScalar, Serialize <- Ext3x16Serialize,
  Deserialize <- Ext3x16Deserialize, From <- Ext3x16From,
  FromUniformBytes <- Ext3x16RandomUnsafe, RandomUnsafe <- Ext3x16RandomUnsafe,
  RandomBool <- Ext3x16RandomBool, MulByX <- Ext3x16MulByX,
  MulByBaseField <- Ext3x16MulByBaseField,
  AddByBaseField <- Ext3x16AddByBaseField
=============================================================================
