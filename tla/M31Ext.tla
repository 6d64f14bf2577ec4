------------------------------- MODULE M31Ext -------------------------------
(***************************************************************************)
(* The extensions of arith/mersenne31: three M31 limbs modulo x^3 - 5      *)
(* (m31_ext3.rs, Ext3...), sixteen of them at once over AVX2 vectors       *)
(* (m31_ext3x16.rs, Ext3x16...), and two of M31Ext3 modulo y^2 + 2         *)
(* (m31_ext6.rs, Ext6...).                                                 *)
(***************************************************************************)
EXTENDS M31x16

CONSTANT Depth

Ext3Zero == <<0, 0, 0>>
Ext3One  == <<1, 0, 0>>

Ext3Add(a, b) == PerLane2(M31Add, a, b)
Ext3Sub(a, b) == PerLane2(M31Sub, a, b)
Ext3Neg(a)    == PerLane(M31Neg, a)
Ext3Double(a) == Ext3Add(a, a)

Ext3Mul(a, b) ==
  LET m(i, j) == M31Mul(a[i], b[j])
  IN << M31Add(m(1, 1), M31Mul(5, M31Add(m(2, 3), m(3, 2)))),
        M31Add(M31Add(m(1, 2), m(2, 1)), M31Mul(M31Mul(5, a[3]), b[3])),
        M31Add(M31Add(m(1, 3), m(2, 2)), m(3, 1)) >>

Ext3Square(a) ==
  << M31Add(M31Square(a[1]), M31Mul(10 % MOD, M31Mul(a[2], a[3]))),
     M31Add(M31Mul(a[1], M31Double(a[2])), M31Mul(5, M31Square(a[3]))),
     M31Add(M31Mul(a[1], M31Double(a[3])), M31Square(a[2])) >>

Ext3Exp(a, n) == Exp(Ext3Mul, Ext3One, a, n)
Ext3MulBy3(a) == DefaultMulBy3(Ext3Add, a)
Ext3MulBy5(a) == DefaultMulBy5(Ext3Double, Ext3Add, a)
Ext3MulBy6(a) == DefaultMulBy6(Ext3MulBy3, Ext3Add, a)
Ext3MulByX(a) == <<M31MulBy5(a[3]), a[1], a[2]>>
Ext3MulByBaseField(a, b) == PerLane(LAMBDA x : M31Mul(x, b), a)
Ext3AddByBaseField(a, b) == <<M31Add(a[1], b), a[2], a[3]>>

Ext3IsZero(a)  == AllLanes(M31IsZero, a)
Ext3Eq(a, b)   == \A i \in 1 .. 3 : M31Eq(a[i], b[i])
Ext3Inv(a)     == IF Ext3IsZero(a) THEN None ELSE Some(Ext3Exp(a, MOD^3 - 2))
Ext3Serialize(a)       == PerLane(M31Serialize, a)
Ext3Deserialize(bytes) == PerLane(M31Deserialize, bytes)
Ext3From(n)            == <<M31From(n), 0, 0>>
Ext3FromUniformBytes(w) == PerLane(M31FromUniformBytes, DrawOf(W, 3, w))
Ext3RandomUnsafe(w)     == PerLane(M31RandomUnsafe, DrawOf(W, 3, w))
Ext3RandomBool(bits)    == <<M31RandomBool(bits), 0, 0>>

-----------------------------------------------------------------------------
(* M31Ext3x16: three vectors, one per coefficient.                         *)
Transposed(v)   == [l \in 1 .. PackSize |-> [i \in 1 .. 3 |-> v[i][l]]]
Ext3x16Zero     == <<PackedZero, PackedZero, PackedZero>>
Ext3x16One      == <<PackedOne, PackedZero, PackedZero>>
Ext3x16PackFull(s) == PerLane(Avx256PackFull, s)
Ext3x16Pack(s)     == [i \in 1 .. 3 |-> Avx256Pack([l \in 1 .. PackSize |-> s[l][i]])]
Ext3x16Unpack(u)   == Transposed(PerLane(Avx256Unpack, u))
Ext3x16HorizontalSum(u) == PerLane(Avx256HorizontalSum, u)

Ext3x16Add(u, v) == PerLane2(Avx256Add, u, v)
Ext3x16Sub(u, v) == PerLane2(Avx256Sub, u, v)
Ext3x16Neg(u)    == PerLane(Avx256Neg, u)
Ext3x16Double(u) == Ext3x16Add(u, u)

Ext3x16Mul(u, v) ==
  LET m(i, j)   == Avx256Mul(u[i], v[j])
      sum(x, y) == Avx256Add(x, y)
  IN << sum(m(1, 1), Avx256MulBy5(sum(m(2, 3), m(3, 2)))),
        sum(sum(m(1, 2), m(2, 1)), Avx256Mul(u[3], Avx256MulBy5(v[3]))),
        sum(sum(m(1, 3), m(2, 2)), m(3, 1)) >>

(* By one M31Ext3 for all lanes, whose coefficients are the ones scaled.   *)
Ext3x16MulScalar(u, s) ==
  LET m(i, x)   == Avx256MulScalar(u[i], x)
      sum(x, y) == Avx256Add(x, y)
      five(x)   == M31Mul(x, M31From(5))
  IN << sum(sum(m(1, s[1]), m(2, five(s[3]))), m(3, five(s[2]))),
        sum(sum(m(1, s[2]), m(2, s[1])), m(3, five(s[3]))),
        sum(sum(m(1, s[3]), m(2, s[2])), m(3, s[1])) >>

Ext3x16Square(u) ==
  LET w == Avx256MulBy5(u[3])
  IN << Avx256Add(Avx256Square(u[1]), Avx256Mul(u[2], Avx256Double(w))),
        Avx256Add(Avx256Mul(u[1], Avx256Double(u[2])), Avx256Mul(u[3], w)),
        Avx256Add(Avx256Mul(u[1], Avx256Double(u[3])), Avx256Mul(u[2], u[2])) >>

Ext3x16Exp(u, n) == Exp(Ext3x16Mul, Ext3x16One, u, n)
Ext3x16MulBy3(u) == DefaultMulBy3(Ext3x16Add, u)
Ext3x16MulBy5(u) == DefaultMulBy5(Ext3x16Double, Ext3x16Add, u)
Ext3x16MulBy6(u) == DefaultMulBy6(Ext3x16MulBy3, Ext3x16Add, u)
Ext3x16MulByX(u) == <<Avx256MulBy5(u[3]), u[1], u[2]>>
Ext3x16MulByBaseField(u, b) == PerLane(LAMBDA x : Avx256Mul(x, b), u)
Ext3x16AddByBaseField(u, b) == <<Avx256Add(u[1], b), u[2], u[3]>>

Ext3x16IsZero(u)  == AllLanes(Avx256IsZero, u)
Ext3x16Eq(u, v)   == \A i \in 1 .. 3 : Avx256Eq(u[i], v[i])
Ext3x16Serialize(u)       == PerLane(Avx256Serialize, u)
Ext3x16Deserialize(bytes) == PerLane(Avx256Deserialize, bytes)
Ext3x16From(n)            == <<Avx256From(n), PackedZero, PackedZero>>
Ext3x16RandomUnsafe(w)    == PerLane(Avx256RandomUnsafe, DrawOf(W, 3, w))
Ext3x16RandomBool(bits)   == <<Avx256RandomBool(bits), PackedZero, PackedZero>>

-----------------------------------------------------------------------------
(* M31Ext6.                                                                *)
Ext6Zero == <<Ext3Zero, Ext3Zero>>
Ext6One  == <<Ext3One, Ext3Zero>>

Ext6Add(a, b) == PerLane2(Ext3Add, a, b)
Ext6Sub(a, b) == PerLane2(Ext3Sub, a, b)
Ext6Neg(a)    == PerLane(Ext3Neg, a)
Ext6Double(a) == Ext6Add(a, a)

Ext6Mul(a, b) ==
  << Ext3Sub(Ext3Mul(a[1], b[1]), Ext3Double(Ext3Mul(a[2], b[2]))),
     Ext3Add(Ext3Mul(a[1], b[2]), Ext3Mul(a[2], b[1])) >>

Ext6Square(a) ==
  << Ext3Sub(Ext3Square(a[1]), Ext3Double(Ext3Square(a[2]))),
     Ext3Mul(a[1], Ext3Double(a[2])) >>

Ext6Conjugate(a, inverse) ==
  IF inverse = None THEN None
  ELSE Some(<<Ext3Mul(Ext3Neg(a[1]), inverse[1]), Ext3Mul(a[2], inverse[1])>>)
Ext6Inv(a) ==
  IF Ext3IsZero(a[1]) /\ Ext3IsZero(a[2]) THEN None
  ELSE Ext6Conjugate(a, Ext3Inv(Ext3Sub(Ext3Neg(Ext3Square(a[1])), Ext3Double(Ext3Square(a[2])))))

Ext6Exp(a, n) == Exp(Ext6Mul, Ext6One, a, n)
Ext6MulBy3(a) == DefaultMulBy3(Ext6Add, a)
Ext6MulBy5(a) == DefaultMulBy5(Ext6Double, Ext6Add, a)
Ext6MulBy6(a) == DefaultMulBy6(Ext6MulBy3, Ext6Add, a)
Ext6MulByX(a) == <<Ext3Neg(Ext3Double(a[2])), a[1]>>
Ext6MulByBaseField(a, b) == PerLane(LAMBDA x : Ext3Mul(x, b), a)
Ext6AddByBaseField(a, b) == <<Ext3Add(a[1], b), a[2]>>

Ext6IsZero(a)  == AllLanes(Ext3IsZero, a)
Ext6Eq(a, b)   == Ext3Eq(a[1], b[1]) /\ Ext3Eq(a[2], b[2])
Ext6Serialize(a)       == PerLane(Ext3Serialize, a)
Ext6Deserialize(bytes) == PerLane(Ext3Deserialize, bytes)
Ext6From(n)            == <<Ext3From(n), Ext3Zero>>
Ext6FromUniformBytes(w) ==
  LET words == PerLane(M31FromUniformBytes, DrawOf(W, 6, w))
  IN <<SubSeq(words, 1, 3), SubSeq(words, 4, 6)>>
Ext6RandomUnsafe(w)  == <<Ext3RandomUnsafe(w), Ext3RandomUnsafe(w)>>
Ext6RandomBool(bits) == <<Ext3RandomBool(bits), Ext3Zero>>

-----------------------------------------------------------------------------
(* The fields themselves, and the three types as instances of the machine. *)
(* M31Ext3x16 has no inverse and draws no challenge: both are              *)
(* unimplemented.  Known to be wrong: what the limbs get wrong.            *)
E3Add(u, v)  == PerLane2(EAdd, u, v)
E3Mul(u, v)  == BinomialProduct(EAdd, EMul, 0, 5, u, v)
E3Neg(u)     == PerLane(ENeg, u)
E3Of(x)      == <<x % MOD, 0, 0>>
E3Meaning(s) == PerLane(ModP, s)
E3Inv(u)     == Exp(E3Mul, E3Of(1), u, MOD^3 - 2)
E3X          == <<0, 1, 0>>
E6Add(u, v)  == PerLane2(E3Add, u, v)
E6Mul(u, v)  == BinomialProduct(E3Add, E3Mul, E3Of(0), E3Of(MOD - 2), u, v)
E6Neg(u)     == PerLane(E3Neg, u)
E6Of(x)      == <<E3Of(x), E3Of(0)>>
E6Meaning(s) == PerLane(E3Meaning, s)
E6Inv(u)     == Exp(E6Mul, E6Of(1), u, MOD^6 - 2)
E6X          == <<E3Of(0), E3Of(1)>>
E6Base(b)    == <<E3Meaning(b), E3Of(0)>>

InExt3(s)    == AllLanes(InScalarWords, s)
InAvxExt3(s) == AllLanes(InAvxWords, s)
InExt6(s)    == AllLanes(InExt3, s)
Ext3TopWord(op, u, v) == op = "from_uniform_bytes" /\ \E i \in DOMAIN u : u[i] = MOD + 1
Ext6TopWord(op, u, v) ==
  op = "from_uniform_bytes" /\ \E i \in DOMAIN u : Ext3TopWord(op, u[i], v[i])
Ext3x16Wrong(op, u, v) ==
  op \in {"horizontal_sum", "eq"} /\ \E i \in DOMAIN u : WrongWithAvx256(op, u[i], v[i])
Unimplemented(op, u, v) == op \in {"inv", "from_uniform_bytes"}
LiftedAdd(u, s)         == Ext3x16Add(u, Ext3x16PackFull(s))
NoInverse(u)            == None
SelfPackFull(s) == s
SelfPack(s)     == s[1]
SelfUnpack(a)   == <<a>>
SelfHorizontalSum(a) == a

Ext3Scalars == {<<0, 0, 0>>, <<MOD - 1, 3, 0>>, <<2, MOD - 2, MOD - 1>>}
Ext6Scalars == {<<a, b>> : a \in Ext3Scalars, b \in Ext3Scalars}
BaseScalars == {0, 3, MOD - 1}
BaseVectors == {PackedOne, [l \in 1 .. PackSize |-> IF IsOdd(l) THEN MOD - 1 ELSE 3]}

Extension3 == INSTANCE ExtensionMachine WITH
  Kind <- "m31ext3", Lanes <- 1, Depth <- 0, InRange <- InExt3,
  Panics <- NeverPanics, KnownWrong <- Ext3TopWord, Seeds <- Ext3Scalars,
  Operands <- Ext3Scalars, Draws <- Word, EFrom <- E3Of, Element <- E3Meaning,
  EAdd <- E3Add, EMul <- E3Mul, ENeg <- E3Neg, EInv <- E3Inv, EX <- E3X,
  EBase <- E3Of, BaseOperands <- BaseScalars, UnpackBase <- SelfUnpack,
  Zero <- Ext3Zero, One <- Ext3One, Add <- Ext3Add, Sub <- Ext3Sub,
  Mul <- Ext3Mul, Neg <- Ext3Neg, Double <- Ext3Double, Square <- Ext3Square,
  Power <- Ext3Exp, MulBy3 <- Ext3MulBy3, MulBy5 <- Ext3MulBy5,
  MulBy6 <- Ext3MulBy6, Inv <- Ext3Inv, IsZero <- Ext3IsZero, Eq <- Ext3Eq,
  PackFull <- SelfPackFull, Pack <- SelfPack, Unpack <- SelfUnpack,
  HorizontalSum <- SelfHorizontalSum, AddScalar <- Ext3Add,
  MulScalar <- Ext3Mul, Serialize <- Ext3Serialize,
  Deserialize <- Ext3Deserialize, From <- Ext3From,
  FromUniformBytes <- Ext3FromUniformBytes, RandomUnsafe <- Ext3RandomUnsafe,
  RandomBool <- Ext3RandomBool, MulByX <- Ext3MulByX,
  MulByBaseField <- Ext3MulByBaseField, AddByBaseField <- Ext3AddByBaseField
Extension3x16 == INSTANCE ExtensionMachine WITH
  Kind <- "m31ext3x16", Lanes <- PackSize, InRange <- InAvxExt3,
  Panics <- Unimplemented, KnownWrong <- Ext3x16Wrong, Seeds <- Ext3Scalars,
  Operands <- Ext3Scalars, Draws <- Word, EFrom <- E3Of, Element <- E3Meaning,
  EAdd <- E3Add, EMul <- E3Mul, ENeg <- E3Neg, EInv <- E3Inv, EX <- E3X,
  EBase <- E3Of, BaseOperands <- BaseVectors, UnpackBase <- Avx256Unpack,
  Zero <- Ext3x16Zero, One <- Ext3x16One, Add <- Ext3x16Add, Sub <- Ext3x16Sub,
  Mul <- Ext3x16Mul, Neg <- Ext3x16Neg, Double <- Ext3x16Double,
  Square <- Ext3x16Square, Power <- Ext3x16Exp, MulBy3 <- Ext3x16MulBy3,
  MulBy5 <- Ext3x16MulBy5, MulBy6 <- Ext3x16MulBy6, Inv <- NoInverse,
  IsZero <- Ext3x16IsZero, Eq <- Ext3x16Eq, PackFull <- Ext3x16PackFull,
  Pack <- Ext3x16Pack, Unpack <- Ext3x16Unpack,
  HorizontalSum <- Ext3x16HorizontalSum, AddScalar <- LiftedAdd,
  MulScalar <- Ext3x16MulScalar, Serialize <- Ext3x16Serialize,
  Deserialize <- Ext3x16Deserialize, From <- Ext3x16From,
  FromUniformBytes <- Ext3x16RandomUnsafe, RandomUnsafe <- Ext3x16RandomUnsafe,
  RandomBool <- Ext3x16RandomBool, MulByX <- Ext3x16MulByX,
  MulByBaseField <- Ext3x16MulByBaseField,
  AddByBaseField <- Ext3x16AddByBaseField
Extension6 == INSTANCE ExtensionMachine WITH
  Kind <- "m31ext6", Lanes <- 1, InRange <- InExt6, Panics <- NeverPanics,
  KnownWrong <- Ext6TopWord, Seeds <- Ext6Scalars, Operands <- Ext6Scalars,
  Draws <- Word, EFrom <- E6Of, Element <- E6Meaning, EAdd <- E6Add,
  EMul <- E6Mul, ENeg <- E6Neg, EInv <- E6Inv, EX <- E6X, EBase <- E6Base,
  BaseOperands <- Ext3Scalars, UnpackBase <- SelfUnpack, Zero <- Ext6Zero,
  One <- Ext6One, Add <- Ext6Add, Sub <- Ext6Sub, Mul <- Ext6Mul,
  Neg <- Ext6Neg, Double <- Ext6Double, Square <- Ext6Square, Power <- Ext6Exp,
  MulBy3 <- Ext6MulBy3, MulBy5 <- Ext6MulBy5, MulBy6 <- Ext6MulBy6,
  Inv <- Ext6Inv, IsZero <- Ext6IsZero, Eq <- Ext6Eq, PackFull <- SelfPackFull,
  Pack <- SelfPack, Unpack <- SelfUnpack, HorizontalSum <- SelfHorizontalSum,
  AddScalar <- Ext6Add, MulScalar <- Ext6Mul, Serialize <- Ext6Serialize,
  Deserialize <- Ext6Deserialize, From <- Ext6From,
  FromUniformBytes <- Ext6FromUniformBytes, RandomUnsafe <- Ext6RandomUnsafe,
  RandomBool <- Ext6RandomBool, MulByX <- Ext6MulByX,
  MulByBaseField <- Ext6MulByBaseField, AddByBaseField <- Ext6AddByBaseField
=============================================================================
