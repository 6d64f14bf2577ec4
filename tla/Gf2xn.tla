-------------------------------- MODULE Gf2xn --------------------------------
(***************************************************************************)
(* arith/gf2: the field of two elements (gf2.rs, Gf2...), and as vectors   *)
(* of bits in one word: GF2x8 (gf2x8.rs, X8...), GF2x64 (gf2x64.rs,        *)
(* X64...) and GF2x128 (gf2x128.rs, X128..., with SSE in gf2x128/avx.rs    *)
(* and with NEON in gf2x128/neon.rs).  A word is the set of the places of  *)
(* its ones.  PackBits is the 8 of GF2x8; two of them stand for the eight  *)
(* of a GF2x64.                                                            *)
(***************************************************************************)
EXTENDS Words

CONSTANTS PackBits, Careful

PackBitsAssumption == PackBits \in Nat /\ PackBits > 1

VARIABLES kind, acc, is, steps

Width64  == 2 * PackBits
Width128 == 2 * Width64

Xor(a, b)      == {i \in a \cup b : (i \in a) # (i \in b)}
Ones(width)    == 0 .. width - 1
BitsOf(width, x) == {i \in Ones(width) : (x \div 2^i) % 2 = 1}
Placed(place, s) == {place + i : i \in s}

-----------------------------------------------------------------------------
Gf2Add(a, b) == (a + b) % 2
Gf2Sub(a, b) == (a + b) % 2
Gf2Mul(a, b) == a * b
Gf2Neg(a)    == a
Gf2Double(a) == Gf2Add(a, a)
Gf2Square(a) == Gf2Mul(a, a)
Gf2MulBy3(a) == DefaultMulBy3(Gf2Add, a)
Gf2MulBy5(a) == a
Gf2MulBy6(a) == 0

(* The parity of the exponent decides, for zero as well.                   *)
Gf2Exp(a, n) == IF n % 2 = 0 THEN 1 ELSE a

Gf2Inv(a)    == IF a = 0 THEN None ELSE Some(1)
Gf2IsZero(a) == a = 0
Gf2Eq(a, b)  == a % 2 = b % 2
Gf2Serialize(a)        == a
Gf2Deserialize(byte)   == byte % 2
Gf2From(n)             == n % 2
Gf2FromUniformBytes(w) == w % 2
Gf2RandomUnsafe(w)     == w % 2
Gf2RandomBool(bits)    == bits[1] % 2

-----------------------------------------------------------------------------
(* GF2x8.  A conversion from an integer above 1 panics, and so do the      *)
(* inverses of all the vectors.                                            *)
X8Add(u, v) == Xor(u, v)
X8Sub(u, v) == Xor(u, v)
X8Mul(u, v) == u \cap v
X8Neg(u)    == u
X8Zero      == {}
X8One       == Ones(PackBits)
X8Exp(u, n) == IF n = 0 THEN X8One ELSE u
X8IsZero(u) == u = {}
X8Eq(u, v)  == u = v
X8Serialize(u)       == u
X8Deserialize(bytes) == bytes
X8From(n)            == IF n = 0 THEN X8Zero ELSE X8One
X8FromUniformBytes(w) == BitsOf(PackBits, w)
X8RandomUnsafe(w)     == BitsOf(PackBits, w)
X8RandomBool(bits)    == {i \in Ones(PackBits) : bits[i + 1] = 1}
X8MulBy5(u) == u
X8MulBy6(u) == {}
X8PackFull(s)     == IF s = 0 THEN X8Zero ELSE X8One
X8Pack(s)         == {i \in Ones(PackBits) : s[i + 1] = 1}
X8Unpack(u)       == [l \in 1 .. PackBits |-> IF l - 1 \in u THEN 1 ELSE 0]
X8MulScalar(u, s) == IF s = 0 THEN X8Zero ELSE u
X8AddScalar(u, s) == X8Add(u, X8PackFull(s))

-----------------------------------------------------------------------------
(* GF2x64, which is packed and unpacked as GF2x8s, the first in the lowest *)
(* byte.                                                                   *)
X64Add(u, v) == Xor(u, v)
X64Sub(u, v) == Xor(u, v)
X64Mul(u, v) == u \cap v
X64Neg(u)    == u
X64Zero      == {}
X64One       == Ones(Width64)
X64Exp(u, n) == IF n = 0 THEN X64One ELSE u
X64IsZero(u) == u = {}
X64Eq(u, v)  == u = v
X64Serialize(u)       == u
X64Deserialize(bytes) == bytes
X64From(n)            == IF n = 0 THEN X64Zero ELSE X64One
X64FromUniformBytes(w) == BitsOf(Width64, w)
X64RandomUnsafe(w)     == BitsOf(Width64, w)
X64RandomBool(bits)    == {i \in Ones(Width64) : bits[i + 1] = 1}
X64MulBy5(u) == u
X64MulBy6(u) == {}
X64PackFull(s)     == IF s = 0 THEN X64Zero ELSE X64One
X64Pack(s)         == X8Pack(SubSeq(s, 1, PackBits))
                      \cup Placed(PackBits, X8Pack(SubSeq(s, PackBits + 1, Width64)))
Byte(u, k)         == {i \in Ones(PackBits) : k * PackBits + i \in u}
X64Unpack(u)       == X8Unpack(Byte(u, 0)) \o X8Unpack(Byte(u, 1))
X64MulScalar(u, s) == IF s = 0 THEN X64Zero ELSE u
X64AddScalar(u, s) == X64Add(u, X64PackFull(s))

-----------------------------------------------------------------------------
(* GF2x128, packed and unpacked as two GF2x64s.                            *)
Avx128Add(u, v) == Xor(u, v)
Avx128Sub(u, v) == Xor(u, v)
Avx128Mul(u, v) == u \cap v
Avx128Neg(u)    == u
Avx128Zero      == {}
Avx128One       == Ones(Width128)
Avx128Exp(u, n) == IF n = 0 THEN Avx128One ELSE u
Avx128IsZero(u) == u = {}
Avx128Eq(u, v)  == u = v
Avx128Serialize(u)       == u
Avx128Deserialize(bytes) == bytes
Avx128From(n)            == IF n = 0 THEN Avx128Zero ELSE Avx128One
Avx128FromUniformBytes(w) == BitsOf(Width128, w)
Avx128RandomUnsafe(w)     == BitsOf(Width128, w)
Avx128RandomBool(bits)    == {i \in Ones(Width128) : bits[i + 1] = 1}
Neon128Add(u, v) == Xor(u, v)
Neon128Sub(u, v) == Xor(u, v)
Neon128Mul(u, v) == u \cap v
Neon128Neg(u)    == u
Neon128Zero      == {}
Neon128One       == Ones(Width128)
Neon128Exp(u, n) == IF n = 0 THEN Neon128One ELSE u
Neon128IsZero(u) == u = {}
Neon128Eq(u, v)  == u = v
Neon128Serialize(u)       == u
Neon128Deserialize(bytes) == bytes
Neon128From(n)            == IF n = 0 THEN Neon128Zero ELSE Neon128One
Neon128FromUniformBytes(w) == BitsOf(Width128, w)
Neon128RandomUnsafe(w)     == BitsOf(Width128, w)
Neon128RandomBool(bits)    == {i \in Ones(Width128) : bits[i + 1] = 1}
X128PackFull(s)     == IF s = 0 THEN Avx128Zero ELSE Avx128One
X128Pack(s)         == X64Pack(SubSeq(s, 1, Width64))
                       \cup Placed(Width64, X64Pack(SubSeq(s, Width64 + 1, Width128)))
Half(u, k)          == {i \in Ones(Width64) : k * Width64 + i \in u}
X128Unpack(u)       == X64Unpack(Half(u, 0)) \o X64Unpack(Half(u, 1))
X128MulScalar(u, s) == IF s = 0 THEN Avx128Zero ELSE u
X128AddScalar(u, s) == Avx128Add(u, X128PackFull(s))

-----------------------------------------------------------------------------
(* What the vectors inherit, the field itself, and the five types as       *)
(* instances of the machine.  Known to be wrong: GF2's even powers of      *)
(* zero.                                                                   *)
Twofold(u)          == Xor(u, u)
Squared(u)          == u \cap u
InheritedMulBy3(u)  == DefaultMulBy3(Xor, u)
InheritedMulBy5(u)  == DefaultMulBy5(Twofold, Xor, u)
InheritedMulBy6(u)  == DefaultMulBy6(InheritedMulBy3, Xor, u)
NoInverse(u)        == None
X8HorizontalSum(u)   == DefaultHorizontalSum(Gf2Add, 0, X8Unpack(u))
X64HorizontalSum(u)  == DefaultHorizontalSum(Gf2Add, 0, X64Unpack(u))
X128HorizontalSum(u) == DefaultHorizontalSum(Gf2Add, 0, X128Unpack(u))
Bit            == {0, 1}
InBit(a)       == a \in Bit
Parity(x)      == x % 2
EAdd(a, b)     == (a + b) % 2
EMul(a, b)     == a * b
ESelf(a)       == a
SelfPackFull(s)      == s
SelfPack(s)          == s[1]
SelfUnpack(a)        == <<a>>
SelfHorizontalSum(a) == a
NeverPanics(op, u, v)       == FALSE
NeverWrong(op, u, v)        == FALSE
EvenPowerOfZero(op, a, n)   == op = "exp" /\ a = 0 /\ n > 0 /\ n % 2 = 0
Unimplemented(op, n, v)     == op = "inv" \/ (op = "from" /\ n > 1)
Words8 == {0, 1, 5, 2^Width128 - 2}

Scalar == INSTANCE FieldMachine WITH
  Kind <- "gf2", Lanes <- 1, Depth <- 0, Panics <- NeverPanics,
  KnownWrong <- EvenPowerOfZero, Operands <- Bit, Seeds <- Bit, Draws <- Words8,
  Element <- ESelf, InRange <- InBit, EFrom <- Parity, EAdd <- EAdd,
  EMul <- EMul, ENeg <- ESelf, EInv <- ESelf, Zero <- 0, One <- 1,
  Add <- Gf2Add, Sub <- Gf2Sub, Mul <- Gf2Mul, Neg <- Gf2Neg,
  Double <- Gf2Double, Square <- Gf2Square, Power <- Gf2Exp,
  MulBy3 <- Gf2MulBy3, MulBy5 <- Gf2MulBy5, MulBy6 <- Gf2MulBy6, Inv <- Gf2Inv,
  IsZero <- Gf2IsZero, Eq <- Gf2Eq, PackFull <- SelfPackFull, Pack <- SelfPack,
  Unpack <- SelfUnpack, HorizontalSum <- SelfHorizontalSum, AddScalar <- Gf2Add,
  MulScalar <- Gf2Mul, Serialize <- Gf2Serialize, Deserialize <- Gf2Deserialize,
  From <- Gf2From, FromUniformBytes <- Gf2FromUniformBytes,
  RandomUnsafe <- Gf2RandomUnsafe, RandomBool <- Gf2RandomBool
Packed8 == INSTANCE FieldMachine WITH
  Kind <- "gf2x8", Lanes <- PackBits, Depth <- 0, Panics <- Unimplemented,
  KnownWrong <- NeverWrong, Operands <- Bit, Seeds <- Bit, Draws <- Words8,
  Element <- ESelf, InRange <- InBit, EFrom <- Parity, EAdd <- EAdd,
  EMul <- EMul, ENeg <- ESelf, EInv <- ESelf, Zero <- X8Zero, One <- X8One,
  Add <- X8Add, Sub <- X8Sub, Mul <- X8Mul, Neg <- X8Neg, Double <- Twofold,
  Square <- Squared, Power <- X8Exp, MulBy3 <- InheritedMulBy3,
  MulBy5 <- X8MulBy5, MulBy6 <- X8MulBy6, Inv <- NoInverse, IsZero <- X8IsZero,
  Eq <- X8Eq, PackFull <- X8PackFull, Pack <- X8Pack, Unpack <- X8Unpack,
  HorizontalSum <- X8HorizontalSum, AddScalar <- X8AddScalar,
  MulScalar <- X8MulScalar, Serialize <- X8Serialize,
  Deserialize <- X8Deserialize, From <- X8From,
  FromUniformBytes <- X8FromUniformBytes, RandomUnsafe <- X8RandomUnsafe,
  RandomBool <- X8RandomBool
Packed64 == INSTANCE FieldMachine WITH
  Kind <- "gf2x64", Lanes <- Width64, Depth <- 0, Panics <- Unimplemented,
  KnownWrong <- NeverWrong, Operands <- Bit, Seeds <- Bit, Draws <- Words8,
  Element <- ESelf, InRange <- InBit, EFrom <- Parity, EAdd <- EAdd,
  EMul <- EMul, ENeg <- ESelf, EInv <- ESelf, Zero <- X64Zero, One <- X64One,
  Add <- X64Add, Sub <- X64Sub, Mul <- X64Mul, Neg <- X64Neg, Double <- Twofold,
  Square <- Squared, Power <- X64Exp, MulBy3 <- InheritedMulBy3,
  MulBy5 <- X64MulBy5, MulBy6 <- X64MulBy6, Inv <- NoInverse,
  IsZero <- X64IsZero, Eq <- X64Eq, PackFull <- X64PackFull, Pack <- X64Pack,
  Unpack <- X64Unpack, HorizontalSum <- X64HorizontalSum,
  AddScalar <- X64AddScalar, MulScalar <- X64MulScalar,
  Serialize <- X64Serialize, Deserialize <- X64Deserialize, From <- X64From,
  FromUniformBytes <- X64FromUniformBytes, RandomUnsafe <- X64RandomUnsafe,
  RandomBool <- X64RandomBool
Avx128 == INSTANCE FieldMachine WITH
  Kind <- "gf2x128.avx", Lanes <- Width128, Depth <- 0, Panics <- Unimplemented,
  KnownWrong <- NeverWrong, Operands <- Bit, Seeds <- Bit, Draws <- Words8,
  Element <- ESelf, InRange <- InBit, EFrom <- Parity, EAdd <- EAdd,
  EMul <- EMul, ENeg <- ESelf, EInv <- ESelf, Zero <- Avx128Zero,
  One <- Avx128One, Add <- Avx128Add, Sub <- Avx128Sub, Mul <- Avx128Mul,
  Neg <- Avx128Neg, Double <- Twofold, Square <- Squared, Power <- Avx128Exp,
  MulBy3 <- InheritedMulBy3, MulBy5 <- InheritedMulBy5,
  MulBy6 <- InheritedMulBy6, Inv <- NoInverse, IsZero <- Avx128IsZero,
  Eq <- Avx128Eq, PackFull <- X128PackFull, Pack <- X128Pack,
  Unpack <- X128Unpack, HorizontalSum <- X128HorizontalSum,
  AddScalar <- X128AddScalar, MulScalar <- X128MulScalar,
  Serialize <- Avx128Serialize, Deserialize <- Avx128Deserialize,
  From <- Avx128From, FromUniformBytes <- Avx128FromUniformBytes,
  RandomUnsafe <- Avx128RandomUnsafe, RandomBool <- Avx128RandomBool
Neon128 == INSTANCE FieldMachine WITH
  Kind <- "gf2x128.neon", Lanes <- Width128, Depth <- 0,
  Panics <- Unimplemented, KnownWrong <- NeverWrong, Operands <- Bit,
  Seeds <- Bit, Draws <- Words8, Element <- ESelf, InRange <- InBit,
  EFrom <- Parity, EAdd <- EAdd, EMul <- EMul, ENeg <- ESelf, EInv <- ESelf,
  Zero <- Neon128Zero, One <- Neon128One, Add <- Neon128Add, Sub <- Neon128Sub,
  Mul <- Neon128Mul, Neg <- Neon128Neg, Double <- Twofold, Square <- Squared,
  Power <- Neon128Exp, MulBy3 <- InheritedMulBy3, MulBy5 <- InheritedMulBy5,
  MulBy6 <- InheritedMulBy6, Inv <- NoInverse, IsZero <- Neon128IsZero,
  Eq <- Neon128Eq, PackFull <- X128PackFull, Pack <- X128Pack,
  Unpack <- X128Unpack, HorizontalSum <- X128HorizontalSum,
  AddScalar <- X128AddScalar, MulScalar <- X128MulScalar,
  Serialize <- Neon128Serialize, Deserialize <- Neon128Deserialize,
  From <- Neon128From, FromUniformBytes <- Neon128FromUniformBytes,
  RandomUnsafe <- Neon128RandomUnsafe, RandomBool <- Neon128RandomBool
=============================================================================
