------------------------------- MODULE M31Proofs -------------------------------
(***************************************************************************)
(* The words of Mersenne 31 at their real size, 2^31 - 1 in words of 32    *)
(* bits, sixteen lanes to a vector: whatever a program computes with them  *)
(* but powers, inverses and sums over the lanes, in the scalar type and in *)
(* the three vector types, the accumulator stays in range and is the       *)
(* element it ought to be, comparisons see elements and bytes survive.     *)
(* Careful keeps the programs off what M31x16 knows to be wrong.           *)
(*                                                                         *)
(* First what each operation does to one lane, which is arithmetic modulo  *)
(* 2^31, 2^32 and 2^31 - 1; the numerals stay below 2^62, where the        *)
(* prover's own arithmetic on literals is exact.  Then, per type, one step *)
(* per operation, where the numerals are out of sight.                     *)
(***************************************************************************)
EXTENDS Integers, TLAPS

VARIABLES kind, acc, is, steps

M31 == INSTANCE M31x16 WITH K <- 31, PackSize <- 16, Careful <- TRUE

-----------------------------------------------------------------------------
(* The numbers, and the ranges of words as inequalities.                   *)

LEMMA MODIs == M31!MOD = 2147483647
BY SMT DEF M31!MOD

LEMMA WIs == M31!W = 32
BY SMT DEF M31!W

LEMMA Powers == 2^32 = 4294967296 /\ 2^31 = 2147483648 /\ 2^1 = 2
BY SMT

LEMMA RangeIs ==
  ASSUME NEW m \in Nat
  PROVE  \A x : x \in 0 .. m <=> x \in Nat /\ x <= m
BY SMT

LEMMA AvxWordsAre == \A x : x \in M31!AvxWords <=> x \in Nat /\ x <= M31!MOD
<1>1. M31!MOD \in Nat
  BY MODIs, SMT
<1> QED BY <1>1, RangeIs, Zenon DEF M31!AvxWords

LEMMA ScalarWordsAre == \A x : x \in M31!ScalarWords <=> x \in Nat /\ x < M31!MOD
<1>1. M31!MOD - 1 \in Nat
  BY MODIs, SMT
<1>2. \A x : x \in M31!ScalarWords <=> x \in Nat /\ x <= M31!MOD - 1
  BY <1>1, RangeIs, Zenon DEF M31!ScalarWords
<1>3. \A x \in Nat : x <= M31!MOD - 1 <=> x < M31!MOD
  BY MODIs, SMT
<1> QED BY <1>2, <1>3, Zenon

LEMMA WordsAre == \A w \in M31!Word : w \in Nat /\ w <= 2 * M31!MOD + 1
<1>1. 2 * M31!MOD + 1 \in Nat /\ 2^M31!W - 1 = 2 * M31!MOD + 1
  BY MODIs, WIs, Powers, SMT
<1> QED BY <1>1, RangeIs, Zenon DEF M31!Word

(* A scalar word is a vector word, and the element it stands for.          *)
LEMMA ScalarWordsReduced ==
  \A x \in M31!ScalarWords : x \in M31!AvxWords /\ M31!ModP(x) = x
<1>1. \A x \in Nat : x < M31!MOD => x <= M31!MOD /\ M31!ModP(x) = x
  BY MODIs, SMT DEF M31!ModP
<1> QED BY <1>1, ScalarWordsAre, AvxWordsAre, Zenon

LEMMA SeedsAre ==
  \A s \in M31!PackedSeeds : s \in M31!ScalarWords
<1>1. \A s \in M31!PackedSeeds : s \in Nat /\ s < M31!MOD
  BY MODIs, SMT DEF M31!PackedSeeds
<1> QED BY <1>1, ScalarWordsAre, Zenon

(* 0 and 1 are scalar words.                                               *)
LEMMA BitsAre == 0 \in M31!ScalarWords /\ 1 \in M31!ScalarWords
<1>1. 0 \in Nat /\ 0 < M31!MOD /\ 1 \in Nat /\ 1 < M31!MOD
  BY MODIs, SMT
<1> QED BY <1>1, ScalarWordsAre, Zenon

-----------------------------------------------------------------------------
(* Sums, differences, negations and reductions of one lane.                *)

LEMMA AddLaneExact ==
  ASSUME NEW x \in Nat, NEW y \in Nat, x <= M31!MOD, y <= M31!MOD
  PROVE  /\ M31!AddLane(x, y) \in Nat /\ M31!AddLane(x, y) <= M31!MOD
         /\ x < M31!MOD /\ y < M31!MOD => M31!AddLane(x, y) < M31!MOD
         /\ M31!ModP(M31!AddLane(x, y)) = M31!EAdd(M31!ModP(x), M31!ModP(y))
BY MODIs, WIs, Powers, SMT DEF M31!AddLane, M31!Wrap, M31!LesserOf, M31!ModP, M31!EAdd

LEMMA SubLaneExact ==
  ASSUME NEW x \in Nat, NEW y \in Nat, x <= M31!MOD, y <= M31!MOD
  PROVE  /\ M31!SubLane(x, y) \in Nat /\ M31!SubLane(x, y) <= M31!MOD
         /\ x < M31!MOD /\ y < M31!MOD => M31!SubLane(x, y) < M31!MOD
         /\ M31!ModP(M31!SubLane(x, y)) = M31!EAdd(M31!ModP(x), M31!ENeg(M31!ModP(y)))
BY MODIs, WIs, Powers, SMT
   DEF M31!SubLane, M31!Wrap, M31!LesserOf, M31!ModP, M31!EAdd, M31!ENeg

(* Each reduction of a sum of two words is exact; those of AVX-512 and     *)
(* NEON, the same formula, reduce it below MOD if it was not twice MOD.    *)
LEMMA ReducesExact ==
  ASSUME NEW x \in Nat, x <= 2 * M31!MOD
  PROVE  /\ M31!Avx256Reduce(x) \in Nat /\ M31!Avx256Reduce(x) <= M31!MOD
         /\ M31!ModP(M31!Avx256Reduce(x)) = M31!ModP(x)
         /\ M31!Avx512Reduce(x) \in Nat /\ M31!Avx512Reduce(x) <= M31!MOD
         /\ M31!ModP(M31!Avx512Reduce(x)) = M31!ModP(x)
         /\ x < 2 * M31!MOD => M31!Avx512Reduce(x) < M31!MOD
         /\ M31!NeonReduce(x) = M31!Avx512Reduce(x)
<1>1. /\ M31!Avx256Reduce(x) \in Nat /\ M31!Avx256Reduce(x) <= M31!MOD
      /\ M31!ModP(M31!Avx256Reduce(x)) = M31!ModP(x)
  BY MODIs, WIs, Powers, SMT DEF M31!Avx256Reduce, M31!Wrap, M31!LowBits, M31!HighBits, M31!ModP
<1>2. /\ M31!Avx512Reduce(x) \in Nat /\ M31!Avx512Reduce(x) <= M31!MOD
      /\ M31!ModP(M31!Avx512Reduce(x)) = M31!ModP(x)
  BY MODIs, WIs, Powers, SMT DEF M31!Avx512Reduce, M31!Wrap, M31!LesserOf, M31!ModP
<1>3. x < 2 * M31!MOD => M31!Avx512Reduce(x) < M31!MOD
  BY MODIs, WIs, Powers, SMT DEF M31!Avx512Reduce, M31!Wrap, M31!LesserOf, M31!ModP
<1>4. M31!NeonReduce(x) = M31!Avx512Reduce(x)
  BY Zenon DEF M31!NeonReduce, M31!Avx512Reduce
<1> QED BY <1>1, <1>2, <1>3, <1>4, Zenon

(* Of a vector word: AVX2's reduction leaves it, the others canonicalize.  *)
LEMMA ReducedWords ==
  /\ \A x \in M31!AvxWords : M31!Avx256Reduce(x) = x /\ M31!Avx512Reduce(x) = M31!ModP(x)
  /\ \A x \in M31!AvxWords : M31!ModP(x) \in M31!ScalarWords
  /\ \A x \in M31!ScalarWords : M31!NeonReduce(x) = x
<1>1. \A x \in Nat : x <= M31!MOD => M31!Avx256Reduce(x) = x
  BY MODIs, WIs, Powers, SMT DEF M31!Avx256Reduce, M31!Wrap, M31!LowBits, M31!HighBits
<1>2. \A x \in Nat : x <= M31!MOD => M31!Avx512Reduce(x) = M31!ModP(x)
  BY MODIs, WIs, Powers, SMT DEF M31!Avx512Reduce, M31!Wrap, M31!LesserOf, M31!ModP
<1>3. \A x \in Nat : x <= M31!MOD => M31!ModP(x) \in Nat /\ M31!ModP(x) < M31!MOD
  BY MODIs, SMT DEF M31!ModP
<1>4. \A x : M31!NeonReduce(x) = M31!Avx512Reduce(x)
  BY Zenon DEF M31!NeonReduce, M31!Avx512Reduce
<1> QED BY <1>1, <1>2, <1>3, <1>4, AvxWordsAre, ScalarWordsAre, ScalarWordsReduced, Zenon

LEMMA NegExact ==
  ASSUME NEW x \in Nat, x <= M31!MOD
  PROVE  /\ M31!XorMod(x) \in Nat /\ M31!XorMod(x) <= M31!MOD
         /\ M31!ModP(M31!XorMod(x)) = M31!ENeg(M31!ModP(x))
         /\ M31!EAdd(M31!ModP(0), M31!ENeg(M31!ModP(x))) = M31!ENeg(M31!ModP(x))
<1>1. /\ M31!XorMod(x) \in Nat /\ M31!XorMod(x) <= M31!MOD
      /\ M31!ModP(M31!XorMod(x)) = M31!ENeg(M31!ModP(x))
  BY MODIs, WIs, Powers, SMT DEF M31!XorMod, M31!LowBits, M31!HighBits, M31!ModP, M31!ENeg
<1>2. M31!EAdd(M31!ModP(0), M31!ENeg(M31!ModP(x))) = M31!ENeg(M31!ModP(x))
  BY MODIs, SMT DEF M31!EAdd, M31!ModP, M31!ENeg
<1> QED BY <1>1, <1>2, Zenon

-----------------------------------------------------------------------------
(* Products.  A product of two words has its halves around bit 31: they    *)
(* add up to it modulo 2^31 - 1.                                           *)

LEMMA ProductIsNat ==
  ASSUME NEW x \in Nat, NEW y \in Nat
  PROVE  x * y \in Nat
BY SMT

LEMMA ProductMonotone ==
  ASSUME NEW a \in Nat, NEW b \in Nat, NEW c \in Nat, a <= b
  PROVE  a * c <= b * c
<1>1. b * c - a * c = (b - a) * c
  BY SMT
<1>2. (b - a) * c \in Nat
  BY ProductIsNat, SMT
<1> QED BY <1>1, <1>2, ProductIsNat, SMT

LEMMA ProductBound ==
  ASSUME NEW x \in Nat, NEW y \in Nat, x <= M31!MOD, y <= M31!MOD
  PROVE  /\ x * y \in Nat /\ x * y <= 4611686014132420609
         /\ x < M31!MOD => x * y <= 4611686011984936962
<1>1. x * y <= 2147483647 * y
  BY ProductMonotone, MODIs, SMT
<1>2. x < M31!MOD => x * y <= 2147483646 * y
  BY ProductMonotone, MODIs, SMT
<1> QED BY <1>1, <1>2, ProductIsNat, MODIs, SMT

LEMMA ProductOfResidues ==
  ASSUME NEW x \in Nat, NEW y \in Nat, x <= M31!MOD, y <= M31!MOD
  PROVE  M31!EMul(M31!ModP(x), M31!ModP(y)) = M31!ModP(x * y)
<1>1. CASE x = M31!MOD \/ y = M31!MOD
  BY <1>1, MODIs, SMT DEF M31!ModP, M31!EMul
<1>2. CASE x < M31!MOD /\ y < M31!MOD
  <2>1. M31!ModP(x) = x /\ M31!ModP(y) = y
    BY <1>2, MODIs, SMT DEF M31!ModP
  <2> QED BY <2>1, Zenon DEF M31!EMul, M31!ModP
<1> QED BY <1>1, <1>2, MODIs, SMT

LEMMA Halves ==
  ASSUME NEW p \in Nat, p <= 4611686014132420609
  PROVE  /\ p % 2147483648 \in Nat /\ p % 2147483648 <= 2147483647
         /\ p \div 2147483648 \in Nat /\ p \div 2147483648 <= 2147483646
         /\ ((p % 2147483648) + (p \div 2147483648)) % 2147483647 = p % 2147483647
         /\ ((2 * p) % 4294967296) \div 2 = p % 2147483648
         /\ (2 * p) \div 4294967296 = p \div 2147483648
         /\ ((p % 4294967296) - (p \div 2147483648) * 2147483647) % 4294967296
              = (p % 2147483648) + (p \div 2147483648)
         /\ p <= 4611686011984936962
              => (p % 2147483648) + (p \div 2147483648) < 4294967293
BY SMT

(* The halves of the product of two words, as the vectors and the scalar   *)
(* compute them.                                                           *)
LEMMA ProductHalves ==
  ASSUME NEW x \in Nat, NEW y \in Nat, x <= M31!MOD, y <= M31!MOD
  PROVE  \E lo, hi \in Nat :
           /\ lo <= M31!MOD /\ hi < M31!MOD /\ lo + hi < 2 * M31!MOD
           /\ x < M31!MOD => lo + hi < 2 * M31!MOD - 1
           /\ M31!ModP(lo + hi) = M31!EMul(M31!ModP(x), M31!ModP(y))
           /\ M31!HighBits(M31!W, 2 * (x * y)) = hi
           /\ M31!HighBits(1, M31!LowBits(M31!W, 2 * (x * y))) = lo
           /\ M31!LowBits(31, x * y) = lo
           /\ M31!HighBits(31, x * y) = hi
           /\ M31!Wrap(M31!W, M31!LowBits(M31!W, x * y) - hi * M31!MOD) = lo + hi
<1> DEFINE p  == x * y
           lo == p % 2147483648
           hi == p \div 2147483648
<1>1. /\ p \in Nat /\ p <= 4611686014132420609
      /\ x < M31!MOD => p <= 4611686011984936962
  BY ProductBound
<1>2. M31!EMul(M31!ModP(x), M31!ModP(y)) = M31!ModP(p)
  BY ProductOfResidues
<1> HIDE DEF p
<1>3. /\ lo \in Nat /\ lo <= M31!MOD /\ hi \in Nat /\ hi < M31!MOD /\ lo + hi < 2 * M31!MOD
      /\ x < M31!MOD => lo + hi < 2 * M31!MOD - 1
  BY <1>1, Halves, MODIs, SMT
<1>4. M31!ModP(lo + hi) = M31!ModP(p)
  BY <1>1, Halves, MODIs, SMT DEF M31!ModP
<1>5. M31!HighBits(M31!W, 2 * p) = hi
  BY <1>1, WIs, Powers, Halves, SMT DEF M31!HighBits
<1>6. M31!HighBits(1, M31!LowBits(M31!W, 2 * p)) = lo
  BY <1>1, WIs, Powers, Halves, SMT DEF M31!HighBits, M31!LowBits
<1>7. M31!LowBits(31, p) = lo /\ M31!HighBits(31, p) = hi
  BY Powers, SMT DEF M31!HighBits, M31!LowBits
<1>8. M31!Wrap(M31!W, M31!LowBits(M31!W, p) - hi * M31!MOD) = lo + hi
  BY <1>1, MODIs, WIs, Powers, Halves, SMT DEF M31!Wrap, M31!LowBits
<1> HIDE DEF lo, hi
<1> QED BY <1>2, <1>3, <1>4, <1>5, <1>6, <1>7, <1>8, Zenon DEF p

LEMMA MulDoubledExact ==
  ASSUME NEW x \in Nat, NEW y \in Nat, x <= M31!MOD, y <= M31!MOD
  PROVE  /\ M31!MulDoubled(2 * x, y) \in Nat /\ M31!MulDoubled(2 * x, y) <= M31!MOD
         /\ M31!ModP(M31!MulDoubled(2 * x, y)) = M31!EMul(M31!ModP(x), M31!ModP(y))
<1>1. PICK lo, hi \in Nat :
        /\ lo <= M31!MOD /\ hi < M31!MOD
        /\ M31!ModP(lo + hi) = M31!EMul(M31!ModP(x), M31!ModP(y))
        /\ M31!HighBits(M31!W, 2 * (x * y)) = hi
        /\ M31!HighBits(1, M31!LowBits(M31!W, 2 * (x * y))) = lo
  BY ProductHalves
<1>2. 2 * x * y = 2 * (x * y)
  BY SMT
<1>3. M31!MulDoubled(2 * x, y) = M31!AddLane(lo, hi)
  BY <1>1, <1>2, Zenon DEF M31!MulDoubled
<1>4. hi <= M31!MOD /\ M31!EAdd(M31!ModP(lo), M31!ModP(hi)) = M31!ModP(lo + hi)
  BY <1>1, MODIs, SMT DEF M31!EAdd, M31!ModP
<1>5. /\ M31!AddLane(lo, hi) \in Nat /\ M31!AddLane(lo, hi) <= M31!MOD
      /\ M31!ModP(M31!AddLane(lo, hi)) = M31!EAdd(M31!ModP(lo), M31!ModP(hi))
  BY <1>1, <1>4, AddLaneExact
<1> QED BY <1>1, <1>3, <1>4, <1>5, Zenon

(* Both ways of doubling a factor give its double: the bits of the lane    *)
(* below, shifted in, fall off.                                            *)
LEMMA DoubledWords ==
  ASSUME NEW x \in Nat, NEW y \in Nat, x <= M31!MOD, y <= M31!MOD
  PROVE  /\ M31!Wrap(M31!W, x + x) = 2 * x
         /\ M31!LowBits(M31!W, M31!HighBits(31, x * 2^M31!W + y)) = 2 * x
BY MODIs, WIs, Powers, SMT DEF M31!Wrap, M31!LowBits, M31!HighBits

LEMMA NeonMulLaneExact ==
  ASSUME NEW x \in Nat, NEW y \in Nat, x < M31!MOD, y < M31!MOD
  PROVE  /\ M31!NeonMulLane(x, y) \in Nat /\ M31!NeonMulLane(x, y) < M31!MOD
         /\ M31!ModP(M31!NeonMulLane(x, y)) = M31!EMul(M31!ModP(x), M31!ModP(y))
<1>1. x <= M31!MOD /\ y <= M31!MOD
  BY MODIs, SMT
<1>2. PICK lo, hi \in Nat :
        /\ lo + hi < 2 * M31!MOD
        /\ M31!ModP(lo + hi) = M31!EMul(M31!ModP(x), M31!ModP(y))
        /\ M31!HighBits(M31!W, 2 * (x * y)) = hi
        /\ M31!Wrap(M31!W, M31!LowBits(M31!W, x * y) - hi * M31!MOD) = lo + hi
  BY <1>1, ProductHalves
<1>3. 2 * M31!AsSigned(M31!W, x) * M31!AsSigned(M31!W, y) = 2 * (x * y)
  BY MODIs, WIs, Powers, SMT DEF M31!AsSigned
<1>4. M31!NeonMulLane(x, y) = M31!NeonReduce(lo + hi)
  BY <1>2, <1>3, Zenon DEF M31!NeonMulLane
<1>5. lo + hi \in Nat /\ lo + hi <= 2 * M31!MOD
  BY <1>2, MODIs, SMT
<1> QED BY <1>2, <1>4, <1>5, ReducesExact

-----------------------------------------------------------------------------
(* Small multiples by doublings and sums.                                  *)

LEMMA TwiceExact ==
  ASSUME NEW x \in Nat, x <= M31!MOD
  PROVE  /\ M31!Wrap(M31!W, 2 * x) = 2 * x
         /\ \A y \in Nat : y <= M31!MOD => M31!Wrap(M31!W, x + y) = x + y
         /\ M31!EAdd(M31!ModP(x), M31!ModP(x)) = M31!ModP(2 * x)
BY MODIs, WIs, Powers, SMT DEF M31!Wrap, M31!ModP, M31!EAdd

LEMMA SmallMultiples ==
  ASSUME NEW x \in Nat, NEW t \in Nat, NEW f \in Nat, x <= M31!MOD, t <= M31!MOD, f <= M31!MOD
  PROVE  /\ M31!ModP(t) = M31!ModP(2 * x) => M31!ModP(x + t) = M31!EMul(M31!ModP(3), M31!ModP(x))
         /\ M31!ModP(t) = M31!ModP(2 * x) /\ M31!ModP(f) = M31!ModP(2 * t)
              => M31!ModP(x + f) = M31!EMul(M31!ModP(5), M31!ModP(x))
BY MODIs, SMT DEF M31!ModP, M31!EMul

LEMMA ElementMultiples ==
  ASSUME NEW x \in Nat, x <= M31!MOD
  PROVE  /\ M31!EAdd(M31!EAdd(M31!ModP(x), M31!ModP(x)), M31!ModP(x)) = M31!EMul(M31!ModP(3), M31!ModP(x))
         /\ M31!EAdd(M31!EMul(M31!ModP(3), M31!ModP(x)), M31!EMul(M31!ModP(3), M31!ModP(x)))
              = M31!EMul(M31!ModP(6), M31!ModP(x))
         /\ M31!EMul(M31!ModP(x), M31!ModP(5)) = M31!EMul(M31!ModP(5), M31!ModP(x))
         /\ M31!EMul(M31!ModP(x), M31!ModP(6)) = M31!EMul(M31!ModP(6), M31!ModP(x))
BY MODIs, SMT DEF M31!ModP, M31!EMul, M31!EAdd

LEMMA Avx256MultiplesExact ==
  ASSUME NEW x \in Nat, x <= M31!MOD
  PROVE  LET three == M31!Avx256Reduce(M31!Wrap(M31!W, x + M31!TimesTwo(M31!Avx256Reduce, x)))
             five  == M31!TimesFive(M31!Avx256Reduce, x)
         IN  /\ three \in Nat /\ three <= M31!MOD
             /\ M31!ModP(three) = M31!EMul(M31!ModP(3), M31!ModP(x))
             /\ five \in Nat /\ five <= M31!MOD
             /\ M31!ModP(five) = M31!EMul(M31!ModP(5), M31!ModP(x))
<1> DEFINE t == M31!Avx256Reduce(2 * x)
           f == M31!Avx256Reduce(2 * t)
           a == M31!Avx256Reduce(x + t)
           b == M31!Avx256Reduce(x + f)
<1>1. t \in Nat /\ t <= M31!MOD /\ M31!ModP(t) = M31!ModP(2 * x)
  <2>1. 2 * x \in Nat /\ 2 * x <= 2 * M31!MOD
    BY MODIs, SMT
  <2> QED BY <2>1, ReducesExact
<1> HIDE DEF t
<1>2. f \in Nat /\ f <= M31!MOD /\ M31!ModP(f) = M31!ModP(2 * t)
  <2>1. 2 * t \in Nat /\ 2 * t <= 2 * M31!MOD
    BY <1>1, MODIs, SMT
  <2> QED BY <2>1, ReducesExact
<1> HIDE DEF f
<1>3. x + t \in Nat /\ x + t <= 2 * M31!MOD /\ x + f \in Nat /\ x + f <= 2 * M31!MOD
  BY <1>1, <1>2, MODIs, SMT
<1>4. /\ a \in Nat /\ a <= M31!MOD /\ M31!ModP(a) = M31!ModP(x + t)
      /\ b \in Nat /\ b <= M31!MOD /\ M31!ModP(b) = M31!ModP(x + f)
  BY <1>3, ReducesExact
<1> HIDE DEF a, b
<1>5. M31!Avx256Reduce(M31!Wrap(M31!W, x + M31!TimesTwo(M31!Avx256Reduce, x))) = a
  BY <1>1, TwiceExact, Zenon DEF M31!TimesTwo, a, t
<1>6. M31!TimesFive(M31!Avx256Reduce, x) = b
  <2>1. M31!TimesTwo(M31!Avx256Reduce, x) = t
    BY TwiceExact, Zenon DEF M31!TimesTwo, t
  <2>2. M31!TimesTwo(M31!Avx256Reduce, t) = f
    BY <1>1, TwiceExact, Zenon DEF M31!TimesTwo, f
  <2> QED BY <2>1, <2>2, <1>2, TwiceExact, Zenon DEF M31!TimesFive, b
<1> QED BY <1>1, <1>2, <1>4, <1>5, <1>6, SmallMultiples, Zenon

LEMMA Avx512MultiplesExact ==
  ASSUME NEW x \in Nat, x <= M31!MOD
  PROVE  LET three == M31!Avx512Reduce(M31!Wrap(M31!W, x + M31!TimesTwo(M31!Avx512Reduce, x)))
             five  == M31!TimesFive(M31!Avx512Reduce, x)
         IN  /\ three \in Nat /\ three <= M31!MOD
             /\ M31!ModP(three) = M31!EMul(M31!ModP(3), M31!ModP(x))
             /\ five \in Nat /\ five <= M31!MOD
             /\ M31!ModP(five) = M31!EMul(M31!ModP(5), M31!ModP(x))
<1> DEFINE t == M31!Avx512Reduce(2 * x)
           f == M31!Avx512Reduce(2 * t)
           a == M31!Avx512Reduce(x + t)
           b == M31!Avx512Reduce(x + f)
<1>1. t \in Nat /\ t <= M31!MOD /\ M31!ModP(t) = M31!ModP(2 * x)
  <2>1. 2 * x \in Nat /\ 2 * x <= 2 * M31!MOD
    BY MODIs, SMT
  <2> QED BY <2>1, ReducesExact
<1> HIDE DEF t
<1>2. f \in Nat /\ f <= M31!MOD /\ M31!ModP(f) = M31!ModP(2 * t)
  <2>1. 2 * t \in Nat /\ 2 * t <= 2 * M31!MOD
    BY <1>1, MODIs, SMT
  <2> QED BY <2>1, ReducesExact
<1> HIDE DEF f
<1>3. x + t \in Nat /\ x + t <= 2 * M31!MOD /\ x + f \in Nat /\ x + f <= 2 * M31!MOD
  BY <1>1, <1>2, MODIs, SMT
<1>4. /\ a \in Nat /\ a <= M31!MOD /\ M31!ModP(a) = M31!ModP(x + t)
      /\ b \in Nat /\ b <= M31!MOD /\ M31!ModP(b) = M31!ModP(x + f)
  BY <1>3, ReducesExact
<1> HIDE DEF a, b
<1>5. M31!Avx512Reduce(M31!Wrap(M31!W, x + M31!TimesTwo(M31!Avx512Reduce, x))) = a
  BY <1>1, TwiceExact, Zenon DEF M31!TimesTwo, a, t
<1>6. M31!TimesFive(M31!Avx512Reduce, x) = b
  <2>1. M31!TimesTwo(M31!Avx512Reduce, x) = t
    BY TwiceExact, Zenon DEF M31!TimesTwo, t
  <2>2. M31!TimesTwo(M31!Avx512Reduce, t) = f
    BY <1>1, TwiceExact, Zenon DEF M31!TimesTwo, f
  <2> QED BY <2>1, <2>2, <1>2, TwiceExact, Zenon DEF M31!TimesFive, b
<1> QED BY <1>1, <1>2, <1>4, <1>5, <1>6, SmallMultiples, Zenon

LEMMA NeonMultiplesExact ==
  ASSUME NEW x \in Nat, x < M31!MOD
  PROVE  LET two  == M31!NeonReduce(M31!Wrap(M31!W, 2 * x))
             five == M31!TimesFive(M31!NeonReduce, x)
         IN  /\ two \in Nat /\ two < M31!MOD
             /\ M31!ModP(two) = M31!EAdd(M31!ModP(x), M31!ModP(x))
             /\ five \in Nat /\ five < M31!MOD
             /\ M31!ModP(five) = M31!EMul(M31!ModP(5), M31!ModP(x))
<1> DEFINE t == M31!NeonReduce(2 * x)
           f == M31!NeonReduce(2 * t)
           b == M31!NeonReduce(x + f)
<1>0. x <= M31!MOD
  BY MODIs, SMT
<1>1. t \in Nat /\ t < M31!MOD /\ M31!ModP(t) = M31!ModP(2 * x)
  <2>1. 2 * x \in Nat /\ 2 * x <= 2 * M31!MOD /\ 2 * x < 2 * M31!MOD
    BY MODIs, SMT
  <2> QED BY <2>1, ReducesExact
<1> HIDE DEF t
<1>2. t <= M31!MOD
  BY <1>1, MODIs, SMT
<1>3. f \in Nat /\ f < M31!MOD /\ M31!ModP(f) = M31!ModP(2 * t)
  <2>1. 2 * t \in Nat /\ 2 * t <= 2 * M31!MOD /\ 2 * t < 2 * M31!MOD
    BY <1>1, MODIs, SMT
  <2> QED BY <2>1, ReducesExact
<1> HIDE DEF f
<1>4. f <= M31!MOD /\ x + f \in Nat /\ x + f <= 2 * M31!MOD /\ x + f < 2 * M31!MOD
  BY <1>3, MODIs, SMT
<1>5. b \in Nat /\ b < M31!MOD /\ M31!ModP(b) = M31!ModP(x + f)
  BY <1>4, ReducesExact
<1> HIDE DEF b
<1>6. M31!NeonReduce(M31!Wrap(M31!W, 2 * x)) = t
  BY <1>0, TwiceExact, Zenon DEF t
<1>7. M31!TimesFive(M31!NeonReduce, x) = b
  <2>1. M31!TimesTwo(M31!NeonReduce, x) = t
    BY <1>0, TwiceExact, Zenon DEF M31!TimesTwo, t
  <2>2. M31!TimesTwo(M31!NeonReduce, t) = f
    BY <1>1, <1>2, TwiceExact, Zenon DEF M31!TimesTwo, f
  <2> QED BY <2>1, <2>2, <1>0, <1>3, <1>4, TwiceExact, Zenon DEF M31!TimesFive, b
<1>8. M31!ModP(x + f) = M31!EMul(M31!ModP(5), M31!ModP(x))
  BY <1>0, <1>1, <1>2, <1>3, <1>4, SmallMultiples
<1> QED BY <1>0, <1>1, <1>5, <1>6, <1>7, <1>8, TwiceExact, Zenon

-----------------------------------------------------------------------------
(* The scalar type.                                                        *)

LEMMA ScalarSumsExact ==
  ASSUME NEW a \in Nat, NEW b \in Nat, a < M31!MOD, b < M31!MOD
  PROVE  /\ M31!M31Add(a, b) \in Nat /\ M31!M31Add(a, b) < M31!MOD
         /\ M31!ModP(M31!M31Add(a, b)) = M31!EAdd(M31!ModP(a), M31!ModP(b))
         /\ M31!M31Sub(a, b) \in Nat /\ M31!M31Sub(a, b) < M31!MOD
         /\ M31!ModP(M31!M31Sub(a, b)) = M31!EAdd(M31!ModP(a), M31!ENeg(M31!ModP(b)))
         /\ M31!M31Neg(a) \in Nat /\ M31!M31Neg(a) < M31!MOD
         /\ M31!ModP(M31!M31Neg(a)) = M31!ENeg(M31!ModP(a))
<1>1. /\ M31!M31Add(a, b) \in Nat /\ M31!M31Add(a, b) < M31!MOD
      /\ M31!ModP(M31!M31Add(a, b)) = M31!EAdd(M31!ModP(a), M31!ModP(b))
  BY MODIs, WIs, Powers, SMT DEF M31!M31Add, M31!Wrap, M31!ModP, M31!EAdd
<1>2. /\ M31!M31Sub(a, b) \in Nat /\ M31!M31Sub(a, b) < M31!MOD
      /\ M31!ModP(M31!M31Sub(a, b)) = M31!EAdd(M31!ModP(a), M31!ENeg(M31!ModP(b)))
  BY MODIs, WIs, Powers, SMT DEF M31!M31Sub, M31!Wrap, M31!ModP, M31!EAdd, M31!ENeg
<1>3. /\ M31!M31Neg(a) \in Nat /\ M31!M31Neg(a) < M31!MOD
      /\ M31!ModP(M31!M31Neg(a)) = M31!ENeg(M31!ModP(a))
  BY MODIs, WIs, Powers, SMT DEF M31!M31Neg, M31!Wrap, M31!ModP, M31!ENeg
<1> QED BY <1>1, <1>2, <1>3, Zenon

LEMMA ScalarProductExact ==
  ASSUME NEW a \in Nat, NEW b \in Nat, a < M31!MOD, b < M31!MOD
  PROVE  /\ M31!M31Mul(a, b) \in Nat /\ M31!M31Mul(a, b) < M31!MOD
         /\ M31!ModP(M31!M31Mul(a, b)) = M31!EMul(M31!ModP(a), M31!ModP(b))
<1>1. a <= M31!MOD /\ b <= M31!MOD
  BY MODIs, SMT
<1>2. PICK lo, hi \in Nat :
        /\ a < M31!MOD => lo + hi < 2 * M31!MOD - 1
        /\ M31!ModP(lo + hi) = M31!EMul(M31!ModP(a), M31!ModP(b))
        /\ M31!LowBits(31, a * b) = lo
        /\ M31!HighBits(31, a * b) = hi
  BY <1>1, ProductHalves
<1> DEFINE s == lo + hi
           r == IF s >= M31!MOD THEN s - M31!MOD ELSE s
<1>3. M31!M31Mul(a, b) = M31!Wrap(M31!W, r)
  <2>1. M31!LowBits(31, a * b) + M31!HighBits(31, a * b) = s
    BY <1>2, Zenon
  <2> HIDE DEF s
  <2> QED BY <2>1, Zenon DEF M31!M31Mul
<1>4. r \in Nat /\ r < M31!MOD /\ M31!ModP(r) = M31!ModP(lo + hi) /\ M31!Wrap(M31!W, r) = r
  BY <1>2, MODIs, WIs, Powers, SMT DEF M31!ModP, M31!Wrap
<1> HIDE DEF r
<1> QED BY <1>2, <1>3, <1>4, Zenon

(* What is made of a raw word: a uniform word of ones is the exception.    *)
LEMMA RawWords ==
  \A w \in M31!Word :
    /\ M31!M31From(w) \in M31!ScalarWords /\ M31!ModP(M31!M31From(w)) = M31!ModP(w)
    /\ M31!M31FromUniformBytes(w) # M31!MOD + 1 => M31!M31FromUniformBytes(w) \in M31!ScalarWords
    /\ M31!Avx256Reduce(M31!Avx256Reduce(w)) \in M31!AvxWords
    /\ M31!Avx512Reduce(M31!Avx512Reduce(w)) \in M31!AvxWords
    /\ w % M31!MOD \in M31!ScalarWords
<1> SUFFICES ASSUME NEW w \in Nat, w <= 2 * M31!MOD + 1
             PROVE  /\ M31!M31From(w) \in Nat /\ M31!M31From(w) < M31!MOD
                    /\ M31!ModP(M31!M31From(w)) = M31!ModP(w)
                    /\ M31!M31FromUniformBytes(w) # M31!MOD + 1 =>
                         M31!M31FromUniformBytes(w) \in Nat /\ M31!M31FromUniformBytes(w) < M31!MOD
                    /\ M31!Avx256Reduce(M31!Avx256Reduce(w)) \in Nat
                    /\ M31!Avx256Reduce(M31!Avx256Reduce(w)) <= M31!MOD
                    /\ M31!Avx512Reduce(M31!Avx512Reduce(w)) \in Nat
                    /\ M31!Avx512Reduce(M31!Avx512Reduce(w)) <= M31!MOD
                    /\ w % M31!MOD \in Nat /\ w % M31!MOD < M31!MOD
  BY WordsAre, AvxWordsAre, ScalarWordsAre, Zenon
<1>1. /\ M31!M31From(w) \in Nat /\ M31!M31From(w) < M31!MOD
      /\ M31!ModP(M31!M31From(w)) = M31!ModP(w)
      /\ w % M31!MOD \in Nat /\ w % M31!MOD < M31!MOD
  BY MODIs, SMT DEF M31!M31From, M31!ModP
<1>2. M31!M31FromUniformBytes(w) # M31!MOD + 1 =>
        M31!M31FromUniformBytes(w) \in Nat /\ M31!M31FromUniformBytes(w) < M31!MOD
  BY MODIs, Powers, SMT
     DEF M31!M31FromUniformBytes, M31!ModReduceU32Safe, M31!ModReduceU32, M31!LowBits, M31!HighBits
<1>3. /\ M31!Avx256Reduce(M31!Avx256Reduce(w)) \in Nat
      /\ M31!Avx256Reduce(M31!Avx256Reduce(w)) <= M31!MOD
  <2>1. M31!Avx256Reduce(w) \in Nat /\ M31!Avx256Reduce(w) <= 2 * M31!MOD
    BY MODIs, WIs, Powers, SMT DEF M31!Avx256Reduce, M31!Wrap, M31!LowBits, M31!HighBits
  <2> QED BY <2>1, ReducesExact
<1>4. /\ M31!Avx512Reduce(M31!Avx512Reduce(w)) \in Nat
      /\ M31!Avx512Reduce(M31!Avx512Reduce(w)) <= M31!MOD
  <2>1. M31!Avx512Reduce(w) \in Nat /\ M31!Avx512Reduce(w) <= 2 * M31!MOD
    BY MODIs, WIs, Powers, SMT DEF M31!Avx512Reduce, M31!Wrap, M31!LesserOf
  <2> QED BY <2>1, ReducesExact
<1> QED BY <1>1, <1>2, <1>3, <1>4, Zenon

-----------------------------------------------------------------------------
(* The lanes without numerals: each operation stays among the words of the *)
(* type and computes in the field.                                         *)

LEMMA AvxSums ==
  \A x, y \in M31!AvxWords :
    /\ M31!AddLane(x, y) \in M31!AvxWords
    /\ M31!ModP(M31!AddLane(x, y)) = M31!EAdd(M31!ModP(x), M31!ModP(y))
    /\ M31!SubLane(x, y) \in M31!AvxWords
    /\ M31!ModP(M31!SubLane(x, y)) = M31!EAdd(M31!ModP(x), M31!ENeg(M31!ModP(y)))
BY AvxWordsAre, AddLaneExact, SubLaneExact, Zenon

LEMMA AvxProducts ==
  \A x, y \in M31!AvxWords :
    /\ M31!MulDoubled(2 * x, y) \in M31!AvxWords
    /\ M31!ModP(M31!MulDoubled(2 * x, y)) = M31!EMul(M31!ModP(x), M31!ModP(y))
BY AvxWordsAre, MulDoubledExact, Zenon

LEMMA AvxNegations ==
  \A x \in M31!AvxWords :
    /\ M31!XorMod(x) \in M31!AvxWords
    /\ M31!ModP(M31!XorMod(x)) = M31!ENeg(M31!ModP(x))
BY AvxWordsAre, NegExact, Zenon

(* Three times a word, as both AVX files compute it.                       *)
AvxThree(reduce(_), x) == reduce(M31!Wrap(M31!W, x + M31!TimesTwo(reduce, x)))

LEMMA AvxMultiples ==
  \A x \in M31!AvxWords :
    /\ AvxThree(M31!Avx256Reduce, x) \in M31!AvxWords
    /\ M31!ModP(AvxThree(M31!Avx256Reduce, x)) = M31!EMul(M31!ModP(3), M31!ModP(x))
    /\ M31!TimesFive(M31!Avx256Reduce, x) \in M31!AvxWords
    /\ M31!ModP(M31!TimesFive(M31!Avx256Reduce, x)) = M31!EMul(M31!ModP(5), M31!ModP(x))
    /\ AvxThree(M31!Avx512Reduce, x) \in M31!AvxWords
    /\ M31!ModP(AvxThree(M31!Avx512Reduce, x)) = M31!EMul(M31!ModP(3), M31!ModP(x))
    /\ M31!TimesFive(M31!Avx512Reduce, x) \in M31!AvxWords
    /\ M31!ModP(M31!TimesFive(M31!Avx512Reduce, x)) = M31!EMul(M31!ModP(5), M31!ModP(x))
BY AvxWordsAre, Avx256MultiplesExact, Avx512MultiplesExact, Zenon DEF AvxThree

(* Thrice and six times by sums, in the field.                             *)
LEMMA MultiplesBySums ==
  \A x \in M31!AvxWords :
    /\ M31!EAdd(M31!EAdd(M31!ModP(x), M31!ModP(x)), M31!ModP(x)) = M31!EMul(M31!ModP(3), M31!ModP(x))
    /\ M31!EAdd(M31!EMul(M31!ModP(3), M31!ModP(x)), M31!EMul(M31!ModP(3), M31!ModP(x)))
         = M31!EMul(M31!ModP(6), M31!ModP(x))
BY AvxWordsAre, ElementMultiples, Zenon

LEMMA ScalarWordsBound == \A x \in M31!ScalarWords : x \in Nat /\ x < M31!MOD /\ x <= M31!MOD
BY ScalarWordsAre, ScalarWordsReduced, AvxWordsAre, Zenon

LEMMA NeonSums ==
  \A x, y \in M31!ScalarWords :
    /\ M31!AddLane(x, y) \in M31!ScalarWords
    /\ M31!ModP(M31!AddLane(x, y)) = M31!EAdd(M31!ModP(x), M31!ModP(y))
    /\ M31!SubLane(x, y) \in M31!ScalarWords
    /\ M31!ModP(M31!SubLane(x, y)) = M31!EAdd(M31!ModP(x), M31!ENeg(M31!ModP(y)))
BY ScalarWordsBound, ScalarWordsAre, AddLaneExact, SubLaneExact, Zenon

LEMMA NeonProducts ==
  \A x, y \in M31!ScalarWords :
    /\ M31!NeonMulLane(x, y) \in M31!ScalarWords
    /\ M31!ModP(M31!NeonMulLane(x, y)) = M31!EMul(M31!ModP(x), M31!ModP(y))
BY ScalarWordsBound, ScalarWordsAre, NeonMulLaneExact, Zenon

(* A negation is a difference from zero.                                   *)
LEMMA NeonNegations ==
  \A x \in M31!ScalarWords :
    /\ M31!SubLane(0, x) \in M31!ScalarWords
    /\ M31!ModP(M31!SubLane(0, x)) = M31!ENeg(M31!ModP(x))
<1>1. \A x \in M31!ScalarWords : M31!EAdd(M31!ModP(0), M31!ENeg(M31!ModP(x))) = M31!ENeg(M31!ModP(x))
  BY ScalarWordsBound, NegExact, Zenon
<1> QED BY <1>1, BitsAre, NeonSums, Zenon

LEMMA NeonMultiples ==
  \A x \in M31!ScalarWords :
    /\ M31!NeonReduce(M31!Wrap(M31!W, 2 * x)) \in M31!ScalarWords
    /\ M31!ModP(M31!NeonReduce(M31!Wrap(M31!W, 2 * x))) = M31!EAdd(M31!ModP(x), M31!ModP(x))
    /\ M31!TimesFive(M31!NeonReduce, x) \in M31!ScalarWords
    /\ M31!ModP(M31!TimesFive(M31!NeonReduce, x)) = M31!EMul(M31!ModP(5), M31!ModP(x))
BY ScalarWordsBound, ScalarWordsAre, NeonMultiplesExact, Zenon

LEMMA NeonThrees ==
  ASSUME NEW x \in M31!ScalarWords
  PROVE  /\ M31!AddLane(M31!AddLane(x, x), x) \in M31!ScalarWords
         /\ M31!ModP(M31!AddLane(M31!AddLane(x, x), x)) = M31!EMul(M31!ModP(3), M31!ModP(x))
<1> DEFINE y == M31!AddLane(x, x)
<1>1. y \in M31!ScalarWords /\ M31!ModP(y) = M31!EAdd(M31!ModP(x), M31!ModP(x))
  BY NeonSums
<1> HIDE DEF y
<1>2. M31!AddLane(y, x) \in M31!ScalarWords /\ M31!ModP(M31!AddLane(y, x)) = M31!EAdd(M31!ModP(y), M31!ModP(x))
  BY <1>1, NeonSums
<1>3. M31!EAdd(M31!ModP(y), M31!ModP(x)) = M31!EMul(M31!ModP(3), M31!ModP(x))
  BY <1>1, MultiplesBySums, ScalarWordsReduced
<1> QED BY <1>2, <1>3, Zenon DEF y

LEMMA ScalarLanes ==
  \A a, b \in M31!ScalarWords :
    /\ M31!M31Add(a, b) \in M31!ScalarWords
    /\ M31!ModP(M31!M31Add(a, b)) = M31!EAdd(M31!ModP(a), M31!ModP(b))
    /\ M31!M31Sub(a, b) \in M31!ScalarWords
    /\ M31!ModP(M31!M31Sub(a, b)) = M31!EAdd(M31!ModP(a), M31!ENeg(M31!ModP(b)))
    /\ M31!M31Neg(a) \in M31!ScalarWords
    /\ M31!ModP(M31!M31Neg(a)) = M31!ENeg(M31!ModP(a))
    /\ M31!M31Mul(a, b) \in M31!ScalarWords
    /\ M31!ModP(M31!M31Mul(a, b)) = M31!EMul(M31!ModP(a), M31!ModP(b))
BY ScalarWordsAre, ScalarSumsExact, ScalarProductExact, Zenon

LEMMA ScalarMultiples ==
  ASSUME NEW a \in M31!ScalarWords
  PROVE  /\ M31!M31MulBy3(a) \in M31!ScalarWords
         /\ M31!ModP(M31!M31MulBy3(a)) = M31!EMul(M31!ModP(3), M31!ModP(a))
         /\ M31!M31MulBy5(a) \in M31!ScalarWords
         /\ M31!ModP(M31!M31MulBy5(a)) = M31!EMul(M31!ModP(5), M31!ModP(a))
         /\ M31!M31MulBy6(a) \in M31!ScalarWords
         /\ M31!ModP(M31!M31MulBy6(a)) = M31!EMul(M31!ModP(6), M31!ModP(a))
<1> DEFINE y == M31!M31Add(a, a)
<1>1. y \in M31!ScalarWords /\ M31!ModP(y) = M31!EAdd(M31!ModP(a), M31!ModP(a))
  BY ScalarLanes
<1> HIDE DEF y
<1>2. /\ M31!M31Add(y, a) \in M31!ScalarWords
      /\ M31!ModP(M31!M31Add(y, a)) = M31!EMul(M31!ModP(3), M31!ModP(a))
  <2>1. /\ M31!M31Add(y, a) \in M31!ScalarWords
        /\ M31!ModP(M31!M31Add(y, a)) = M31!EAdd(M31!ModP(y), M31!ModP(a))
    BY <1>1, ScalarLanes
  <2>2. M31!EAdd(M31!ModP(y), M31!ModP(a)) = M31!EMul(M31!ModP(3), M31!ModP(a))
    BY <1>1, MultiplesBySums, ScalarWordsReduced
  <2> QED BY <2>1, <2>2, Zenon
<1>3. 5 \in M31!ScalarWords /\ 6 \in M31!ScalarWords
  <2>1. 5 \in Nat /\ 5 < M31!MOD /\ 6 \in Nat /\ 6 < M31!MOD
    BY MODIs, SMT
  <2> QED BY <2>1, ScalarWordsAre, Zenon
<1>4. /\ M31!EMul(M31!ModP(a), M31!ModP(5)) = M31!EMul(M31!ModP(5), M31!ModP(a))
      /\ M31!EMul(M31!ModP(a), M31!ModP(6)) = M31!EMul(M31!ModP(6), M31!ModP(a))
  BY ScalarWordsBound, ElementMultiples
<1>5. M31!M31MulBy3(a) = M31!M31Add(y, a)
  BY Zenon DEF M31!M31MulBy3, M31!DefaultMulBy3, y
<1>6. /\ M31!M31MulBy5(a) \in M31!ScalarWords
      /\ M31!ModP(M31!M31MulBy5(a)) = M31!EMul(M31!ModP(5), M31!ModP(a))
  BY <1>3, <1>4, ScalarLanes, Zenon DEF M31!M31MulBy5
<1>7. /\ M31!M31MulBy6(a) \in M31!ScalarWords
      /\ M31!ModP(M31!M31MulBy6(a)) = M31!EMul(M31!ModP(6), M31!ModP(a))
  BY <1>3, <1>4, ScalarLanes, Zenon DEF M31!M31MulBy6
<1> QED BY <1>2, <1>5, <1>6, <1>7, Zenon

(* What a scalar word or a vector word is compared as: the element; only   *)
(* the two zeros of AVX2 are told apart.                                   *)
LEMMA ComparedWords ==
  /\ \A x \in M31!AvxWords : x \in {0, M31!MOD} <=> M31!ModP(x) = M31!ModP(0)
  /\ \A x, y \in M31!AvxWords :
       {x, y} # {0, M31!MOD} => (x = y <=> M31!ModP(x) = M31!ModP(y))
  /\ \A x \in M31!ScalarWords : x = 0 <=> M31!ModP(x) = M31!ModP(0)
  /\ \A x \in M31!ScalarWords : M31!ModReduceU32(x) = x /\ M31!ModReduceU32Safe(x) = x
<1>1. \A x \in Nat : x <= M31!MOD => (x \in {0, M31!MOD} <=> M31!ModP(x) = M31!ModP(0))
  BY MODIs, SMT DEF M31!ModP
<1>2. \A x, y \in Nat : x <= M31!MOD /\ y <= M31!MOD /\ {x, y} # {0, M31!MOD} =>
                          (x = y <=> M31!ModP(x) = M31!ModP(y))
  <2> SUFFICES ASSUME NEW x \in Nat, NEW y \in Nat, x <= M31!MOD, y <= M31!MOD,
                      {x, y} # {0, M31!MOD}, M31!ModP(x) = M31!ModP(y), x # y
               PROVE  FALSE
    BY Zenon
  <2>1. (x = 0 /\ y = M31!MOD) \/ (x = M31!MOD /\ y = 0)
    BY MODIs, SMT DEF M31!ModP
  <2> QED BY <2>1, Zenon
<1>3. \A x \in Nat : x < M31!MOD => M31!ModReduceU32(x) = x /\ M31!ModReduceU32Safe(x) = x
  BY MODIs, Powers, SMT DEF M31!ModReduceU32Safe, M31!ModReduceU32, M31!LowBits, M31!HighBits
<1>4. \A x \in M31!ScalarWords : x = 0 <=> M31!ModP(x) = M31!ModP(0)
  BY ScalarWordsReduced, BitsAre, Zenon
<1> QED BY <1>1, <1>2, <1>3, <1>4, AvxWordsAre, ScalarWordsBound, Zenon

-----------------------------------------------------------------------------
(* The vector types as machines.  A step of one of them, whatever the      *)
(* operation and its operand, keeps the words in range and exact.          *)

AvxExact ==
  /\ acc \in [1 .. 16 -> M31!AvxWords]
  /\ is = [l \in 1 .. 16 |-> M31!ModP(acc[l])]

NeonExact ==
  /\ acc \in [1 .. 16 -> M31!ScalarWords]
  /\ is = [l \in 1 .. 16 |-> M31!ModP(acc[l])]

DoubledLane(u, l) == IF M31!IsOdd(l) THEN M31!OddLaneDoubled(u, l) ELSE M31!EvenLaneDoubled(u, l)

LEMMA DoubledLanes ==
  ASSUME AvxExact
  PROVE  \A l \in 1 .. 16 : DoubledLane(acc, l) = 2 * acc[l]
<1>1. \A l \in 1 .. 16 : M31!IsOdd(l) => l - 1 \in 1 .. 16
  BY SMT DEF M31!IsOdd
<1>2. \A x, y \in M31!AvxWords :
        /\ M31!Wrap(M31!W, x + x) = 2 * x
        /\ M31!LowBits(M31!W, M31!HighBits(31, x * 2^M31!W + y)) = 2 * x
  BY AvxWordsAre, DoubledWords, Zenon
<1> QED BY <1>1, <1>2, Zenon
        DEF AvxExact, DoubledLane, M31!OddLaneDoubled, M31!EvenLaneDoubled

LEMMA Avx256Step ==
  ASSUME AvxExact, M31!Avx256!Arithmetic
  PROVE  AvxExact'
<1>1. CASE M31!Avx256!DoAdd
  <2>1. PICK s \in M31!AvxWords :
          M31!Avx256!Becomes(M31!Avx256Add(acc, M31!Avx256PackFull(s)),
            M31!Avx256!ESum(is, M31!Avx256!EverySame(M31!ModP(s))))
    BY <1>1, Zenon DEF M31!Avx256!DoAdd
  <2>2. acc' = [l \in 1 .. 16 |-> M31!AddLane(acc[l], s)]
    BY <2>1, Zenon
       DEF M31!Avx256!Becomes, M31!Avx256Add, M31!PerLane2, M31!Avx256PackFull,
           M31!Fill, AvxExact
  <2>3. is' = [l \in 1 .. 16 |-> M31!EAdd(is[l], M31!ModP(s))]
    BY <2>1, Zenon
       DEF M31!Avx256!Becomes, M31!Avx256!ESum, M31!Avx256!PerLane2,
           M31!Avx256!EverySame, M31!Avx256!Fill, AvxExact
  <2>4. \A l \in 1 .. 16 : /\ M31!AddLane(acc[l], s) \in M31!AvxWords
                          /\ M31!ModP(M31!AddLane(acc[l], s)) = M31!EAdd(M31!ModP(acc[l]), M31!ModP(s))
    BY AvxSums, Zenon DEF AvxExact
  <2> QED BY <2>2, <2>3, <2>4, Zenon DEF AvxExact
<1>2. CASE M31!Avx256!DoSub
  <2>1. PICK s \in M31!AvxWords :
          M31!Avx256!Becomes(M31!Avx256Sub(acc, M31!Avx256PackFull(s)),
            M31!Avx256!ESum(is, M31!Avx256!EverySame(M31!ENeg(M31!ModP(s)))))
    BY <1>2, Zenon DEF M31!Avx256!DoSub
  <2>2. acc' = [l \in 1 .. 16 |-> M31!SubLane(acc[l], s)]
    BY <2>1, Zenon
       DEF M31!Avx256!Becomes, M31!Avx256Sub, M31!PerLane2, M31!Avx256PackFull,
           M31!Fill, AvxExact
  <2>3. is' = [l \in 1 .. 16 |-> M31!EAdd(is[l], M31!ENeg(M31!ModP(s)))]
    BY <2>1, Zenon
       DEF M31!Avx256!Becomes, M31!Avx256!ESum, M31!Avx256!PerLane2,
           M31!Avx256!EverySame, M31!Avx256!Fill, AvxExact
  <2>4. \A l \in 1 .. 16 : /\ M31!SubLane(acc[l], s) \in M31!AvxWords
                          /\ M31!ModP(M31!SubLane(acc[l], s)) = M31!EAdd(M31!ModP(acc[l]), M31!ENeg(M31!ModP(s)))
    BY AvxSums, Zenon DEF AvxExact
  <2> QED BY <2>2, <2>3, <2>4, Zenon DEF AvxExact
<1>3. CASE M31!Avx256!DoSubFrom
  <2>1. PICK s \in M31!AvxWords :
          M31!Avx256!Becomes(M31!Avx256Sub(M31!Avx256PackFull(s), acc),
            M31!Avx256!ESum(M31!Avx256!EverySame(M31!ModP(s)), M31!Avx256!ENegated(is)))
    BY <1>3, Zenon DEF M31!Avx256!DoSubFrom
  <2>2. acc' = [l \in 1 .. 16 |-> M31!SubLane(s, acc[l])]
    BY <2>1, Zenon
       DEF M31!Avx256!Becomes, M31!Avx256Sub, M31!PerLane2, M31!Avx256PackFull,
           M31!Fill, AvxExact
  <2>3. is' = [l \in 1 .. 16 |-> M31!EAdd(M31!ModP(s), M31!ENeg(is[l]))]
    BY <2>1, Zenon
       DEF M31!Avx256!Becomes, M31!Avx256!ESum, M31!Avx256!PerLane2,
           M31!Avx256!EverySame, M31!Avx256!Fill, M31!Avx256!ENegated,
           M31!Avx256!PerLane, AvxExact
  <2>4. \A l \in 1 .. 16 : /\ M31!SubLane(s, acc[l]) \in M31!AvxWords
                          /\ M31!ModP(M31!SubLane(s, acc[l])) = M31!EAdd(M31!ModP(s), M31!ENeg(M31!ModP(acc[l])))
    BY AvxSums, Zenon DEF AvxExact
  <2> QED BY <2>2, <2>3, <2>4, Zenon DEF AvxExact
<1>4. CASE M31!Avx256!DoMul
  <2>1. PICK s \in M31!AvxWords :
          M31!Avx256!Becomes(M31!Avx256Mul(acc, M31!Avx256PackFull(s)),
            M31!Avx256!EProduct(is, M31!Avx256!EverySame(M31!ModP(s))))
    BY <1>4, Zenon DEF M31!Avx256!DoMul
  <2>2. acc' = [l \in 1 .. 16 |-> M31!MulDoubled(DoubledLane(acc, l), s)]
    BY <2>1, Zenon
       DEF M31!Avx256!Becomes, M31!Avx256Mul, M31!Avx256PackFull, M31!Fill,
           DoubledLane, AvxExact
  <2>3. is' = [l \in 1 .. 16 |-> M31!EMul(is[l], M31!ModP(s))]
    BY <2>1, Zenon
       DEF M31!Avx256!Becomes, M31!Avx256!EProduct, M31!Avx256!PerLane2,
           M31!Avx256!EverySame, M31!Avx256!Fill, AvxExact
  <2>4. \A l \in 1 .. 16 : /\ M31!MulDoubled(DoubledLane(acc, l), s) \in M31!AvxWords
                          /\ M31!ModP(M31!MulDoubled(DoubledLane(acc, l), s)) = M31!EMul(M31!ModP(acc[l]), M31!ModP(s))
    <3>1. \A l \in 1 .. 16 : DoubledLane(acc, l) = 2 * acc[l]
      BY DoubledLanes
    <3>2. \A l \in 1 .. 16 : /\ M31!MulDoubled(2 * acc[l], s) \in M31!AvxWords
                            /\ M31!ModP(M31!MulDoubled(2 * acc[l], s)) = M31!EMul(M31!ModP(acc[l]), M31!ModP(s))
      BY AvxProducts, Zenon DEF AvxExact
    <3> QED BY <3>1, <3>2, Zenon
  <2> QED BY <2>2, <2>3, <2>4, Zenon DEF AvxExact
<1>5. CASE M31!Avx256!DoAddScalar
  <2>1. PICK s \in M31!AvxWords :
          M31!Avx256!Becomes(M31!Avx256AddScalar(acc, s),
            M31!Avx256!ESum(is, M31!Avx256!EverySame(M31!ModP(s))))
    BY <1>5, Zenon DEF M31!Avx256!DoAddScalar
  <2>2. acc' = [l \in 1 .. 16 |-> M31!AddLane(acc[l], s)]
    BY <2>1, Zenon
       DEF M31!Avx256!Becomes, M31!Avx256AddScalar, M31!Avx256Add, M31!PerLane2,
           M31!Avx256PackFull, M31!Fill, AvxExact
  <2>3. is' = [l \in 1 .. 16 |-> M31!EAdd(is[l], M31!ModP(s))]
    BY <2>1, Zenon
       DEF M31!Avx256!Becomes, M31!Avx256!ESum, M31!Avx256!PerLane2,
           M31!Avx256!EverySame, M31!Avx256!Fill, AvxExact
  <2>4. \A l \in 1 .. 16 : /\ M31!AddLane(acc[l], s) \in M31!AvxWords
                          /\ M31!ModP(M31!AddLane(acc[l], s)) = M31!EAdd(M31!ModP(acc[l]), M31!ModP(s))
    BY AvxSums, Zenon DEF AvxExact
  <2> QED BY <2>2, <2>3, <2>4, Zenon DEF AvxExact
<1>6. CASE M31!Avx256!DoMulScalar
  <2>1. PICK s \in M31!AvxWords :
          M31!Avx256!Becomes(M31!Avx256MulScalar(acc, s),
            M31!Avx256!EProduct(is, M31!Avx256!EverySame(M31!ModP(s))))
    BY <1>6, Zenon DEF M31!Avx256!DoMulScalar
  <2>2. acc' = [l \in 1 .. 16 |-> M31!MulDoubled(DoubledLane(acc, l), s)]
    BY <2>1, Zenon
       DEF M31!Avx256!Becomes, M31!Avx256MulScalar, M31!Avx256Mul, M31!Avx256PackFull,
           M31!Fill, DoubledLane, AvxExact
  <2>3. is' = [l \in 1 .. 16 |-> M31!EMul(is[l], M31!ModP(s))]
    BY <2>1, Zenon
       DEF M31!Avx256!Becomes, M31!Avx256!EProduct, M31!Avx256!PerLane2,
           M31!Avx256!EverySame, M31!Avx256!Fill, AvxExact
  <2>4. \A l \in 1 .. 16 : /\ M31!MulDoubled(DoubledLane(acc, l), s) \in M31!AvxWords
                          /\ M31!ModP(M31!MulDoubled(DoubledLane(acc, l), s)) = M31!EMul(M31!ModP(acc[l]), M31!ModP(s))
    <3>1. \A l \in 1 .. 16 : DoubledLane(acc, l) = 2 * acc[l]
      BY DoubledLanes
    <3>2. \A l \in 1 .. 16 : /\ M31!MulDoubled(2 * acc[l], s) \in M31!AvxWords
                            /\ M31!ModP(M31!MulDoubled(2 * acc[l], s)) = M31!EMul(M31!ModP(acc[l]), M31!ModP(s))
      BY AvxProducts, Zenon DEF AvxExact
    <3> QED BY <3>1, <3>2, Zenon
  <2> QED BY <2>2, <2>3, <2>4, Zenon DEF AvxExact
<1>7. CASE M31!Avx256!DoNeg
  <2>1. M31!Avx256!Becomes(M31!Avx256Neg(acc), M31!Avx256!ENegated(is))
    BY <1>7, Zenon DEF M31!Avx256!DoNeg
  <2>2. acc' = [l \in 1 .. 16 |-> M31!XorMod(acc[l])]
    BY <2>1, Zenon
       DEF M31!Avx256!Becomes, M31!Avx256Neg, M31!PerLane, AvxExact
  <2>3. is' = [l \in 1 .. 16 |-> M31!ENeg(is[l])]
    BY <2>1, Zenon
       DEF M31!Avx256!Becomes, M31!Avx256!ENegated, M31!Avx256!PerLane, AvxExact
  <2>4. \A l \in 1 .. 16 : /\ M31!XorMod(acc[l]) \in M31!AvxWords
                          /\ M31!ModP(M31!XorMod(acc[l])) = M31!ENeg(M31!ModP(acc[l]))
    BY AvxNegations, Zenon DEF AvxExact
  <2> QED BY <2>2, <2>3, <2>4, Zenon DEF AvxExact
<1>8. CASE M31!Avx256!DoDouble
  <2>1. M31!Avx256!Becomes(M31!Avx256Double(acc), M31!Avx256!ESum(is, is))
    BY <1>8, Zenon DEF M31!Avx256!DoDouble
  <2>2. acc' = [l \in 1 .. 16 |-> M31!AddLane(acc[l], acc[l])]
    BY <2>1, Zenon
       DEF M31!Avx256!Becomes, M31!Avx256Double, M31!Avx256Add, M31!PerLane2, AvxExact
  <2>3. is' = [l \in 1 .. 16 |-> M31!EAdd(is[l], is[l])]
    BY <2>1, Zenon
       DEF M31!Avx256!Becomes, M31!Avx256!ESum, M31!Avx256!PerLane2, AvxExact
  <2>4. \A l \in 1 .. 16 : /\ M31!AddLane(acc[l], acc[l]) \in M31!AvxWords
                          /\ M31!ModP(M31!AddLane(acc[l], acc[l])) = M31!EAdd(M31!ModP(acc[l]), M31!ModP(acc[l]))
    BY AvxSums, Zenon DEF AvxExact
  <2> QED BY <2>2, <2>3, <2>4, Zenon DEF AvxExact
<1>9. CASE M31!Avx256!DoSquare
  <2>1. M31!Avx256!Becomes(M31!Avx256Square(acc), M31!Avx256!EProduct(is, is))
    BY <1>9, Zenon DEF M31!Avx256!DoSquare
  <2>2. acc' = [l \in 1 .. 16 |-> M31!MulDoubled(DoubledLane(acc, l), acc[l])]
    BY <2>1, Zenon
       DEF M31!Avx256!Becomes, M31!Avx256Square, M31!Avx256Mul, DoubledLane, AvxExact
  <2>3. is' = [l \in 1 .. 16 |-> M31!EMul(is[l], is[l])]
    BY <2>1, Zenon
       DEF M31!Avx256!Becomes, M31!Avx256!EProduct, M31!Avx256!PerLane2, AvxExact
  <2>4. \A l \in 1 .. 16 : /\ M31!MulDoubled(DoubledLane(acc, l), acc[l]) \in M31!AvxWords
                          /\ M31!ModP(M31!MulDoubled(DoubledLane(acc, l), acc[l])) = M31!EMul(M31!ModP(acc[l]), M31!ModP(acc[l]))
    <3>1. \A l \in 1 .. 16 : DoubledLane(acc, l) = 2 * acc[l]
      BY DoubledLanes
    <3>2. \A l \in 1 .. 16 : /\ M31!MulDoubled(2 * acc[l], acc[l]) \in M31!AvxWords
                            /\ M31!ModP(M31!MulDoubled(2 * acc[l], acc[l])) = M31!EMul(M31!ModP(acc[l]), M31!ModP(acc[l]))
      BY AvxProducts, Zenon DEF AvxExact
    <3> QED BY <3>1, <3>2, Zenon
  <2> QED BY <2>2, <2>3, <2>4, Zenon DEF AvxExact
<1>10. CASE M31!Avx256!DoMulBy3
  <2>1. M31!Avx256!Becomes(M31!Avx256MulBy3(acc), M31!Avx256!ETimes(3, is))
    BY <1>10, Zenon DEF M31!Avx256!DoMulBy3
  <2>2. acc' = [l \in 1 .. 16 |-> AvxThree(M31!Avx256Reduce, acc[l])]
    BY <2>1, Zenon
       DEF M31!Avx256!Becomes, M31!Avx256MulBy3, AvxThree, M31!PerLane, AvxExact
  <2>3. is' = [l \in 1 .. 16 |-> M31!EMul(M31!ModP(3), is[l])]
    BY <2>1, Zenon
       DEF M31!Avx256!Becomes, M31!Avx256!ETimes, M31!Avx256!PerLane, AvxExact
  <2>4. \A l \in 1 .. 16 : /\ AvxThree(M31!Avx256Reduce, acc[l]) \in M31!AvxWords
                          /\ M31!ModP(AvxThree(M31!Avx256Reduce, acc[l])) = M31!EMul(M31!ModP(3), M31!ModP(acc[l]))
    BY AvxMultiples, Zenon DEF AvxExact
  <2> QED BY <2>2, <2>3, <2>4, Zenon DEF AvxExact
<1>11. CASE M31!Avx256!DoMulBy5
  <2>1. M31!Avx256!Becomes(M31!Avx256MulBy5(acc), M31!Avx256!ETimes(5, is))
    BY <1>11, Zenon DEF M31!Avx256!DoMulBy5
  <2>2. acc' = [l \in 1 .. 16 |-> M31!TimesFive(M31!Avx256Reduce, acc[l])]
    BY <2>1, Zenon
       DEF M31!Avx256!Becomes, M31!Avx256MulBy5, M31!PerLane, AvxExact
  <2>3. is' = [l \in 1 .. 16 |-> M31!EMul(M31!ModP(5), is[l])]
    BY <2>1, Zenon
       DEF M31!Avx256!Becomes, M31!Avx256!ETimes, M31!Avx256!PerLane, AvxExact
  <2>4. \A l \in 1 .. 16 : /\ M31!TimesFive(M31!Avx256Reduce, acc[l]) \in M31!AvxWords
                          /\ M31!ModP(M31!TimesFive(M31!Avx256Reduce, acc[l])) = M31!EMul(M31!ModP(5), M31!ModP(acc[l]))
    BY AvxMultiples, Zenon DEF AvxExact
  <2> QED BY <2>2, <2>3, <2>4, Zenon DEF AvxExact
<1>12. CASE M31!Avx256!DoMulBy6
  <2>1. M31!Avx256!Becomes(M31!Avx256MulBy6(acc), M31!Avx256!ETimes(6, is))
    BY <1>12, Zenon DEF M31!Avx256!DoMulBy6
  <2>2. acc' = [l \in 1 .. 16 |-> M31!AddLane(AvxThree(M31!Avx256Reduce, acc[l]), AvxThree(M31!Avx256Reduce, acc[l]))]
    BY <2>1, Zenon
       DEF M31!Avx256!Becomes, M31!Avx256MulBy6, M31!DefaultMulBy6, M31!Avx256MulBy3,
           AvxThree, M31!PerLane, M31!Avx256Add, M31!PerLane2, AvxExact
  <2>3. is' = [l \in 1 .. 16 |-> M31!EMul(M31!ModP(6), is[l])]
    BY <2>1, Zenon
       DEF M31!Avx256!Becomes, M31!Avx256!ETimes, M31!Avx256!PerLane, AvxExact
  <2>4. \A l \in 1 .. 16 : /\ M31!AddLane(AvxThree(M31!Avx256Reduce, acc[l]), AvxThree(M31!Avx256Reduce, acc[l])) \in M31!AvxWords
                          /\ M31!ModP(M31!AddLane(AvxThree(M31!Avx256Reduce, acc[l]), AvxThree(M31!Avx256Reduce, acc[l]))) = M31!EMul(M31!ModP(6), M31!ModP(acc[l]))
    <3>1. \A l \in 1 .. 16 : /\ AvxThree(M31!Avx256Reduce, acc[l]) \in M31!AvxWords
                            /\ M31!ModP(AvxThree(M31!Avx256Reduce, acc[l])) = M31!EMul(M31!ModP(3), M31!ModP(acc[l]))
      BY AvxMultiples, Zenon DEF AvxExact
    <3>2. \A l \in 1 .. 16 : /\ M31!AddLane(AvxThree(M31!Avx256Reduce, acc[l]), AvxThree(M31!Avx256Reduce, acc[l])) \in M31!AvxWords
                            /\ M31!ModP(M31!AddLane(AvxThree(M31!Avx256Reduce, acc[l]), AvxThree(M31!Avx256Reduce, acc[l]))) = M31!EAdd(M31!EMul(M31!ModP(3), M31!ModP(acc[l])),
                    M31!EMul(M31!ModP(3), M31!ModP(acc[l])))
      BY <3>1, AvxSums, Zenon
    <3> QED BY <3>2, MultiplesBySums, Zenon DEF AvxExact
  <2> QED BY <2>2, <2>3, <2>4, Zenon DEF AvxExact
<1>13. CASE M31!Avx256!DoPack
  <2>1. PICK s \in M31!PackedSeeds, here \in SUBSET (1 .. 16) :
          M31!Avx256!Becomes([l \in 1 .. 16 |-> IF l \in here THEN s ELSE acc[1]],
            [l \in 1 .. 16 |-> IF l \in here THEN M31!ModP(s) ELSE is[1]])
    <3>1. {l \in 1 .. 16 : l % 2 = 1} \in SUBSET (1 .. 16) /\ 1 .. (16 + 1) \div 2 \in SUBSET (1 .. 16)
      BY SMT
    <3> QED BY <1>13, <3>1, Zenon DEF M31!Avx256!DoPack, M31!Avx256Pack, M31!Avx256Unpack
  <2>2. s \in M31!AvxWords /\ 1 \in 1 .. 16
    BY SeedsAre, ScalarWordsReduced, SMT
  <2> QED BY <2>1, <2>2, Zenon DEF M31!Avx256!Becomes, AvxExact
<1>14. CASE M31!Avx256!DoStoreAndLoad
  <2>1. acc' = [l \in 1 .. 16 |-> M31!Avx256Reduce(acc[l])] /\ is' = is
    BY <1>14, Zenon DEF M31!Avx256!DoStoreAndLoad, M31!Avx256!Becomes, M31!Avx256Deserialize,
       M31!Avx256Serialize, M31!PerLane, AvxExact
  <2> QED BY <2>1, ReducedWords, Zenon DEF AvxExact
<1>15. CASE M31!Avx256!DoFrom
  <2>1. PICK w \in M31!Word : M31!Avx256!Becomes(M31!Avx256From(w), M31!Avx256!EverySame(M31!ModP(w)))
    BY <1>15, Zenon DEF M31!Avx256!DoFrom
  <2> QED BY <2>1, RawWords, ScalarWordsReduced, Zenon
          DEF M31!Avx256!Becomes, M31!Avx256From, M31!Avx256PackFull, M31!Fill, M31!Avx256!EverySame, M31!Avx256!Fill, AvxExact
<1>16. CASE M31!Avx256!DoFromUniformBytes
  <2>1. PICK w \in M31!Word :
          /\ ~M31!Avx256!Avoided("from_uniform_bytes", M31!Avx256FromUniformBytes(w), acc)
          /\ M31!Avx256!Becomes(M31!Avx256FromUniformBytes(w), M31!Avx256!Value(M31!Avx256FromUniformBytes(w)))
    BY <1>16, Zenon DEF M31!Avx256!DoFromUniformBytes
  <2>2. M31!M31FromUniformBytes(w) # M31!MOD + 1
    <3>1. 1 \in 1 .. 16
      BY SMT
    <3> QED BY <2>1, <3>1, Zenon
            DEF M31!Avx256!Avoided, M31!WrongWithAvx256, M31!SumTooWide, M31!TopWord, M31!Avx256FromUniformBytes, M31!Fill
  <2> QED BY <2>1, <2>2, RawWords, ScalarWordsReduced, Zenon
          DEF M31!Avx256!Becomes, M31!Avx256!Value, M31!Avx256!PerLane, M31!Avx256Unpack, M31!Avx256FromUniformBytes,
              M31!Fill, AvxExact
<1>17. CASE M31!Avx256!DoRandomUnsafe
  <2>1. PICK w \in M31!Word :
          M31!Avx256!Becomes(M31!Avx256RandomUnsafe(w), M31!Avx256!Value(M31!Avx256RandomUnsafe(w)))
    BY <1>17, Zenon DEF M31!Avx256!DoRandomUnsafe
  <2> QED BY <2>1, RawWords, Zenon
          DEF M31!Avx256!Becomes, M31!Avx256!Value, M31!Avx256!PerLane, M31!Avx256Unpack, M31!Avx256RandomUnsafe,
              M31!Fill, AvxExact
<1>18. CASE M31!Avx256!DoRandomBool
  <2>1. PICK bits \in [1 .. 16 -> {0, 1}] :
          M31!Avx256!Becomes(M31!Avx256RandomBool(bits), M31!Avx256!PerLane(M31!ModP, bits))
    <3>1. /\ [l \in 1 .. 16 |-> 1] \in [1 .. 16 -> {0, 1}]
          /\ [l \in 1 .. 16 |-> l % 2] \in [1 .. 16 -> {0, 1}]
      BY SMT
    <3> QED BY <1>18, <3>1, Zenon DEF M31!Avx256!DoRandomBool, M31!Avx256!Fill
  <2>2. \A l \in 1 .. 16 : bits[l] \in M31!AvxWords
    BY <2>1, BitsAre, ScalarWordsReduced, Zenon
  <2> QED BY <2>1, <2>2, Zenon
          DEF M31!Avx256!Becomes, M31!Avx256!PerLane, M31!Avx256RandomBool, AvxExact
<1> QED BY <1>1, <1>2, <1>3, <1>4, <1>5, <1>6, <1>7, <1>8, <1>9, <1>10, <1>11, <1>12, <1>13, <1>14, <1>15, <1>16, <1>17, <1>18,
          Zenon DEF M31!Avx256!Arithmetic

LEMMA Avx512Step ==
  ASSUME AvxExact, M31!Avx512!Arithmetic
  PROVE  AvxExact'
<1>1. CASE M31!Avx512!DoAdd
  <2>1. PICK s \in M31!AvxWords :
          M31!Avx512!Becomes(M31!Avx512Add(acc, M31!Avx512PackFull(s)),
            M31!Avx512!ESum(is, M31!Avx512!EverySame(M31!ModP(s))))
    BY <1>1, Zenon DEF M31!Avx512!DoAdd
  <2>2. acc' = [l \in 1 .. 16 |-> M31!AddLane(acc[l], s)]
    BY <2>1, Zenon
       DEF M31!Avx512!Becomes, M31!Avx512Add, M31!PerLane2, M31!Avx512PackFull,
           M31!Fill, AvxExact
  <2>3. is' = [l \in 1 .. 16 |-> M31!EAdd(is[l], M31!ModP(s))]
    BY <2>1, Zenon
       DEF M31!Avx512!Becomes, M31!Avx512!ESum, M31!Avx512!PerLane2,
           M31!Avx512!EverySame, M31!Avx512!Fill, AvxExact
  <2>4. \A l \in 1 .. 16 : /\ M31!AddLane(acc[l], s) \in M31!AvxWords
                          /\ M31!ModP(M31!AddLane(acc[l], s)) = M31!EAdd(M31!ModP(acc[l]), M31!ModP(s))
    BY AvxSums, Zenon DEF AvxExact
  <2> QED BY <2>2, <2>3, <2>4, Zenon DEF AvxExact
<1>2. CASE M31!Avx512!DoSub
  <2>1. PICK s \in M31!AvxWords :
          M31!Avx512!Becomes(M31!Avx512Sub(acc, M31!Avx512PackFull(s)),
            M31!Avx512!ESum(is, M31!Avx512!EverySame(M31!ENeg(M31!ModP(s)))))
    BY <1>2, Zenon DEF M31!Avx512!DoSub
  <2>2. acc' = [l \in 1 .. 16 |-> M31!SubLane(acc[l], s)]
    BY <2>1, Zenon
       DEF M31!Avx512!Becomes, M31!Avx512Sub, M31!PerLane2, M31!Avx512PackFull,
           M31!Fill, AvxExact
  <2>3. is' = [l \in 1 .. 16 |-> M31!EAdd(is[l], M31!ENeg(M31!ModP(s)))]
    BY <2>1, Zenon
       DEF M31!Avx512!Becomes, M31!Avx512!ESum, M31!Avx512!PerLane2,
           M31!Avx512!EverySame, M31!Avx512!Fill, AvxExact
  <2>4. \A l \in 1 .. 16 : /\ M31!SubLane(acc[l], s) \in M31!AvxWords
                          /\ M31!ModP(M31!SubLane(acc[l], s)) = M31!EAdd(M31!ModP(acc[l]), M31!ENeg(M31!ModP(s)))
    BY AvxSums, Zenon DEF AvxExact
  <2> QED BY <2>2, <2>3, <2>4, Zenon DEF AvxExact
<1>3. CASE M31!Avx512!DoSubFrom
  <2>1. PICK s \in M31!AvxWords :
          M31!Avx512!Becomes(M31!Avx512Sub(M31!Avx512PackFull(s), acc),
            M31!Avx512!ESum(M31!Avx512!EverySame(M31!ModP(s)), M31!Avx512!ENegated(is)))
    BY <1>3, Zenon DEF M31!Avx512!DoSubFrom
  <2>2. acc' = [l \in 1 .. 16 |-> M31!SubLane(s, acc[l])]
    BY <2>1, Zenon
       DEF M31!Avx512!Becomes, M31!Avx512Sub, M31!PerLane2, M31!Avx512PackFull,
           M31!Fill, AvxExact
  <2>3. is' = [l \in 1 .. 16 |-> M31!EAdd(M31!ModP(s), M31!ENeg(is[l]))]
    BY <2>1, Zenon
       DEF M31!Avx512!Becomes, M31!Avx512!ESum, M31!Avx512!PerLane2,
           M31!Avx512!EverySame, M31!Avx512!Fill, M31!Avx512!ENegated,
           M31!Avx512!PerLane, AvxExact
  <2>4. \A l \in 1 .. 16 : /\ M31!SubLane(s, acc[l]) \in M31!AvxWords
                          /\ M31!ModP(M31!SubLane(s, acc[l])) = M31!EAdd(M31!ModP(s), M31!ENeg(M31!ModP(acc[l])))
    BY AvxSums, Zenon DEF AvxExact
  <2> QED BY <2>2, <2>3, <2>4, Zenon DEF AvxExact
<1>4. CASE M31!Avx512!DoMul
  <2>1. PICK s \in M31!AvxWords :
          M31!Avx512!Becomes(M31!Avx512Mul(acc, M31!Avx512PackFull(s)),
            M31!Avx512!EProduct(is, M31!Avx512!EverySame(M31!ModP(s))))
    BY <1>4, Zenon DEF M31!Avx512!DoMul
  <2>2. acc' = [l \in 1 .. 16 |-> M31!MulDoubled(DoubledLane(acc, l), s)]
    BY <2>1, Zenon
       DEF M31!Avx512!Becomes, M31!Avx256Mul, M31!Avx512Mul, M31!Avx512PackFull,
           M31!Fill, DoubledLane, AvxExact
  <2>3. is' = [l \in 1 .. 16 |-> M31!EMul(is[l], M31!ModP(s))]
    BY <2>1, Zenon
       DEF M31!Avx512!Becomes, M31!Avx512!EProduct, M31!Avx512!PerLane2,
           M31!Avx512!EverySame, M31!Avx512!Fill, AvxExact
  <2>4. \A l \in 1 .. 16 : /\ M31!MulDoubled(DoubledLane(acc, l), s) \in M31!AvxWords
                          /\ M31!ModP(M31!MulDoubled(DoubledLane(acc, l), s)) = M31!EMul(M31!ModP(acc[l]), M31!ModP(s))
    <3>1. \A l \in 1 .. 16 : DoubledLane(acc, l) = 2 * acc[l]
      BY DoubledLanes
    <3>2. \A l \in 1 .. 16 : /\ M31!MulDoubled(2 * acc[l], s) \in M31!AvxWords
                            /\ M31!ModP(M31!MulDoubled(2 * acc[l], s)) = M31!EMul(M31!ModP(acc[l]), M31!ModP(s))
      BY AvxProducts, Zenon DEF AvxExact
    <3> QED BY <3>1, <3>2, Zenon
  <2> QED BY <2>2, <2>3, <2>4, Zenon DEF AvxExact
<1>5. CASE M31!Avx512!DoAddScalar
  <2>1. PICK s \in M31!AvxWords :
          M31!Avx512!Becomes(M31!Avx512AddScalar(acc, s),
            M31!Avx512!ESum(is, M31!Avx512!EverySame(M31!ModP(s))))
    BY <1>5, Zenon DEF M31!Avx512!DoAddScalar
  <2>2. acc' = [l \in 1 .. 16 |-> M31!AddLane(acc[l], s)]
    BY <2>1, Zenon
       DEF M31!Avx512!Becomes, M31!Avx512AddScalar, M31!Avx512Add, M31!PerLane2,
           M31!Avx512PackFull, M31!Fill, AvxExact
  <2>3. is' = [l \in 1 .. 16 |-> M31!EAdd(is[l], M31!ModP(s))]
    BY <2>1, Zenon
       DEF M31!Avx512!Becomes, M31!Avx512!ESum, M31!Avx512!PerLane2,
           M31!Avx512!EverySame, M31!Avx512!Fill, AvxExact
  <2>4. \A l \in 1 .. 16 : /\ M31!AddLane(acc[l], s) \in M31!AvxWords
                          /\ M31!ModP(M31!AddLane(acc[l], s)) = M31!EAdd(M31!ModP(acc[l]), M31!ModP(s))
    BY AvxSums, Zenon DEF AvxExact
  <2> QED BY <2>2, <2>3, <2>4, Zenon DEF AvxExact
<1>6. CASE M31!Avx512!DoMulScalar
  <2>1. PICK s \in M31!AvxWords :
          M31!Avx512!Becomes(M31!Avx512MulScalar(acc, s),
            M31!Avx512!EProduct(is, M31!Avx512!EverySame(M31!ModP(s))))
    BY <1>6, Zenon DEF M31!Avx512!DoMulScalar
  <2>2. acc' = [l \in 1 .. 16 |-> M31!MulDoubled(DoubledLane(acc, l), s)]
    BY <2>1, Zenon
       DEF M31!Avx512!Becomes, M31!Avx512MulScalar, M31!Avx256Mul, M31!Avx512Mul,
           M31!Avx512PackFull, M31!Fill, DoubledLane, AvxExact
  <2>3. is' = [l \in 1 .. 16 |-> M31!EMul(is[l], M31!ModP(s))]
    BY <2>1, Zenon
       DEF M31!Avx512!Becomes, M31!Avx512!EProduct, M31!Avx512!PerLane2,
           M31!Avx512!EverySame, M31!Avx512!Fill, AvxExact
  <2>4. \A l \in 1 .. 16 : /\ M31!MulDoubled(DoubledLane(acc, l), s) \in M31!AvxWords
                          /\ M31!ModP(M31!MulDoubled(DoubledLane(acc, l), s)) = M31!EMul(M31!ModP(acc[l]), M31!ModP(s))
    <3>1. \A l \in 1 .. 16 : DoubledLane(acc, l) = 2 * acc[l]
      BY DoubledLanes
    <3>2. \A l \in 1 .. 16 : /\ M31!MulDoubled(2 * acc[l], s) \in M31!AvxWords
                            /\ M31!ModP(M31!MulDoubled(2 * acc[l], s)) = M31!EMul(M31!ModP(acc[l]), M31!ModP(s))
      BY AvxProducts, Zenon DEF AvxExact
    <3> QED BY <3>1, <3>2, Zenon
  <2> QED BY <2>2, <2>3, <2>4, Zenon DEF AvxExact
<1>7. CASE M31!Avx512!DoNeg
  <2>1. M31!Avx512!Becomes(M31!Avx512Neg(acc), M31!Avx512!ENegated(is))
    BY <1>7, Zenon DEF M31!Avx512!DoNeg
  <2>2. acc' = [l \in 1 .. 16 |-> M31!XorMod(acc[l])]
    BY <2>1, Zenon
       DEF M31!Avx512!Becomes, M31!Avx512Neg, M31!PerLane, AvxExact
  <2>3. is' = [l \in 1 .. 16 |-> M31!ENeg(is[l])]
    BY <2>1, Zenon
       DEF M31!Avx512!Becomes, M31!Avx512!ENegated, M31!Avx512!PerLane, AvxExact
  <2>4. \A l \in 1 .. 16 : /\ M31!XorMod(acc[l]) \in M31!AvxWords
                          /\ M31!ModP(M31!XorMod(acc[l])) = M31!ENeg(M31!ModP(acc[l]))
    BY AvxNegations, Zenon DEF AvxExact
  <2> QED BY <2>2, <2>3, <2>4, Zenon DEF AvxExact
<1>8. CASE M31!Avx512!DoDouble
  <2>1. M31!Avx512!Becomes(M31!Avx512Double(acc), M31!Avx512!ESum(is, is))
    BY <1>8, Zenon DEF M31!Avx512!DoDouble
  <2>2. acc' = [l \in 1 .. 16 |-> M31!AddLane(acc[l], acc[l])]
    BY <2>1, Zenon
       DEF M31!Avx512!Becomes, M31!Avx512Double, M31!Avx512Add, M31!PerLane2, AvxExact
  <2>3. is' = [l \in 1 .. 16 |-> M31!EAdd(is[l], is[l])]
    BY <2>1, Zenon
       DEF M31!Avx512!Becomes, M31!Avx512!ESum, M31!Avx512!PerLane2, AvxExact
  <2>4. \A l \in 1 .. 16 : /\ M31!AddLane(acc[l], acc[l]) \in M31!AvxWords
                          /\ M31!ModP(M31!AddLane(acc[l], acc[l])) = M31!EAdd(M31!ModP(acc[l]), M31!ModP(acc[l]))
    BY AvxSums, Zenon DEF AvxExact
  <2> QED BY <2>2, <2>3, <2>4, Zenon DEF AvxExact
<1>9. CASE M31!Avx512!DoSquare
  <2>1. M31!Avx512!Becomes(M31!Avx512Square(acc), M31!Avx512!EProduct(is, is))
    BY <1>9, Zenon DEF M31!Avx512!DoSquare
  <2>2. acc' = [l \in 1 .. 16 |-> M31!MulDoubled(DoubledLane(acc, l), acc[l])]
    BY <2>1, Zenon
       DEF M31!Avx512!Becomes, M31!Avx512Square, M31!Avx256Mul, M31!Avx512Mul,
           DoubledLane, AvxExact
  <2>3. is' = [l \in 1 .. 16 |-> M31!EMul(is[l], is[l])]
    BY <2>1, Zenon
       DEF M31!Avx512!Becomes, M31!Avx512!EProduct, M31!Avx512!PerLane2, AvxExact
  <2>4. \A l \in 1 .. 16 : /\ M31!MulDoubled(DoubledLane(acc, l), acc[l]) \in M31!AvxWords
                          /\ M31!ModP(M31!MulDoubled(DoubledLane(acc, l), acc[l])) = M31!EMul(M31!ModP(acc[l]), M31!ModP(acc[l]))
    <3>1. \A l \in 1 .. 16 : DoubledLane(acc, l) = 2 * acc[l]
      BY DoubledLanes
    <3>2. \A l \in 1 .. 16 : /\ M31!MulDoubled(2 * acc[l], acc[l]) \in M31!AvxWords
                            /\ M31!ModP(M31!MulDoubled(2 * acc[l], acc[l])) = M31!EMul(M31!ModP(acc[l]), M31!ModP(acc[l]))
      BY AvxProducts, Zenon DEF AvxExact
    <3> QED BY <3>1, <3>2, Zenon
  <2> QED BY <2>2, <2>3, <2>4, Zenon DEF AvxExact
<1>10. CASE M31!Avx512!DoMulBy3
  <2>1. M31!Avx512!Becomes(M31!Avx512MulBy3(acc), M31!Avx512!ETimes(3, is))
    BY <1>10, Zenon DEF M31!Avx512!DoMulBy3
  <2>2. acc' = [l \in 1 .. 16 |-> AvxThree(M31!Avx512Reduce, acc[l])]
    BY <2>1, Zenon
       DEF M31!Avx512!Becomes, M31!Avx512MulBy3, AvxThree, M31!PerLane, AvxExact
  <2>3. is' = [l \in 1 .. 16 |-> M31!EMul(M31!ModP(3), is[l])]
    BY <2>1, Zenon
       DEF M31!Avx512!Becomes, M31!Avx512!ETimes, M31!Avx512!PerLane, AvxExact
  <2>4. \A l \in 1 .. 16 : /\ AvxThree(M31!Avx512Reduce, acc[l]) \in M31!AvxWords
                          /\ M31!ModP(AvxThree(M31!Avx512Reduce, acc[l])) = M31!EMul(M31!ModP(3), M31!ModP(acc[l]))
    BY AvxMultiples, Zenon DEF AvxExact
  <2> QED BY <2>2, <2>3, <2>4, Zenon DEF AvxExact
<1>11. CASE M31!Avx512!DoMulBy5
  <2>1. M31!Avx512!Becomes(M31!Avx512MulBy5(acc), M31!Avx512!ETimes(5, is))
    BY <1>11, Zenon DEF M31!Avx512!DoMulBy5
  <2>2. acc' = [l \in 1 .. 16 |-> M31!TimesFive(M31!Avx512Reduce, acc[l])]
    BY <2>1, Zenon
       DEF M31!Avx512!Becomes, M31!Avx512MulBy5, M31!PerLane, AvxExact
  <2>3. is' = [l \in 1 .. 16 |-> M31!EMul(M31!ModP(5), is[l])]
    BY <2>1, Zenon
       DEF M31!Avx512!Becomes, M31!Avx512!ETimes, M31!Avx512!PerLane, AvxExact
  <2>4. \A l \in 1 .. 16 : /\ M31!TimesFive(M31!Avx512Reduce, acc[l]) \in M31!AvxWords
                          /\ M31!ModP(M31!TimesFive(M31!Avx512Reduce, acc[l])) = M31!EMul(M31!ModP(5), M31!ModP(acc[l]))
    BY AvxMultiples, Zenon DEF AvxExact
  <2> QED BY <2>2, <2>3, <2>4, Zenon DEF AvxExact
<1>12. CASE M31!Avx512!DoMulBy6
  <2>1. M31!Avx512!Becomes(M31!Avx512MulBy6(acc), M31!Avx512!ETimes(6, is))
    BY <1>12, Zenon DEF M31!Avx512!DoMulBy6
  <2>2. acc' = [l \in 1 .. 16 |-> M31!AddLane(AvxThree(M31!Avx512Reduce, acc[l]), AvxThree(M31!Avx512Reduce, acc[l]))]
    BY <2>1, Zenon
       DEF M31!Avx512!Becomes, M31!Avx512MulBy6, M31!DefaultMulBy6, M31!Avx512MulBy3,
           AvxThree, M31!PerLane, M31!Avx512Add, M31!PerLane2, AvxExact
  <2>3. is' = [l \in 1 .. 16 |-> M31!EMul(M31!ModP(6), is[l])]
    BY <2>1, Zenon
       DEF M31!Avx512!Becomes, M31!Avx512!ETimes, M31!Avx512!PerLane, AvxExact
  <2>4. \A l \in 1 .. 16 : /\ M31!AddLane(AvxThree(M31!Avx512Reduce, acc[l]), AvxThree(M31!Avx512Reduce, acc[l])) \in M31!AvxWords
                          /\ M31!ModP(M31!AddLane(AvxThree(M31!Avx512Reduce, acc[l]), AvxThree(M31!Avx512Reduce, acc[l]))) = M31!EMul(M31!ModP(6), M31!ModP(acc[l]))
    <3>1. \A l \in 1 .. 16 : /\ AvxThree(M31!Avx512Reduce, acc[l]) \in M31!AvxWords
                            /\ M31!ModP(AvxThree(M31!Avx512Reduce, acc[l])) = M31!EMul(M31!ModP(3), M31!ModP(acc[l]))
      BY AvxMultiples, Zenon DEF AvxExact
    <3>2. \A l \in 1 .. 16 : /\ M31!AddLane(AvxThree(M31!Avx512Reduce, acc[l]), AvxThree(M31!Avx512Reduce, acc[l])) \in M31!AvxWords
                            /\ M31!ModP(M31!AddLane(AvxThree(M31!Avx512Reduce, acc[l]), AvxThree(M31!Avx512Reduce, acc[l]))) = M31!EAdd(M31!EMul(M31!ModP(3), M31!ModP(acc[l])),
                    M31!EMul(M31!ModP(3), M31!ModP(acc[l])))
      BY <3>1, AvxSums, Zenon
    <3> QED BY <3>2, MultiplesBySums, Zenon DEF AvxExact
  <2> QED BY <2>2, <2>3, <2>4, Zenon DEF AvxExact
<1>13. CASE M31!Avx512!DoPack
  <2>1. PICK s \in M31!PackedSeeds, here \in SUBSET (1 .. 16) :
          M31!Avx512!Becomes([l \in 1 .. 16 |-> IF l \in here THEN s ELSE acc[1]],
            [l \in 1 .. 16 |-> IF l \in here THEN M31!ModP(s) ELSE is[1]])
    <3>1. {l \in 1 .. 16 : l % 2 = 1} \in SUBSET (1 .. 16) /\ 1 .. (16 + 1) \div 2 \in SUBSET (1 .. 16)
      BY SMT
    <3> QED BY <1>13, <3>1, Zenon DEF M31!Avx512!DoPack, M31!Avx512Pack, M31!Avx512Unpack
  <2>2. s \in M31!AvxWords /\ 1 \in 1 .. 16
    BY SeedsAre, ScalarWordsReduced, SMT
  <2> QED BY <2>1, <2>2, Zenon DEF M31!Avx512!Becomes, AvxExact
<1>14. CASE M31!Avx512!DoStoreAndLoad
  <2>1. acc' = [l \in 1 .. 16 |-> M31!Avx512Reduce(M31!Avx512Reduce(acc[l]))] /\ is' = is
    BY <1>14, Zenon DEF M31!Avx512!DoStoreAndLoad, M31!Avx512!Becomes, M31!Avx512Deserialize,
       M31!Avx512Serialize, M31!PerLane, AvxExact
  <2>2. \A x \in M31!AvxWords : /\ M31!Avx512Reduce(M31!Avx512Reduce(x)) \in M31!AvxWords
                                /\ M31!ModP(M31!Avx512Reduce(M31!Avx512Reduce(x))) = M31!ModP(x)
    BY ReducedWords, ScalarWordsReduced, Zenon
  <2> QED BY <2>1, <2>2, Zenon DEF AvxExact
<1>15. CASE M31!Avx512!DoFrom
  <2>1. PICK w \in M31!Word : M31!Avx512!Becomes(M31!Avx512From(w), M31!Avx512!EverySame(M31!ModP(w)))
    BY <1>15, Zenon DEF M31!Avx512!DoFrom
  <2> QED BY <2>1, RawWords, ScalarWordsReduced, Zenon
          DEF M31!Avx512!Becomes, M31!Avx512From, M31!Avx512PackFull, M31!Fill, M31!Avx512!EverySame, M31!Avx512!Fill, AvxExact
<1>16. CASE M31!Avx512!DoFromUniformBytes
  <2>1. PICK w \in M31!Word :
          /\ ~M31!Avx512!Avoided("from_uniform_bytes", M31!Avx512FromUniformBytes(w), acc)
          /\ M31!Avx512!Becomes(M31!Avx512FromUniformBytes(w), M31!Avx512!Value(M31!Avx512FromUniformBytes(w)))
    BY <1>16, Zenon DEF M31!Avx512!DoFromUniformBytes
  <2>2. M31!M31FromUniformBytes(w) # M31!MOD + 1
    <3>1. 1 \in 1 .. 16
      BY SMT
    <3> QED BY <2>1, <3>1, Zenon
            DEF M31!Avx512!Avoided, M31!SumTooWide, M31!TopWord, M31!Avx512FromUniformBytes, M31!Fill
  <2> QED BY <2>1, <2>2, RawWords, ScalarWordsReduced, Zenon
          DEF M31!Avx512!Becomes, M31!Avx512!Value, M31!Avx512!PerLane, M31!Avx512Unpack, M31!Avx512FromUniformBytes,
              M31!Fill, AvxExact
<1>17. CASE M31!Avx512!DoRandomUnsafe
  <2>1. PICK w \in M31!Word :
          M31!Avx512!Becomes(M31!Avx512RandomUnsafe(w), M31!Avx512!Value(M31!Avx512RandomUnsafe(w)))
    BY <1>17, Zenon DEF M31!Avx512!DoRandomUnsafe
  <2> QED BY <2>1, RawWords, Zenon
          DEF M31!Avx512!Becomes, M31!Avx512!Value, M31!Avx512!PerLane, M31!Avx512Unpack, M31!Avx512RandomUnsafe,
              M31!Fill, AvxExact
<1>18. CASE M31!Avx512!DoRandomBool
  <2>1. PICK bits \in [1 .. 16 -> {0, 1}] :
          M31!Avx512!Becomes(M31!Avx512RandomBool(bits), M31!Avx512!PerLane(M31!ModP, bits))
    <3>1. /\ [l \in 1 .. 16 |-> 1] \in [1 .. 16 -> {0, 1}]
          /\ [l \in 1 .. 16 |-> l % 2] \in [1 .. 16 -> {0, 1}]
      BY SMT
    <3> QED BY <1>18, <3>1, Zenon DEF M31!Avx512!DoRandomBool, M31!Avx512!Fill
  <2>2. \A l \in 1 .. 16 : bits[l] \in M31!AvxWords
    BY <2>1, BitsAre, ScalarWordsReduced, Zenon
  <2> QED BY <2>1, <2>2, Zenon
          DEF M31!Avx512!Becomes, M31!Avx512!PerLane, M31!Avx512RandomBool, AvxExact
<1> QED BY <1>1, <1>2, <1>3, <1>4, <1>5, <1>6, <1>7, <1>8, <1>9, <1>10, <1>11, <1>12, <1>13, <1>14, <1>15, <1>16, <1>17, <1>18,
          Zenon DEF M31!Avx512!Arithmetic

LEMMA NeonStep ==
  ASSUME NeonExact, M31!Neon!Arithmetic
  PROVE  NeonExact'
<1>1. CASE M31!Neon!DoAdd
  <2>1. PICK s \in M31!ScalarWords :
          M31!Neon!Becomes(M31!NeonAdd(acc, M31!NeonPackFull(s)),
            M31!Neon!ESum(is, M31!Neon!EverySame(M31!ModP(s))))
    BY <1>1, Zenon DEF M31!Neon!DoAdd
  <2>2. acc' = [l \in 1 .. 16 |-> M31!AddLane(acc[l], s)]
    BY <2>1, Zenon
       DEF M31!Neon!Becomes, M31!NeonAdd, M31!PerLane2, M31!NeonPackFull, M31!Fill,
           NeonExact
  <2>3. is' = [l \in 1 .. 16 |-> M31!EAdd(is[l], M31!ModP(s))]
    BY <2>1, Zenon
       DEF M31!Neon!Becomes, M31!Neon!ESum, M31!Neon!PerLane2, M31!Neon!EverySame,
           M31!Neon!Fill, NeonExact
  <2>4. \A l \in 1 .. 16 : /\ M31!AddLane(acc[l], s) \in M31!ScalarWords
                          /\ M31!ModP(M31!AddLane(acc[l], s)) = M31!EAdd(M31!ModP(acc[l]), M31!ModP(s))
    BY NeonSums, Zenon DEF NeonExact
  <2> QED BY <2>2, <2>3, <2>4, Zenon DEF NeonExact
<1>2. CASE M31!Neon!DoSub
  <2>1. PICK s \in M31!ScalarWords :
          M31!Neon!Becomes(M31!NeonSub(acc, M31!NeonPackFull(s)),
            M31!Neon!ESum(is, M31!Neon!EverySame(M31!ENeg(M31!ModP(s)))))
    BY <1>2, Zenon DEF M31!Neon!DoSub
  <2>2. acc' = [l \in 1 .. 16 |-> M31!SubLane(acc[l], s)]
    BY <2>1, Zenon
       DEF M31!Neon!Becomes, M31!NeonSub, M31!PerLane2, M31!NeonPackFull, M31!Fill,
           NeonExact
  <2>3. is' = [l \in 1 .. 16 |-> M31!EAdd(is[l], M31!ENeg(M31!ModP(s)))]
    BY <2>1, Zenon
       DEF M31!Neon!Becomes, M31!Neon!ESum, M31!Neon!PerLane2, M31!Neon!EverySame,
           M31!Neon!Fill, NeonExact
  <2>4. \A l \in 1 .. 16 : /\ M31!SubLane(acc[l], s) \in M31!ScalarWords
                          /\ M31!ModP(M31!SubLane(acc[l], s)) = M31!EAdd(M31!ModP(acc[l]), M31!ENeg(M31!ModP(s)))
    BY NeonSums, Zenon DEF NeonExact
  <2> QED BY <2>2, <2>3, <2>4, Zenon DEF NeonExact
<1>3. CASE M31!Neon!DoSubFrom
  <2>1. PICK s \in M31!ScalarWords :
          M31!Neon!Becomes(M31!NeonSub(M31!NeonPackFull(s), acc),
            M31!Neon!ESum(M31!Neon!EverySame(M31!ModP(s)), M31!Neon!ENegated(is)))
    BY <1>3, Zenon DEF M31!Neon!DoSubFrom
  <2>2. acc' = [l \in 1 .. 16 |-> M31!SubLane(s, acc[l])]
    BY <2>1, Zenon
       DEF M31!Neon!Becomes, M31!NeonSub, M31!PerLane2, M31!NeonPackFull, M31!Fill,
           NeonExact
  <2>3. is' = [l \in 1 .. 16 |-> M31!EAdd(M31!ModP(s), M31!ENeg(is[l]))]
    BY <2>1, Zenon
       DEF M31!Neon!Becomes, M31!Neon!ESum, M31!Neon!PerLane2, M31!Neon!EverySame,
           M31!Neon!Fill, M31!Neon!ENegated, M31!Neon!PerLane, NeonExact
  <2>4. \A l \in 1 .. 16 : /\ M31!SubLane(s, acc[l]) \in M31!ScalarWords
                          /\ M31!ModP(M31!SubLane(s, acc[l])) = M31!EAdd(M31!ModP(s), M31!ENeg(M31!ModP(acc[l])))
    BY NeonSums, Zenon DEF NeonExact
  <2> QED BY <2>2, <2>3, <2>4, Zenon DEF NeonExact
<1>4. CASE M31!Neon!DoMul
  <2>1. PICK s \in M31!ScalarWords :
          M31!Neon!Becomes(M31!NeonMul(acc, M31!NeonPackFull(s)),
            M31!Neon!EProduct(is, M31!Neon!EverySame(M31!ModP(s))))
    BY <1>4, Zenon DEF M31!Neon!DoMul
  <2>2. acc' = [l \in 1 .. 16 |-> M31!NeonMulLane(acc[l], s)]
    BY <2>1, Zenon
       DEF M31!Neon!Becomes, M31!NeonMul, M31!PerLane2, M31!NeonPackFull, M31!Fill,
           NeonExact
  <2>3. is' = [l \in 1 .. 16 |-> M31!EMul(is[l], M31!ModP(s))]
    BY <2>1, Zenon
       DEF M31!Neon!Becomes, M31!Neon!EProduct, M31!Neon!PerLane2, M31!Neon!EverySame,
           M31!Neon!Fill, NeonExact
  <2>4. \A l \in 1 .. 16 : /\ M31!NeonMulLane(acc[l], s) \in M31!ScalarWords
                          /\ M31!ModP(M31!NeonMulLane(acc[l], s)) = M31!EMul(M31!ModP(acc[l]), M31!ModP(s))
    BY NeonProducts, Zenon DEF NeonExact
  <2> QED BY <2>2, <2>3, <2>4, Zenon DEF NeonExact
<1>5. CASE M31!Neon!DoAddScalar
  <2>1. PICK s \in M31!ScalarWords :
          M31!Neon!Becomes(M31!NeonAddScalar(acc, s),
            M31!Neon!ESum(is, M31!Neon!EverySame(M31!ModP(s))))
    BY <1>5, Zenon DEF M31!Neon!DoAddScalar
  <2>2. acc' = [l \in 1 .. 16 |-> M31!AddLane(acc[l], s)]
    BY <2>1, Zenon
       DEF M31!Neon!Becomes, M31!NeonAddScalar, M31!NeonAdd, M31!PerLane2,
           M31!NeonPackFull, M31!Fill, NeonExact
  <2>3. is' = [l \in 1 .. 16 |-> M31!EAdd(is[l], M31!ModP(s))]
    BY <2>1, Zenon
       DEF M31!Neon!Becomes, M31!Neon!ESum, M31!Neon!PerLane2, M31!Neon!EverySame,
           M31!Neon!Fill, NeonExact
  <2>4. \A l \in 1 .. 16 : /\ M31!AddLane(acc[l], s) \in M31!ScalarWords
                          /\ M31!ModP(M31!AddLane(acc[l], s)) = M31!EAdd(M31!ModP(acc[l]), M31!ModP(s))
    BY NeonSums, Zenon DEF NeonExact
  <2> QED BY <2>2, <2>3, <2>4, Zenon DEF NeonExact
<1>6. CASE M31!Neon!DoMulScalar
  <2>1. PICK s \in M31!ScalarWords :
          M31!Neon!Becomes(M31!NeonMulScalar(acc, s),
            M31!Neon!EProduct(is, M31!Neon!EverySame(M31!ModP(s))))
    BY <1>6, Zenon DEF M31!Neon!DoMulScalar
  <2>2. acc' = [l \in 1 .. 16 |-> M31!NeonMulLane(acc[l], s)]
    BY <2>1, Zenon
       DEF M31!Neon!Becomes, M31!NeonMulScalar, M31!NeonMul, M31!PerLane2,
           M31!NeonPackFull, M31!Fill, NeonExact
  <2>3. is' = [l \in 1 .. 16 |-> M31!EMul(is[l], M31!ModP(s))]
    BY <2>1, Zenon
       DEF M31!Neon!Becomes, M31!Neon!EProduct, M31!Neon!PerLane2, M31!Neon!EverySame,
           M31!Neon!Fill, NeonExact
  <2>4. \A l \in 1 .. 16 : /\ M31!NeonMulLane(acc[l], s) \in M31!ScalarWords
                          /\ M31!ModP(M31!NeonMulLane(acc[l], s)) = M31!EMul(M31!ModP(acc[l]), M31!ModP(s))
    BY NeonProducts, Zenon DEF NeonExact
  <2> QED BY <2>2, <2>3, <2>4, Zenon DEF NeonExact
<1>7. CASE M31!Neon!DoNeg
  <2>1. M31!Neon!Becomes(M31!NeonNeg(acc), M31!Neon!ENegated(is))
    BY <1>7, Zenon DEF M31!Neon!DoNeg
  <2>2. acc' = [l \in 1 .. 16 |-> M31!SubLane(0, acc[l])]
    BY <2>1, Zenon
       DEF M31!Neon!Becomes, M31!NeonNeg, M31!PackedZero, M31!Fill, M31!NeonSub,
           M31!PerLane2, NeonExact
  <2>3. is' = [l \in 1 .. 16 |-> M31!ENeg(is[l])]
    BY <2>1, Zenon
       DEF M31!Neon!Becomes, M31!Neon!ENegated, M31!Neon!PerLane, NeonExact
  <2>4. \A l \in 1 .. 16 : /\ M31!SubLane(0, acc[l]) \in M31!ScalarWords
                          /\ M31!ModP(M31!SubLane(0, acc[l])) = M31!ENeg(M31!ModP(acc[l]))
    BY NeonNegations, Zenon DEF NeonExact
  <2> QED BY <2>2, <2>3, <2>4, Zenon DEF NeonExact
<1>8. CASE M31!Neon!DoDouble
  <2>1. M31!Neon!Becomes(M31!NeonDouble(acc), M31!Neon!ESum(is, is))
    BY <1>8, Zenon DEF M31!Neon!DoDouble
  <2>2. acc' = [l \in 1 .. 16 |-> M31!NeonReduce(M31!Wrap(M31!W, 2 * acc[l]))]
    BY <2>1, Zenon
       DEF M31!Neon!Becomes, M31!NeonDouble, M31!PerLane, NeonExact
  <2>3. is' = [l \in 1 .. 16 |-> M31!EAdd(is[l], is[l])]
    BY <2>1, Zenon
       DEF M31!Neon!Becomes, M31!Neon!ESum, M31!Neon!PerLane2, NeonExact
  <2>4. \A l \in 1 .. 16 : /\ M31!NeonReduce(M31!Wrap(M31!W, 2 * acc[l])) \in M31!ScalarWords
                          /\ M31!ModP(M31!NeonReduce(M31!Wrap(M31!W, 2 * acc[l]))) = M31!EAdd(M31!ModP(acc[l]), M31!ModP(acc[l]))
    BY NeonMultiples, Zenon DEF NeonExact
  <2> QED BY <2>2, <2>3, <2>4, Zenon DEF NeonExact
<1>9. CASE M31!Neon!DoSquare
  <2>1. M31!Neon!Becomes(M31!NeonSquare(acc), M31!Neon!EProduct(is, is))
    BY <1>9, Zenon DEF M31!Neon!DoSquare
  <2>2. acc' = [l \in 1 .. 16 |-> M31!NeonMulLane(acc[l], acc[l])]
    BY <2>1, Zenon
       DEF M31!Neon!Becomes, M31!NeonSquare, M31!NeonMul, M31!PerLane2, NeonExact
  <2>3. is' = [l \in 1 .. 16 |-> M31!EMul(is[l], is[l])]
    BY <2>1, Zenon
       DEF M31!Neon!Becomes, M31!Neon!EProduct, M31!Neon!PerLane2, NeonExact
  <2>4. \A l \in 1 .. 16 : /\ M31!NeonMulLane(acc[l], acc[l]) \in M31!ScalarWords
                          /\ M31!ModP(M31!NeonMulLane(acc[l], acc[l])) = M31!EMul(M31!ModP(acc[l]), M31!ModP(acc[l]))
    BY NeonProducts, Zenon DEF NeonExact
  <2> QED BY <2>2, <2>3, <2>4, Zenon DEF NeonExact
<1>10. CASE M31!Neon!DoMulBy3
  <2>1. M31!Neon!Becomes(M31!NeonMulBy3(acc), M31!Neon!ETimes(3, is))
    BY <1>10, Zenon DEF M31!Neon!DoMulBy3
  <2>2. acc' = [l \in 1 .. 16 |-> M31!AddLane(M31!AddLane(acc[l], acc[l]), acc[l])]
    BY <2>1, Zenon
       DEF M31!Neon!Becomes, M31!NeonMulBy3, M31!DefaultMulBy3, M31!NeonAdd,
           M31!PerLane2, NeonExact
  <2>3. is' = [l \in 1 .. 16 |-> M31!EMul(M31!ModP(3), is[l])]
    BY <2>1, Zenon
       DEF M31!Neon!Becomes, M31!Neon!ETimes, M31!Neon!PerLane, NeonExact
  <2>4. \A l \in 1 .. 16 : /\ M31!AddLane(M31!AddLane(acc[l], acc[l]), acc[l]) \in M31!ScalarWords
                          /\ M31!ModP(M31!AddLane(M31!AddLane(acc[l], acc[l]), acc[l])) = M31!EMul(M31!ModP(3), M31!ModP(acc[l]))
    BY NeonThrees, Zenon DEF NeonExact
  <2> QED BY <2>2, <2>3, <2>4, Zenon DEF NeonExact
<1>11. CASE M31!Neon!DoMulBy5
  <2>1. M31!Neon!Becomes(M31!NeonMulBy5(acc), M31!Neon!ETimes(5, is))
    BY <1>11, Zenon DEF M31!Neon!DoMulBy5
  <2>2. acc' = [l \in 1 .. 16 |-> M31!TimesFive(M31!NeonReduce, acc[l])]
    BY <2>1, Zenon
       DEF M31!Neon!Becomes, M31!NeonMulBy5, M31!PerLane, NeonExact
  <2>3. is' = [l \in 1 .. 16 |-> M31!EMul(M31!ModP(5), is[l])]
    BY <2>1, Zenon
       DEF M31!Neon!Becomes, M31!Neon!ETimes, M31!Neon!PerLane, NeonExact
  <2>4. \A l \in 1 .. 16 : /\ M31!TimesFive(M31!NeonReduce, acc[l]) \in M31!ScalarWords
                          /\ M31!ModP(M31!TimesFive(M31!NeonReduce, acc[l])) = M31!EMul(M31!ModP(5), M31!ModP(acc[l]))
    BY NeonMultiples, Zenon DEF NeonExact
  <2> QED BY <2>2, <2>3, <2>4, Zenon DEF NeonExact
<1>12. CASE M31!Neon!DoMulBy6
  <2>1. M31!Neon!Becomes(M31!NeonMulBy6(acc), M31!Neon!ETimes(6, is))
    BY <1>12, Zenon DEF M31!Neon!DoMulBy6
  <2>2. acc' = [l \in 1 .. 16 |-> M31!AddLane(M31!AddLane(M31!AddLane(acc[l], acc[l]), acc[l]), M31!AddLane(M31!AddLane(acc[l], acc[l]), acc[l]))]
    BY <2>1, Zenon
       DEF M31!Neon!Becomes, M31!NeonMulBy6, M31!DefaultMulBy6, M31!NeonMulBy3,
           M31!DefaultMulBy3, M31!NeonAdd, M31!PerLane2, NeonExact
  <2>3. is' = [l \in 1 .. 16 |-> M31!EMul(M31!ModP(6), is[l])]
    BY <2>1, Zenon
       DEF M31!Neon!Becomes, M31!Neon!ETimes, M31!Neon!PerLane, NeonExact
  <2>4. \A l \in 1 .. 16 : /\ M31!AddLane(M31!AddLane(M31!AddLane(acc[l], acc[l]), acc[l]), M31!AddLane(M31!AddLane(acc[l], acc[l]), acc[l])) \in M31!ScalarWords
                          /\ M31!ModP(M31!AddLane(M31!AddLane(M31!AddLane(acc[l], acc[l]), acc[l]), M31!AddLane(M31!AddLane(acc[l], acc[l]), acc[l]))) = M31!EMul(M31!ModP(6), M31!ModP(acc[l]))
    <3>1. \A l \in 1 .. 16 : /\ M31!AddLane(M31!AddLane(acc[l], acc[l]), acc[l]) \in M31!ScalarWords
                            /\ M31!ModP(M31!AddLane(M31!AddLane(acc[l], acc[l]), acc[l])) = M31!EMul(M31!ModP(3), M31!ModP(acc[l]))
      BY NeonThrees, Zenon DEF NeonExact
    <3>2. \A l \in 1 .. 16 : /\ M31!AddLane(M31!AddLane(M31!AddLane(acc[l], acc[l]), acc[l]), M31!AddLane(M31!AddLane(acc[l], acc[l]), acc[l])) \in M31!ScalarWords
                            /\ M31!ModP(M31!AddLane(M31!AddLane(M31!AddLane(acc[l], acc[l]), acc[l]), M31!AddLane(M31!AddLane(acc[l], acc[l]), acc[l]))) = M31!EAdd(M31!EMul(M31!ModP(3), M31!ModP(acc[l])),
                    M31!EMul(M31!ModP(3), M31!ModP(acc[l])))
      BY <3>1, NeonSums, Zenon
    <3> QED BY <3>2, MultiplesBySums, ScalarWordsReduced, Zenon DEF NeonExact
  <2> QED BY <2>2, <2>3, <2>4, Zenon DEF NeonExact
<1>13. CASE M31!Neon!DoPack
  <2>1. PICK s \in M31!PackedSeeds, here \in SUBSET (1 .. 16) :
          M31!Neon!Becomes([l \in 1 .. 16 |-> IF l \in here THEN s ELSE acc[1]],
            [l \in 1 .. 16 |-> IF l \in here THEN M31!ModP(s) ELSE is[1]])
    <3>1. {l \in 1 .. 16 : l % 2 = 1} \in SUBSET (1 .. 16) /\ 1 .. (16 + 1) \div 2 \in SUBSET (1 .. 16)
      BY SMT
    <3> QED BY <1>13, <3>1, Zenon DEF M31!Neon!DoPack, M31!NeonPack, M31!NeonUnpack
  <2>2. s \in M31!ScalarWords /\ 1 \in 1 .. 16
    BY SeedsAre, ScalarWordsReduced, SMT
  <2> QED BY <2>1, <2>2, Zenon DEF M31!Neon!Becomes, NeonExact
<1>14. CASE M31!Neon!DoStoreAndLoad
  <2> QED BY <1>14, Zenon DEF M31!Neon!DoStoreAndLoad, M31!Neon!Becomes, M31!NeonDeserialize,
             M31!NeonSerialize, NeonExact
<1>15. CASE M31!Neon!DoFrom
  <2>1. PICK w \in M31!Word : M31!Neon!Becomes(M31!NeonFrom(w), M31!Neon!EverySame(M31!ModP(w)))
    BY <1>15, Zenon DEF M31!Neon!DoFrom
  <2> QED BY <2>1, RawWords, ScalarWordsReduced, Zenon
          DEF M31!Neon!Becomes, M31!NeonFrom, M31!NeonPackFull, M31!Fill, M31!Neon!EverySame, M31!Neon!Fill, NeonExact
<1>16. CASE M31!Neon!DoFromUniformBytes
  <2>1. PICK w \in M31!Word :
          /\ ~M31!Neon!Avoided("from_uniform_bytes", M31!NeonFromUniformBytes(w), acc)
          /\ M31!Neon!Becomes(M31!NeonFromUniformBytes(w), M31!Neon!Value(M31!NeonFromUniformBytes(w)))
    BY <1>16, Zenon DEF M31!Neon!DoFromUniformBytes
  <2>2. M31!M31FromUniformBytes(w) # M31!MOD + 1
    <3>1. 1 \in 1 .. 16
      BY SMT
    <3> QED BY <2>1, <3>1, Zenon
            DEF M31!Neon!Avoided, M31!SumTooWide, M31!TopWord, M31!NeonFromUniformBytes, M31!Fill
  <2> QED BY <2>1, <2>2, RawWords, ScalarWordsReduced, Zenon
          DEF M31!Neon!Becomes, M31!Neon!Value, M31!Neon!PerLane, M31!NeonUnpack, M31!NeonFromUniformBytes,
              M31!Fill, NeonExact
<1>17. CASE M31!Neon!DoRandomUnsafe
  <2>1. PICK w \in M31!Word :
          M31!Neon!Becomes(M31!NeonRandomUnsafe(w), M31!Neon!Value(M31!NeonRandomUnsafe(w)))
    BY <1>17, Zenon DEF M31!Neon!DoRandomUnsafe
  <2> QED BY <2>1, RawWords, Zenon
          DEF M31!Neon!Becomes, M31!Neon!Value, M31!Neon!PerLane, M31!NeonUnpack, M31!NeonRandomUnsafe,
              M31!Fill, NeonExact
<1>18. CASE M31!Neon!DoRandomBool
  <2>1. PICK bits \in [1 .. 16 -> {0, 1}] :
          M31!Neon!Becomes(M31!NeonRandomBool(bits), M31!Neon!PerLane(M31!ModP, bits))
    <3>1. /\ [l \in 1 .. 16 |-> 1] \in [1 .. 16 -> {0, 1}]
          /\ [l \in 1 .. 16 |-> l % 2] \in [1 .. 16 -> {0, 1}]
      BY SMT
    <3> QED BY <1>18, <3>1, Zenon DEF M31!Neon!DoRandomBool, M31!Neon!Fill
  <2>2. \A l \in 1 .. 16 : bits[l] \in M31!ScalarWords
    BY <2>1, BitsAre, ScalarWordsReduced, Zenon
  <2> QED BY <2>1, <2>2, Zenon
          DEF M31!Neon!Becomes, M31!Neon!PerLane, M31!NeonRandomBool, NeonExact
<1> QED BY <1>1, <1>2, <1>3, <1>4, <1>5, <1>6, <1>7, <1>8, <1>9, <1>10, <1>11, <1>12, <1>13, <1>14, <1>15, <1>16, <1>17, <1>18,
          Zenon DEF M31!Neon!Arithmetic

-----------------------------------------------------------------------------
(* The scalar type as a machine, of one lane.                              *)

ScalarExact ==
  /\ acc \in M31!ScalarWords
  /\ is = [l \in 1 .. 1 |-> M31!ModP(acc)]

LEMMA OneLane == \A a : M31!Scalar!Value(a) = [l \in 1 .. 1 |-> M31!ModP(a)]
<1> SUFFICES ASSUME NEW a
             PROVE  [l \in DOMAIN <<a>> |-> M31!ModP(<<a>>[l])] = [l \in 1 .. 1 |-> M31!ModP(a)]
  BY Zenon DEF M31!Scalar!Value, M31!Scalar!PerLane, M31!ScalarUnpack
<1>1. DOMAIN <<a>> = 1 .. 1 /\ \A l \in 1 .. 1 : <<a>>[l] = a
  BY SMT
<1> QED BY <1>1, Zenon

LEMMA ScalarStep ==
  ASSUME ScalarExact, M31!Scalar!Arithmetic
  PROVE  ScalarExact'
<1>1. CASE M31!Scalar!DoAdd
  <2>1. PICK s \in M31!ScalarWords :
          M31!Scalar!Becomes(M31!M31Add(acc, M31!ScalarPackFull(s)),
            M31!Scalar!ESum(is, M31!Scalar!EverySame(M31!ModP(s))))
    BY <1>1, Zenon DEF M31!Scalar!DoAdd
  <2>2. acc' = M31!M31Add(acc, s) /\ is' = [l \in 1 .. 1 |-> M31!EAdd(M31!ModP(acc), M31!ModP(s))]
    BY <2>1, Zenon
       DEF M31!Scalar!Becomes, M31!ScalarPackFull, M31!Scalar!ESum,
           M31!Scalar!PerLane2, M31!Scalar!EverySame, M31!Scalar!Fill, ScalarExact
  <2>3. M31!M31Add(acc, s) \in M31!ScalarWords /\ M31!ModP(M31!M31Add(acc, s)) = M31!EAdd(M31!ModP(acc), M31!ModP(s))
    BY ScalarLanes, Zenon DEF ScalarExact
  <2> QED BY <2>2, <2>3, Zenon DEF ScalarExact
<1>2. CASE M31!Scalar!DoSub
  <2>1. PICK s \in M31!ScalarWords :
          M31!Scalar!Becomes(M31!M31Sub(acc, M31!ScalarPackFull(s)),
            M31!Scalar!ESum(is, M31!Scalar!EverySame(M31!ENeg(M31!ModP(s)))))
    BY <1>2, Zenon DEF M31!Scalar!DoSub
  <2>2. acc' = M31!M31Sub(acc, s) /\ is' = [l \in 1 .. 1 |-> M31!EAdd(M31!ModP(acc), M31!ENeg(M31!ModP(s)))]
    BY <2>1, Zenon
       DEF M31!Scalar!Becomes, M31!ScalarPackFull, M31!Scalar!ESum,
           M31!Scalar!PerLane2, M31!Scalar!EverySame, M31!Scalar!Fill, ScalarExact
  <2>3. M31!M31Sub(acc, s) \in M31!ScalarWords /\ M31!ModP(M31!M31Sub(acc, s)) = M31!EAdd(M31!ModP(acc), M31!ENeg(M31!ModP(s)))
    BY ScalarLanes, Zenon DEF ScalarExact
  <2> QED BY <2>2, <2>3, Zenon DEF ScalarExact
<1>3. CASE M31!Scalar!DoSubFrom
  <2>1. PICK s \in M31!ScalarWords :
          M31!Scalar!Becomes(M31!M31Sub(M31!ScalarPackFull(s), acc),
            M31!Scalar!ESum(M31!Scalar!EverySame(M31!ModP(s)), M31!Scalar!ENegated(is)))
    BY <1>3, Zenon DEF M31!Scalar!DoSubFrom
  <2>2. acc' = M31!M31Sub(s, acc) /\ is' = [l \in 1 .. 1 |-> M31!EAdd(M31!ModP(s), M31!ENeg(M31!ModP(acc)))]
    BY <2>1, Zenon
       DEF M31!Scalar!Becomes, M31!ScalarPackFull, M31!Scalar!ESum,
           M31!Scalar!PerLane2, M31!Scalar!EverySame, M31!Scalar!Fill,
           M31!Scalar!ENegated, M31!Scalar!PerLane, ScalarExact
  <2>3. M31!M31Sub(s, acc) \in M31!ScalarWords /\ M31!ModP(M31!M31Sub(s, acc)) = M31!EAdd(M31!ModP(s), M31!ENeg(M31!ModP(acc)))
    BY ScalarLanes, Zenon DEF ScalarExact
  <2> QED BY <2>2, <2>3, Zenon DEF ScalarExact
<1>4. CASE M31!Scalar!DoMul
  <2>1. PICK s \in M31!ScalarWords :
          M31!Scalar!Becomes(M31!M31Mul(acc, M31!ScalarPackFull(s)),
            M31!Scalar!EProduct(is, M31!Scalar!EverySame(M31!ModP(s))))
    BY <1>4, Zenon DEF M31!Scalar!DoMul
  <2>2. acc' = M31!M31Mul(acc, s) /\ is' = [l \in 1 .. 1 |-> M31!EMul(M31!ModP(acc), M31!ModP(s))]
    BY <2>1, Zenon
       DEF M31!Scalar!Becomes, M31!ScalarPackFull, M31!Scalar!EProduct,
           M31!Scalar!PerLane2, M31!Scalar!EverySame, M31!Scalar!Fill, ScalarExact
  <2>3. M31!M31Mul(acc, s) \in M31!ScalarWords /\ M31!ModP(M31!M31Mul(acc, s)) = M31!EMul(M31!ModP(acc), M31!ModP(s))
    BY ScalarLanes, Zenon DEF ScalarExact
  <2> QED BY <2>2, <2>3, Zenon DEF ScalarExact
<1>5. CASE M31!Scalar!DoAddScalar
  <2>1. PICK s \in M31!ScalarWords :
          M31!Scalar!Becomes(M31!M31Add(acc, s),
            M31!Scalar!ESum(is, M31!Scalar!EverySame(M31!ModP(s))))
    BY <1>5, Zenon DEF M31!Scalar!DoAddScalar
  <2>2. acc' = M31!M31Add(acc, s) /\ is' = [l \in 1 .. 1 |-> M31!EAdd(M31!ModP(acc), M31!ModP(s))]
    BY <2>1, Zenon
       DEF M31!Scalar!Becomes, M31!Scalar!ESum, M31!Scalar!PerLane2,
           M31!Scalar!EverySame, M31!Scalar!Fill, ScalarExact
  <2>3. M31!M31Add(acc, s) \in M31!ScalarWords /\ M31!ModP(M31!M31Add(acc, s)) = M31!EAdd(M31!ModP(acc), M31!ModP(s))
    BY ScalarLanes, Zenon DEF ScalarExact
  <2> QED BY <2>2, <2>3, Zenon DEF ScalarExact
<1>6. CASE M31!Scalar!DoMulScalar
  <2>1. PICK s \in M31!ScalarWords :
          M31!Scalar!Becomes(M31!M31Mul(acc, s),
            M31!Scalar!EProduct(is, M31!Scalar!EverySame(M31!ModP(s))))
    BY <1>6, Zenon DEF M31!Scalar!DoMulScalar
  <2>2. acc' = M31!M31Mul(acc, s) /\ is' = [l \in 1 .. 1 |-> M31!EMul(M31!ModP(acc), M31!ModP(s))]
    BY <2>1, Zenon
       DEF M31!Scalar!Becomes, M31!Scalar!EProduct, M31!Scalar!PerLane2,
           M31!Scalar!EverySame, M31!Scalar!Fill, ScalarExact
  <2>3. M31!M31Mul(acc, s) \in M31!ScalarWords /\ M31!ModP(M31!M31Mul(acc, s)) = M31!EMul(M31!ModP(acc), M31!ModP(s))
    BY ScalarLanes, Zenon DEF ScalarExact
  <2> QED BY <2>2, <2>3, Zenon DEF ScalarExact
<1>7. CASE M31!Scalar!DoNeg
  <2>1. M31!Scalar!Becomes(M31!M31Neg(acc), M31!Scalar!ENegated(is))
    BY <1>7, Zenon DEF M31!Scalar!DoNeg
  <2>2. acc' = M31!M31Neg(acc) /\ is' = [l \in 1 .. 1 |-> M31!ENeg(M31!ModP(acc))]
    BY <2>1, Zenon
       DEF M31!Scalar!Becomes, M31!Scalar!ENegated, M31!Scalar!PerLane, ScalarExact
  <2>3. M31!M31Neg(acc) \in M31!ScalarWords /\ M31!ModP(M31!M31Neg(acc)) = M31!ENeg(M31!ModP(acc))
    BY ScalarLanes, Zenon DEF ScalarExact
  <2> QED BY <2>2, <2>3, Zenon DEF ScalarExact
<1>8. CASE M31!Scalar!DoDouble
  <2>1. M31!Scalar!Becomes(M31!M31Double(acc), M31!Scalar!ESum(is, is))
    BY <1>8, Zenon DEF M31!Scalar!DoDouble
  <2>2. acc' = M31!M31Add(acc, acc) /\ is' = [l \in 1 .. 1 |-> M31!EAdd(M31!ModP(acc), M31!ModP(acc))]
    BY <2>1, Zenon
       DEF M31!Scalar!Becomes, M31!M31Double, M31!Scalar!ESum, M31!Scalar!PerLane2,
           ScalarExact
  <2>3. M31!M31Add(acc, acc) \in M31!ScalarWords /\ M31!ModP(M31!M31Add(acc, acc)) = M31!EAdd(M31!ModP(acc), M31!ModP(acc))
    BY ScalarLanes, Zenon DEF ScalarExact
  <2> QED BY <2>2, <2>3, Zenon DEF ScalarExact
<1>9. CASE M31!Scalar!DoSquare
  <2>1. M31!Scalar!Becomes(M31!M31Square(acc), M31!Scalar!EProduct(is, is))
    BY <1>9, Zenon DEF M31!Scalar!DoSquare
  <2>2. acc' = M31!M31Mul(acc, acc) /\ is' = [l \in 1 .. 1 |-> M31!EMul(M31!ModP(acc), M31!ModP(acc))]
    BY <2>1, Zenon
       DEF M31!Scalar!Becomes, M31!M31Square, M31!Scalar!EProduct, M31!Scalar!PerLane2,
           ScalarExact
  <2>3. M31!M31Mul(acc, acc) \in M31!ScalarWords /\ M31!ModP(M31!M31Mul(acc, acc)) = M31!EMul(M31!ModP(acc), M31!ModP(acc))
    BY ScalarLanes, Zenon DEF ScalarExact
  <2> QED BY <2>2, <2>3, Zenon DEF ScalarExact
<1>10. CASE M31!Scalar!DoMulBy3
  <2>1. M31!Scalar!Becomes(M31!M31MulBy3(acc), M31!Scalar!ETimes(3, is))
    BY <1>10, Zenon DEF M31!Scalar!DoMulBy3
  <2>2. acc' = M31!M31MulBy3(acc) /\ is' = [l \in 1 .. 1 |-> M31!EMul(M31!ModP(3), M31!ModP(acc))]
    BY <2>1, Zenon
       DEF M31!Scalar!Becomes, M31!Scalar!ETimes, M31!Scalar!PerLane, ScalarExact
  <2>3. M31!M31MulBy3(acc) \in M31!ScalarWords /\ M31!ModP(M31!M31MulBy3(acc)) = M31!EMul(M31!ModP(3), M31!ModP(acc))
    BY ScalarMultiples, Zenon DEF ScalarExact
  <2> QED BY <2>2, <2>3, Zenon DEF ScalarExact
<1>11. CASE M31!Scalar!DoMulBy5
  <2>1. M31!Scalar!Becomes(M31!M31MulBy5(acc), M31!Scalar!ETimes(5, is))
    BY <1>11, Zenon DEF M31!Scalar!DoMulBy5
  <2>2. acc' = M31!M31MulBy5(acc) /\ is' = [l \in 1 .. 1 |-> M31!EMul(M31!ModP(5), M31!ModP(acc))]
    BY <2>1, Zenon
       DEF M31!Scalar!Becomes, M31!Scalar!ETimes, M31!Scalar!PerLane, ScalarExact
  <2>3. M31!M31MulBy5(acc) \in M31!ScalarWords /\ M31!ModP(M31!M31MulBy5(acc)) = M31!EMul(M31!ModP(5), M31!ModP(acc))
    BY ScalarMultiples, Zenon DEF ScalarExact
  <2> QED BY <2>2, <2>3, Zenon DEF ScalarExact
<1>12. CASE M31!Scalar!DoMulBy6
  <2>1. M31!Scalar!Becomes(M31!M31MulBy6(acc), M31!Scalar!ETimes(6, is))
    BY <1>12, Zenon DEF M31!Scalar!DoMulBy6
  <2>2. acc' = M31!M31MulBy6(acc) /\ is' = [l \in 1 .. 1 |-> M31!EMul(M31!ModP(6), M31!ModP(acc))]
    BY <2>1, Zenon
       DEF M31!Scalar!Becomes, M31!Scalar!ETimes, M31!Scalar!PerLane, ScalarExact
  <2>3. M31!M31MulBy6(acc) \in M31!ScalarWords /\ M31!ModP(M31!M31MulBy6(acc)) = M31!EMul(M31!ModP(6), M31!ModP(acc))
    BY ScalarMultiples, Zenon DEF ScalarExact
  <2> QED BY <2>2, <2>3, Zenon DEF ScalarExact
<1>13. CASE M31!Scalar!DoPack
  <2>1. PICK s \in M31!PackedSeeds, here \in SUBSET (1 .. 1) :
          M31!Scalar!Becomes([l \in 1 .. 1 |-> IF l \in here THEN s ELSE <<acc>>[1]][1],
            [l \in 1 .. 1 |-> IF l \in here THEN M31!ModP(s) ELSE is[1]])
    <3>1. {l \in 1 .. 1 : l % 2 = 1} \in SUBSET (1 .. 1) /\ 1 .. (1 + 1) \div 2 \in SUBSET (1 .. 1)
      BY SMT
    <3> QED BY <1>13, <3>1, Zenon DEF M31!Scalar!DoPack, M31!ScalarPack, M31!ScalarUnpack
  <2>2. 1 \in 1 .. 1 /\ \A l \in 1 .. 1 : l = 1
    BY SMT
  <2>3. s \in M31!ScalarWords /\ <<acc>>[1] = acc
    BY SeedsAre
  <2> QED BY <2>1, <2>2, <2>3, Zenon DEF M31!Scalar!Becomes, ScalarExact
<1>14. CASE M31!Scalar!DoStoreAndLoad
  <2> QED BY <1>14, ComparedWords, Zenon
          DEF M31!Scalar!DoStoreAndLoad, M31!Scalar!Becomes, M31!M31Deserialize, M31!M31Serialize,
              ScalarExact
<1>15. CASE M31!Scalar!DoFrom
  <2>1. PICK w \in M31!Word : M31!Scalar!Becomes(M31!M31From(w), M31!Scalar!EverySame(M31!ModP(w)))
    BY <1>15, Zenon DEF M31!Scalar!DoFrom
  <2> QED BY <2>1, RawWords, Zenon
          DEF M31!Scalar!Becomes, M31!Scalar!EverySame, M31!Scalar!Fill, ScalarExact
<1>16. CASE M31!Scalar!DoFromUniformBytes
  <2>1. PICK w \in M31!Word :
          /\ ~M31!Scalar!Avoided("from_uniform_bytes", M31!M31FromUniformBytes(w), acc)
          /\ M31!Scalar!Becomes(M31!M31FromUniformBytes(w), M31!Scalar!Value(M31!M31FromUniformBytes(w)))
    BY <1>16, Zenon DEF M31!Scalar!DoFromUniformBytes
  <2>2. M31!M31FromUniformBytes(w) # M31!MOD + 1
    BY <2>1, Zenon DEF M31!Scalar!Avoided, M31!TopWord
  <2> QED BY <2>1, <2>2, RawWords, OneLane, Zenon DEF M31!Scalar!Becomes, ScalarExact
<1>17. CASE M31!Scalar!DoRandomUnsafe
  <2>1. PICK w \in M31!Word :
          M31!Scalar!Becomes(M31!M31RandomUnsafe(w), M31!Scalar!Value(M31!M31RandomUnsafe(w)))
    BY <1>17, Zenon DEF M31!Scalar!DoRandomUnsafe
  <2> QED BY <2>1, RawWords, OneLane, Zenon
          DEF M31!Scalar!Becomes, M31!M31RandomUnsafe, ScalarExact
<1>18. CASE M31!Scalar!DoRandomBool
  <2>1. M31!Scalar!Becomes(1, [l \in 1 .. 1 |-> M31!ModP(1)])
    <3>1. PICK bits \in {[l \in 1 .. 1 |-> 1], [l \in 1 .. 1 |-> l % 2]} :
            M31!Scalar!Becomes(bits[1] % 2, M31!Scalar!PerLane(M31!ModP, bits))
      BY <1>18, Zenon DEF M31!Scalar!DoRandomBool, M31!Scalar!Fill, M31!M31RandomBool
    <3>2. bits = [l \in 1 .. 1 |-> 1] /\ bits[1] % 2 = 1
      BY SMT
    <3> QED BY <3>1, <3>2, Zenon DEF M31!Scalar!PerLane
  <2> QED BY <2>1, BitsAre, Zenon DEF M31!Scalar!Becomes, ScalarExact
<1> QED BY <1>1, <1>2, <1>3, <1>4, <1>5, <1>6, <1>7, <1>8, <1>9, <1>10, <1>11, <1>12, <1>13,
           <1>14, <1>15, <1>16, <1>17, <1>18, Zenon DEF M31!Scalar!Arithmetic

-----------------------------------------------------------------------------
(* What the invariant says of a type, in the terms of its machine.         *)

LEMMA Avx256Means ==
  ASSUME AvxExact
  PROVE  /\ M31!Avx256!ValueIsExact /\ M31!Avx256!WordsInRange
         /\ M31!Avx256!ComparisonsAreExact /\ M31!Avx256!BytesSurviveTheProof
<1>1. M31!Avx256!ValueIsExact
  BY Zenon DEF M31!Avx256!ValueIsExact, M31!Avx256!Value, M31!Avx256!PerLane, M31!Avx256Unpack, AvxExact
<1>2. M31!Avx256!WordsInRange
  BY Zenon DEF M31!Avx256!WordsInRange, M31!Avx256!AllLanes, M31!Avx256Unpack, M31!InAvxWords, AvxExact
<1>3. M31!Avx256IsZero(acc) <=> \A l \in 1 .. 16 : is[l] = M31!ModP(0)
  BY ComparedWords, Zenon DEF M31!Avx256IsZero, M31!AllLanes, M31!M31IsZero, AvxExact
<1>4. \A s \in M31!AvxWords : ~M31!Avx256!Avoided("eq", acc, M31!Avx256PackFull(s)) =>
        (M31!Avx256Eq(acc, M31!Avx256PackFull(s)) <=> \A l \in 1 .. 16 : is[l] = M31!ModP(s))
  <2> SUFFICES ASSUME NEW s \in M31!AvxWords,
                      ~M31!Avx256!Avoided("eq", acc, M31!Avx256PackFull(s))
               PROVE  M31!Avx256Eq(acc, M31!Avx256PackFull(s)) <=> \A l \in 1 .. 16 : is[l] = M31!ModP(s)
    BY Zenon
  <2>1. \A l \in 1 .. 16 : {acc[l], s} # {0, M31!MOD}
    BY Zenon DEF M31!Avx256!Avoided, M31!WrongWithAvx256, M31!Avx256PackFull, M31!Fill, AvxExact
  <2>2. M31!Avx256Eq(acc, M31!Avx256PackFull(s)) <=> \A l \in 1 .. 16 : acc[l] = s
    BY ReducedWords, Zenon DEF M31!Avx256Eq, M31!PerLane, M31!Avx256PackFull, M31!Fill, AvxExact
  <2>3. \A l \in 1 .. 16 : acc[l] = s <=> M31!ModP(acc[l]) = M31!ModP(s)
    BY <2>1, ComparedWords, Zenon DEF AvxExact
  <2> QED BY <2>2, <2>3, Zenon DEF AvxExact
<1>5. M31!Avx256!BytesSurviveTheProof
  BY ReducedWords, Zenon DEF M31!Avx256!BytesSurviveTheProof, M31!Avx256Serialize,
     M31!Avx256Deserialize, M31!PerLane, AvxExact
<1> QED BY <1>1, <1>2, <1>3, <1>4, <1>5, Zenon DEF M31!Avx256!ComparisonsAreExact

LEMMA Avx512Means ==
  ASSUME AvxExact
  PROVE  /\ M31!Avx512!ValueIsExact /\ M31!Avx512!WordsInRange
         /\ M31!Avx512!ComparisonsAreExact /\ M31!Avx512!BytesSurviveTheProof
<1>1. M31!Avx512!ValueIsExact
  BY Zenon DEF M31!Avx512!ValueIsExact, M31!Avx512!Value, M31!Avx512!PerLane, M31!Avx512Unpack, AvxExact
<1>2. M31!Avx512!WordsInRange
  BY Zenon DEF M31!Avx512!WordsInRange, M31!Avx512!AllLanes, M31!Avx512Unpack, M31!InAvxWords, AvxExact
<1>3. M31!Avx512IsZero(acc) <=> \A l \in 1 .. 16 : is[l] = M31!ModP(0)
  BY ComparedWords, Zenon DEF M31!Avx512IsZero, M31!AllLanes, M31!M31IsZero, AvxExact
<1>4. \A s \in M31!AvxWords :
        M31!Avx512Eq(acc, M31!Avx512PackFull(s)) <=> \A l \in 1 .. 16 : is[l] = M31!ModP(s)
  BY ReducedWords, Zenon DEF M31!Avx512Eq, M31!PerLane, M31!Avx512PackFull, M31!Fill, AvxExact
<1>5. M31!Avx512!BytesSurviveTheProof
  <2>1. \A x \in M31!AvxWords : M31!Avx512Reduce(M31!Avx512Reduce(M31!Avx512Reduce(x))) = M31!Avx512Reduce(x)
    BY ReducedWords, ScalarWordsReduced, Zenon
  <2> QED BY <2>1, Zenon DEF M31!Avx512!BytesSurviveTheProof, M31!Avx512Serialize,
             M31!Avx512Deserialize, M31!PerLane, AvxExact
<1> QED BY <1>1, <1>2, <1>3, <1>4, <1>5, Zenon DEF M31!Avx512!ComparisonsAreExact

LEMMA NeonMeans ==
  ASSUME NeonExact
  PROVE  /\ M31!Neon!ValueIsExact /\ M31!Neon!WordsInRange
         /\ M31!Neon!ComparisonsAreExact /\ M31!Neon!BytesSurviveTheProof
<1>1. M31!Neon!ValueIsExact
  BY Zenon DEF M31!Neon!ValueIsExact, M31!Neon!Value, M31!Neon!PerLane, M31!NeonUnpack, NeonExact
<1>2. M31!Neon!WordsInRange
  BY Zenon DEF M31!Neon!WordsInRange, M31!Neon!AllLanes, M31!NeonUnpack, M31!InScalarWords, NeonExact
<1>3. M31!NeonIsZero(acc) <=> \A l \in 1 .. 16 : is[l] = M31!ModP(0)
  BY ComparedWords, Zenon DEF M31!NeonIsZero, M31!AllLanes, NeonExact
<1>4. \A s \in M31!ScalarWords :
        M31!NeonEq(acc, M31!NeonPackFull(s)) <=> \A l \in 1 .. 16 : is[l] = M31!ModP(s)
  <2> SUFFICES ASSUME NEW s \in M31!ScalarWords
               PROVE  M31!NeonEq(acc, M31!NeonPackFull(s)) <=> \A l \in 1 .. 16 : is[l] = M31!ModP(s)
    BY Zenon
  <2>1. M31!NeonEq(acc, M31!NeonPackFull(s)) <=> \A l \in 1 .. 16 : acc[l] = s
    BY ReducedWords, Zenon DEF M31!NeonEq, M31!PerLane, M31!NeonPackFull, M31!Fill, NeonExact
  <2>2. \A l \in 1 .. 16 : acc[l] = s <=> M31!ModP(acc[l]) = M31!ModP(s)
    BY ScalarWordsReduced, Zenon DEF NeonExact
  <2> QED BY <2>1, <2>2, Zenon DEF NeonExact
<1>5. M31!Neon!BytesSurviveTheProof
  BY Zenon DEF M31!Neon!BytesSurviveTheProof, M31!NeonSerialize, M31!NeonDeserialize
<1> QED BY <1>1, <1>2, <1>3, <1>4, <1>5, Zenon DEF M31!Neon!ComparisonsAreExact

LEMMA ScalarMeans ==
  ASSUME ScalarExact
  PROVE  /\ M31!Scalar!ValueIsExact /\ M31!Scalar!WordsInRange
         /\ M31!Scalar!ComparisonsAreExact /\ M31!Scalar!BytesSurviveTheProof
<1>0. 1 \in 1 .. 1 /\ \A l \in 1 .. 1 : l = 1
  BY SMT
<1>1. M31!Scalar!ValueIsExact
  BY OneLane, Zenon DEF M31!Scalar!ValueIsExact, ScalarExact
<1>2. M31!Scalar!WordsInRange
  <2>1. \A l \in DOMAIN <<acc>> : <<acc>>[l] = acc
    BY SMT
  <2> QED BY <2>1, Zenon DEF M31!Scalar!WordsInRange, M31!Scalar!AllLanes, M31!ScalarUnpack,
             M31!InScalarWords, ScalarExact
<1>3. M31!M31IsZero(acc) <=> \A l \in 1 .. 1 : is[l] = M31!ModP(0)
  BY <1>0, ComparedWords, ScalarWordsReduced, Zenon DEF M31!M31IsZero, ScalarExact
<1>4. \A s \in M31!ScalarWords :
        M31!M31Eq(acc, M31!ScalarPackFull(s)) <=> \A l \in 1 .. 1 : is[l] = M31!ModP(s)
  <2> SUFFICES ASSUME NEW s \in M31!ScalarWords
               PROVE  M31!M31Eq(acc, M31!ScalarPackFull(s)) <=> \A l \in 1 .. 1 : is[l] = M31!ModP(s)
    OBVIOUS
  <2>1. M31!ModReduceU32Safe(acc) = acc /\ M31!ModReduceU32Safe(s) = s
    BY ComparedWords, Zenon DEF ScalarExact
  <2>2. M31!ModP(acc) = acc /\ M31!ModP(s) = s
    BY ScalarWordsReduced, Zenon DEF ScalarExact
  <2>3. \A l \in 1 .. 1 : is[l] = M31!ModP(acc)
    BY Zenon DEF ScalarExact
  <2>4. (\A l \in 1 .. 1 : is[l] = M31!ModP(s)) <=> M31!ModP(acc) = M31!ModP(s)
    <3>1. 1 \in 1 .. 1
      BY SMT
    <3>2. is[1] = M31!ModP(acc)
      BY <2>3, <3>1, Zenon
    <3>3. ASSUME \A l \in 1 .. 1 : is[l] = M31!ModP(s)
          PROVE  M31!ModP(acc) = M31!ModP(s)
      <4>1. is[1] = M31!ModP(s)
        BY <3>1, <3>3, Zenon
      <4> QED BY <3>2, <4>1, Zenon
    <3>4. ASSUME M31!ModP(acc) = M31!ModP(s), NEW l \in 1 .. 1
          PROVE  is[l] = M31!ModP(s)
      <4>1. is[l] = M31!ModP(acc)
        BY <2>3, Zenon
      <4> QED BY <3>4, <4>1, Zenon
    <3> QED BY <3>3, <3>4, Zenon
  <2>5. M31!M31Eq(acc, M31!ScalarPackFull(s)) <=> acc = s
    BY <2>1, Zenon DEF M31!M31Eq, M31!ScalarPackFull
  <2> QED BY <2>2, <2>4, <2>5, Zenon
<1>5. M31!Scalar!BytesSurviveTheProof
  BY ComparedWords, Zenon DEF M31!Scalar!BytesSurviveTheProof, M31!M31Serialize,
     M31!M31Deserialize, ScalarExact
<1> QED BY <1>1, <1>2, <1>3, <1>4, <1>5, Zenon DEF M31!Scalar!ComparisonsAreExact

-----------------------------------------------------------------------------
(* The theorems: one per type, about every program that does not raise to  *)
(* a power, invert or sum the lanes.                                       *)

vars == <<kind, acc, is, steps>>

(* M31: a program over the scalar type computes in the field of 2^31 - 1   *)
(* elements, on words below the modulus; == and is_zero see elements, and  *)
(* the bytes of a value are read back as they were written.                *)
THEOREM ScalarProgramsAreExact ==
  /\ M31!Scalar!Init
  /\ [][M31!Scalar!Running /\ M31!Scalar!Arithmetic]_vars
  => [](/\ M31!Scalar!ValueIsExact /\ M31!Scalar!WordsInRange
        /\ M31!Scalar!ComparisonsAreExact /\ M31!Scalar!BytesSurviveTheProof)
<1>1. M31!Scalar!Init => ScalarExact
  BY BitsAre, Zenon DEF M31!Scalar!Init, M31!Scalar!EverySame, M31!Scalar!Fill, ScalarExact
<1>2. ScalarExact /\ [M31!Scalar!Running /\ M31!Scalar!Arithmetic]_vars => ScalarExact'
  <2> SUFFICES ASSUME ScalarExact, [M31!Scalar!Running /\ M31!Scalar!Arithmetic]_vars PROVE ScalarExact'
    OBVIOUS
  <2>1. CASE UNCHANGED vars
    BY <2>1, Zenon DEF vars, ScalarExact
  <2>2. CASE M31!Scalar!Arithmetic
    BY <2>2, ScalarStep
  <2> QED BY <2>1, <2>2, Zenon
<1>3. ScalarExact => /\ M31!Scalar!ValueIsExact /\ M31!Scalar!WordsInRange
     /\ M31!Scalar!ComparisonsAreExact /\ M31!Scalar!BytesSurviveTheProof
  BY ScalarMeans, Zenon
<1> QED BY <1>1, <1>2, <1>3, PTL

(* M31x16 with AVX2: the same of its vectors, whose words may be the       *)
(* modulus itself, a second zero that only == takes for another element.   *)
THEOREM Avx256ProgramsAreExact ==
  /\ M31!Avx256!Init
  /\ [][M31!Avx256!Running /\ M31!Avx256!Arithmetic]_vars
  => [](/\ M31!Avx256!ValueIsExact /\ M31!Avx256!WordsInRange
        /\ M31!Avx256!ComparisonsAreExact /\ M31!Avx256!BytesSurviveTheProof)
<1>1. M31!Avx256!Init => AvxExact
  BY BitsAre, ScalarWordsReduced, Zenon
     DEF M31!Avx256!Init, M31!PackedZero, M31!Fill, M31!Avx256!EverySame, M31!Avx256!Fill, AvxExact
<1>2. AvxExact /\ [M31!Avx256!Running /\ M31!Avx256!Arithmetic]_vars => AvxExact'
  <2> SUFFICES ASSUME AvxExact, [M31!Avx256!Running /\ M31!Avx256!Arithmetic]_vars PROVE AvxExact'
    OBVIOUS
  <2>1. CASE UNCHANGED vars
    BY <2>1, Zenon DEF vars, AvxExact
  <2>2. CASE M31!Avx256!Arithmetic
    BY <2>2, Avx256Step
  <2> QED BY <2>1, <2>2, Zenon
<1>3. AvxExact => /\ M31!Avx256!ValueIsExact /\ M31!Avx256!WordsInRange
     /\ M31!Avx256!ComparisonsAreExact /\ M31!Avx256!BytesSurviveTheProof
  BY Avx256Means, Zenon
<1> QED BY <1>1, <1>2, <1>3, PTL

(* M31x16 with AVX-512: the same, and == knows both zeros.                 *)
THEOREM Avx512ProgramsAreExact ==
  /\ M31!Avx512!Init
  /\ [][M31!Avx512!Running /\ M31!Avx512!Arithmetic]_vars
  => [](/\ M31!Avx512!ValueIsExact /\ M31!Avx512!WordsInRange
        /\ M31!Avx512!ComparisonsAreExact /\ M31!Avx512!BytesSurviveTheProof)
<1>1. M31!Avx512!Init => AvxExact
  BY BitsAre, ScalarWordsReduced, Zenon
     DEF M31!Avx512!Init, M31!PackedZero, M31!Fill, M31!Avx512!EverySame, M31!Avx512!Fill, AvxExact
<1>2. AvxExact /\ [M31!Avx512!Running /\ M31!Avx512!Arithmetic]_vars => AvxExact'
  <2> SUFFICES ASSUME AvxExact, [M31!Avx512!Running /\ M31!Avx512!Arithmetic]_vars PROVE AvxExact'
    OBVIOUS
  <2>1. CASE UNCHANGED vars
    BY <2>1, Zenon DEF vars, AvxExact
  <2>2. CASE M31!Avx512!Arithmetic
    BY <2>2, Avx512Step
  <2> QED BY <2>1, <2>2, Zenon
<1>3. AvxExact => /\ M31!Avx512!ValueIsExact /\ M31!Avx512!WordsInRange
     /\ M31!Avx512!ComparisonsAreExact /\ M31!Avx512!BytesSurviveTheProof
  BY Avx512Means, Zenon
<1> QED BY <1>1, <1>2, <1>3, PTL

(* M31x16 with NEON: the same, on words below the modulus.                 *)
THEOREM NeonProgramsAreExact ==
  /\ M31!Neon!Init
  /\ [][M31!Neon!Running /\ M31!Neon!Arithmetic]_vars
  => [](/\ M31!Neon!ValueIsExact /\ M31!Neon!WordsInRange
        /\ M31!Neon!ComparisonsAreExact /\ M31!Neon!BytesSurviveTheProof)
<1>1. M31!Neon!Init => NeonExact
  BY BitsAre, ScalarWordsReduced, Zenon
     DEF M31!Neon!Init, M31!PackedZero, M31!Fill, M31!Neon!EverySame, M31!Neon!Fill, NeonExact
<1>2. NeonExact /\ [M31!Neon!Running /\ M31!Neon!Arithmetic]_vars => NeonExact'
  <2> SUFFICES ASSUME NeonExact, [M31!Neon!Running /\ M31!Neon!Arithmetic]_vars PROVE NeonExact'
    OBVIOUS
  <2>1. CASE UNCHANGED vars
    BY <2>1, Zenon DEF vars, NeonExact
  <2>2. CASE M31!Neon!Arithmetic
    BY <2>2, NeonStep
  <2> QED BY <2>1, <2>2, Zenon
<1>3. NeonExact => /\ M31!Neon!ValueIsExact /\ M31!Neon!WordsInRange
     /\ M31!Neon!ComparisonsAreExact /\ M31!Neon!BytesSurviveTheProof
  BY NeonMeans, Zenon
<1> QED BY <1>1, <1>2, <1>3, PTL
=============================================================================
