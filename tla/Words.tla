-------------------------------- MODULE Words --------------------------------
(***************************************************************************)
(* Machine words and vectors of them, and the methods every field type     *)
(* inherits from the trait Field (arith/src/field.rs) and from SimdField.  *)
(* A word of w bits is a number below 2^w; a vector is a sequence of       *)
(* words, lane 1 first.                                                    *)
(***************************************************************************)
EXTENDS Integers, Sequences, FiniteSets, SequencesExt

Wrap(w, x)   == x % 2^w
AsSigned(w, x) == IF x >= 2^(w - 1) THEN x - 2^w ELSE x
LowBits(k, x)  == x % 2^k
HighBits(k, x) == x \div 2^k
LesserOf(x, y) == IF x < y THEN x ELSE y

PerLane(f(_), v)        == [l \in DOMAIN v |-> f(v[l])]
PerLane2(f(_, _), u, v) == [l \in DOMAIN v |-> f(u[l], v[l])]
Fill(n, x)              == [l \in 1 .. n |-> x]
AllLanes(p(_), v)       == \A l \in DOMAIN v : p(v[l])
IsOdd(l)                == l % 2 = 0   \* lanes are counted from 1, the code counts from 0

(* An Option is a sequence of at most one element.                         *)
None    == <<>>
Some(v) == <<v>>

(* What the lane-wise inverse of a vector does: one bad lane, no inverse.  *)
InvLanes(isZero(_), inv(_), v) ==
  IF \E l \in DOMAIN v : isZero(v[l]) THEN None
  ELSE Some(PerLane(LAMBDA x : inv(x)[1], v))

-----------------------------------------------------------------------------
(* Field::exp, Field::exp_power_of_2 and Field::mul_by_{3,5,6}, and        *)
(* SimdField::horizontal_sum, for the type's own add and mul.              *)
BitLength(e) == CHOOSE n \in 0 .. 31 : e < 2^n /\ (n = 0 \/ e >= 2^(n - 1))

(* step for 1, 2 .. n in turn, each evaluated at once: TLC would carry a   *)
(* long chain of products unevaluated.                                     *)
Repeated(step(_, _), x, n) ==
  LET after[i \in 0 .. n] == IF i = 0 THEN x ELSE CHOOSE y \in {step(s, i) : s \in {after[i - 1]}} : y = y
  IN after[n]

Exp(mul(_, _), one, x, e) ==
  Repeated(LAMBDA s, i : [res |-> IF (e \div 2^(i - 1)) % 2 = 1 THEN mul(s.res, s.t) ELSE s.res,
                          t   |-> mul(s.t, s.t)],
           [res |-> one, t |-> x], BitLength(e)).res

ExpPowerOf2(square(_), x, n) == Repeated(LAMBDA r, i : square(r), x, n)

(* An addition chain: each entry is a power found so far, how often it is  *)
(* squared, and the power that is then multiplied by.                      *)
AlongChain(mul(_, _), square(_), chain, x) ==
  Last(FoldLeft(LAMBDA found, c : Append(found, mul(ExpPowerOf2(square, found[c[1]], c[2]), found[c[3]])),
                <<x>>, chain))

DefaultMulBy3(add(_, _), x) == add(add(x, x), x)
DefaultMulBy5(mulBy2(_), add(_, _), x) == add(x, mulBy2(mulBy2(x)))
DefaultMulBy6(mulBy3(_), add(_, _), x) == add(mulBy3(x), mulBy3(x))

DefaultHorizontalSum(add(_, _), zero, lanes) == FoldLeft(add, zero, lanes)

-----------------------------------------------------------------------------
(* Modulo x^n = w, the product of two polynomials of n coefficients: what  *)
(* the binomial extensions compute, whatever their formulas.               *)
BinomialProduct(add(_, _), mul(_, _), zero, w, u, v) ==
  LET n == Len(u)
      term(i, k) == IF i <= k THEN mul(u[i], v[k + 1 - i])
                    ELSE mul(w, mul(u[i], v[n + k + 1 - i]))
  IN [k \in 1 .. n |-> FoldLeft(LAMBDA s, i : add(s, term(i, k)), zero, [i \in 1 .. n |-> i])]

(* A draw of n words, from one of them.                                    *)
DrawOf(wordBits, n, w) == [i \in 1 .. n |-> Wrap(wordBits, w * (2 * i - 1) + i - 1)]
=============================================================================
