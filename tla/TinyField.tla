------------------------------ MODULE TinyField ------------------------------
(***************************************************************************)
(* The field and the multilinear tables that the GKR sumcheck computes     *)
(* with, over a prime field small enough to compute in.  A table over n    *)
(* variables is a function on 0 .. 2^n - 1; bit k of an index is the value *)
(* of variable k + 1.  A SIMD table holds a function on the lanes in each  *)
(* place.                                                                  *)
(***************************************************************************)
EXTENDS Integers, Sequences, FiniteSetsExt, SequencesExt

CONSTANT P   \* the characteristic (products of five elements must fit TLC's integers)

ASSUME PrimeAssumption == P \in Nat /\ P > 3 /\ \A d \in 2 .. P - 1 : P % d # 0

Field  == 0 .. P - 1
Inv(a) == CHOOSE b \in Field : (a * b) % P = 1

SumOf(f)         == SumFunction(f) % P
ProductOf(s)     == FoldLeft(LAMBDA a, b : (a * b) % P, 1, s)
Mix(a, b, r)     == (a + (b - a) * r) % P
SimdMix(a, b, r) == [j \in DOMAIN a |-> Mix(a[j], b[j], r)]

(* A table longer than what is written keeps its old tail.                 *)
WriteTable(t, new) == [i \in DOMAIN t |-> IF i \in DOMAIN new THEN new[i] ELSE t[i]]

(* The halving of a table, in place or into another one: each place below  *)
(* half gets the mix of two neighbours of src.                             *)
FoldInto(t, src, half, mix(_, _)) ==
  [i \in DOMAIN t |-> IF i < half THEN mix(src[2 * i], src[2 * i + 1]) ELSE t[i]]

-----------------------------------------------------------------------------
(* Doubles the table once per variable.                                    *)
BuildEqXRWithBuf(r, factor) ==
  FoldLeft(LAMBDA eq, x :
             LET n == Cardinality(DOMAIN eq)
             IN [j \in 0 .. 2 * n - 1 |->
                   IF j < n THEN (eq[j] - eq[j] * x) % P ELSE (eq[j - n] * x) % P],
           [j \in {0} |-> factor], r)

(* factor times eq(r, .), from the tables of the two halves of r.          *)
EqEvalAt(r, factor) ==
  LET half   == Len(r) \div 2
      first  == BuildEqXRWithBuf(SubSeq(r, 1, half), factor)
      second == BuildEqXRWithBuf(SubSeq(r, half + 1, Len(r)), 1)
  IN [i \in 0 .. 2^Len(r) - 1 |-> (first[i % 2^half] * second[i \div 2^half]) % P]

EqVec(xs, ys) ==
  ProductOf([k \in 1 .. Len(xs) |-> (2 * xs[k] * ys[k] - xs[k] - ys[k] + 1) % P])

(* MultiLinearPoly::evaluate_with_buffer: one variable after the other.    *)
EvaluateAt(t, point) ==
  FoldLeft(LAMBDA u, r : [i \in 0 .. Cardinality(DOMAIN u) \div 2 - 1 |->
                            Mix(u[2 * i], u[2 * i + 1], r)],
           t, point)[0]

(* The degree 2 polynomial through p at 0, 1 and 2, and the degree 3 one   *)
(* through p at 0, 1, 2 and 3, evaluated at x.                             *)
Degree2Eval(p, x) ==
  LET c2 == Inv(2) * (p[3] - 2 * p[2] + p[1])
      c1 == p[2] - p[1] - c2
  IN (p[1] + ((c2 * x + c1) % P) * x) % P

Degree3Eval(p, x) ==
  SumOf([i \in 1 .. 4 |->
    ProductOf([j \in 1 .. 4 |->
      IF i = j THEN p[i] ELSE ((x - (j - 1)) * Inv((i - j) % P)) % P])])

-----------------------------------------------------------------------------
(* The reference: the multilinear extension as its defining sum.           *)
EqAtPoint(r, i) ==
  ProductOf([k \in 1 .. Len(r) |->
    IF (i \div 2^(k - 1)) % 2 = 1 THEN r[k] ELSE (1 - r[k]) % P])

Mle(t, r) == SumOf([i \in 0 .. 2^Len(r) - 1 |-> t[i] * EqAtPoint(r, i)])
=============================================================================
