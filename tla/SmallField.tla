------------------------------ MODULE SmallField ------------------------------
(***************************************************************************)
(* A prime field and an extension of it, small enough for whole protocols: *)
(* an element of the extension is the sequence of its limbs, and x to the  *)
(* degree is Red.  The fields of arith have modules of their own.          *)
(***************************************************************************)
EXTENDS Integers, SequencesExt

CONSTANTS P, Red

DEGREE == Len(Red)

(* Vectors over the base field: packed elements and limbs alike.           *)
VZero(n)    == [i \in 1 .. n |-> 0]
VAdd(u, v)  == [i \in DOMAIN u |-> (u[i] + v[i]) % P]
VSub(u, v)  == [i \in DOMAIN u |-> (u[i] - v[i]) % P]
VScale(c, u) == [i \in DOMAIN u |-> (c * u[i]) % P]
VSum(n, s)  == FoldLeft(VAdd, VZero(n), s)
Total(s)    == FoldLeft(LAMBDA a, b : (a + b) % P, 0, s)

FromBase(c) == [i \in 1 .. DEGREE |-> IF i = 1 THEN c ELSE 0]
EZero == FromBase(0)
EOne  == FromBase(1)
ESum(s) == VSum(DEGREE, s)

ProductOf(a, b) ==
  [k \in 1 .. 2 * DEGREE - 1 |->
     Total([i \in 1 .. DEGREE |-> IF k - i + 1 \in 1 .. DEGREE THEN a[i] * b[k - i + 1] ELSE 0])]
(* The powers of x from the highest down are replaced by Red's.            *)
Lowered(product) ==
  FoldLeft(LAMBDA c, k :
             [j \in DOMAIN c |->
                IF j \in k - DEGREE .. k - 1 THEN (c[j] + c[k] * Red[j - k + DEGREE + 1]) % P ELSE c[j]],
           product, [i \in 1 .. DEGREE - 1 |-> 2 * DEGREE - i])
EMul(a, b) == SubSeq(Lowered(ProductOf(a, b)), 1, DEGREE)

EProduct(s) == FoldLeft(EMul, EOne, s)

(* EqPolynomial::build_eq_x_r: the first variable is the lowest bit.       *)
BuildEqXR(r) ==
  FoldLeft(LAMBDA eq, x :
             LET upper == [j \in DOMAIN eq |-> EMul(eq[j], x)]
             IN [j \in DOMAIN eq |-> VSub(eq[j], upper[j])] \o upper,
           <<EOne>>, r)

(* EqPolynomial::ith_eq_vec_elem, and eq(r, .) at the bits of i.           *)
IthEqVecElem(r, i) ==
  EProduct([k \in DOMAIN r |-> IF (i \div 2^(k - 1)) % 2 = 1 THEN r[k] ELSE VSub(EOne, r[k])])

(* MultiLinearPoly::evaluate_with_buffer, folding the first variable first. *)
EvaluateWithBuffer(evals, point) ==
  FoldLeft(LAMBDA u, r : [i \in 1 .. Len(u) \div 2 |->
                            VAdd(u[2 * i - 1], EMul(VSub(u[2 * i], u[2 * i - 1]), r))],
           evals, point)[1]
=============================================================================
