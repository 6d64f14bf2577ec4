------------------------------ MODULE MCLayers ------------------------------
(* Small circuits for GkrLayersVerifier.                                   *)
EXTENDS GkrLayersVerifier

Coin31(seed, k) == (7 * seed + 11 * k + 5 * k * k + 3 * seed * k) % P

Mul(o, i, k, c)  == [o |-> o, i |-> i, k |-> k, coef |-> c]
Add(o, i, c)     == [o |-> o, i |-> i, coef |-> c]
Cst(o, c)        == [o |-> o, coef |-> c, pi |-> None]
CstPI(o, n)      == [o |-> o, coef |-> 0, pi |-> Some(n)]

MkLayer(ivars, ovars, mul, add, cst) ==
  [ivars |-> ivars, ovars |-> ovars, mul |-> mul, add |-> add, cst |-> cst, uni |-> {}]

(* From two inputs: products, a relay with a public input, products.       *)
Relayed == <<
  MkLayer(1, 2, {Mul(0, 0, 1, 1), Mul(1, 1, 1, 3), Mul(2, 0, 0, 2)}, {Add(2, 1, 4)}, {Cst(3, 5)}),
  MkLayer(2, 1, {}, {Add(0, 0, 1), Add(0, 2, 6), Add(1, 1, 1)}, {CstPI(1, 1)}),
  MkLayer(1, 1, {Mul(0, 0, 1, 1), Mul(1, 1, 1, 1)}, {Add(1, 0, 2)}, {}) >>

(* Two relays in front of two products, and relays only.                   *)
MulMul == <<
  MkLayer(1, 1, {}, {Add(0, 1, 1), Add(1, 0, 3)}, {Cst(0, 2)}),
  MkLayer(1, 2, {Mul(0, 0, 0, 1), Mul(1, 0, 1, 2), Mul(3, 1, 1, 1)}, {Add(2, 0, 1)}, {}),
  MkLayer(2, 1, {Mul(0, 0, 3, 1), Mul(1, 1, 2, 4)}, {Add(0, 3, 1)}, {CstPI(0, 1)}) >>

RelayOnly == <<
  MkLayer(2, 1, {}, {Add(0, 0, 1), Add(0, 3, 2), Add(1, 2, 5)}, {}),
  MkLayer(1, 0, {}, {Add(0, 0, 1), Add(0, 1, 1)}, {Cst(0, 3)}) >>

(* Wide enough for four lanes or four ranks.                               *)
Wide == <<
  MkLayer(3, 1, {Mul(0, 0, 7, 1), Mul(1, 2, 5, 3), Mul(1, 6, 6, 1)}, {Add(0, 4, 2)}, {CstPI(1, 1)}),
  MkLayer(1, 1, {Mul(0, 0, 1, 1)}, {Add(1, 0, 2)}, {}) >>

MkJob(layers, simd, mpi, seed, honest, flip) ==
  [layers |-> layers, simd |-> simd, mpi |-> mpi,
   input |-> [r \in 0 .. 2^mpi - 1 |-> [i \in 0 .. 2^layers[1].ivars - 1 |->
               [j \in 0 .. 2^simd - 1 |-> Coin31(seed + 2 * r + j, i + 1)]]],
   pi |-> [r \in 0 .. 2^mpi - 1 |-> << [j \in 0 .. 2^simd - 1 |-> (5 + 9 * r + 4 * j) % P] >>],
   coins |-> [k \in 1 .. 40 |-> Coin31(seed, k)],
   honest |-> honest, flip |-> flip]

MCJobs ==
  {MkJob(c, simd, mpi, seed, TRUE, 0) :
     c \in {Relayed, MulMul, RelayOnly}, simd \in {0, 1}, mpi \in {0, 1}, seed \in {2, 5}}
  \cup {MkJob(Wide, 2, 0, 4, TRUE, 0), MkJob(Wide, 0, 2, 4, TRUE, 0),
        MkJob(Wide, 2, 2, 4, TRUE, 0)}
  \cup {MkJob(c, 1, 1, 3, FALSE, 0) : c \in {Relayed, RelayOnly}}
  \cup {MkJob(c, 1, 1, 3, TRUE, flip) : c \in {MulMul}, flip \in {1, 4, 6, 9, 13}}

=============================================================================
