------------------------------ MODULE OrionCode ------------------------------
(***************************************************************************)
(* poly_commit/src/orion: the shape in which a polynomial is committed     *)
(* (orion_eval_shape), and the linear-time code of its rows, whose expander *)
(* graphs add parity behind the message and then behind that.  Positions   *)
(* in a codeword count from zero; a symbol is a packed element or an       *)
(* element of the extension, a vector over the base field either way.      *)
(***************************************************************************)
EXTENDS SmallField

CONSTANTS
  LengthThresholdG0s,         \* messages up to this length are their own code
  AlphaG0, AlphaG1,           \* <<numerator, denominator>>
  DegreeG0, DegreeG1

LesserOf(a, b) == IF a < b THEN a ELSE b
DivCeil(a, b) == (a + b - 1) \div b
Rounded(n, alpha) == (2 * n * alpha[1] + alpha[2]) \div (2 * alpha[2])
Ilog2(n) == CHOOSE k \in 0 .. 30 : 2^k <= n /\ n \div 2^k < 2
NextPowerOfTwo(n) == IF 2^Ilog2(n) = n THEN n ELSE 2^(Ilog2(n) + 1)

-----------------------------------------------------------------------------
(* The shape: how many leaves answer a query, the number of local          *)
(* variables, possibly more than asked for, and the message's length.      *)
LeavesLowerBound(bitsLog2) ==
  CASE bitsLog2 < 16 -> 2
    [] bitsLog2 \in 16 .. 21 -> 4
    [] bitsLog2 \in 22 .. 27 -> 8
    [] bitsLog2 \in 28 .. 33 -> 16
    [] bitsLog2 > 33 -> 32

(* Mutant: as if every message were encoded to twice its length.           *)
MinimumMsgSizeHalved(world) == IF world = 1 THEN 1 ELSE world \div 2
(* So that every rank gets a share of the padded codeword.                 *)
MinimumMsgSize(world) ==
  IF world <= NextPowerOfTwo(LengthThresholdG0s) THEN world ELSE world \div 2

OrionEvalShape(world, numLocalVars, fieldBits, packSize, leafBits) ==
  LET PolynomialBits(vars) == world * 2^vars * fieldBits
      MinimumPack(vars) ==
        DivCeil(LeavesLowerBound(Ilog2(PolynomialBits(vars))) * leafBits, packSize * fieldBits * world)
      LeavesBits(vars) == MinimumPack(vars) * world * packSize * fieldBits
      MsgSize(vars)    == PolynomialBits(vars) \div LeavesBits(vars)
      shape[vars \in Nat] ==
        IF MsgSize(vars) >= MinimumMsgSize(world)
        THEN [leaves |-> LeavesBits(vars) \div leafBits, vars |-> vars, msg |-> MsgSize(vars)]
        ELSE shape[Ilog2(MinimumMsgSize(world) * MinimumPack(vars) * packSize)]
  IN shape[numLocalVars]

-----------------------------------------------------------------------------
(* Which of the left vertices each right vertex adds up: every left vertex *)
(* has degree neighbours, drawn by a generator all ranks start alike.      *)
Neighborings(l, r, degree, seed) ==
  [ri \in 0 .. r - 1 |->
     {li \in 0 .. l - 1 : \E d \in 0 .. degree - 1 : ri = (seed + 3 * li + d) % r}]

(* From input_starts to output_starts, to output_starts .. output_ends.    *)
Positioned(input, output, len, degree, seed) ==
  [input_starts |-> input, output_starts |-> output, output_ends |-> output + len - 1,
   neighborings |-> Neighborings(output - input, len, degree, seed)]

G0s(msgLen, seed) ==
  LET from[input \in Nat, output \in Nat] ==
        LET len == Rounded(output - input, AlphaG0)
        IN IF output - input <= LengthThresholdG0s THEN <<>>
           ELSE <<Positioned(input, output, len, LesserOf(DegreeG0, len), seed)>>
                \o from[output, output + len]
  IN from[0, msgLen]

(* One more graph for each of G0s, from the last: it reads all from where  *)
(* that one began to write.                                                *)
G1s(g0s, starts, seed) ==
  FoldRight(LAMBDA g0, made :
              LET output == IF made = <<>> THEN starts ELSE Last(made).output_ends + 1
                  len == Rounded(output - g0.output_starts, AlphaG1)
              IN Append(made, Positioned(g0.output_starts, output, len, LesserOf(DegreeG1, len), seed)),
            g0s, <<>>)

NewOrionCode(msgLen, seed) ==
  LET g0s == G0s(msgLen, seed)
      starts == IF g0s = <<>> THEN msgLen ELSE Last(g0s).output_ends + 1
      g1s == G1s(g0s, starts, seed)
  IN [msg_len |-> msgLen, g0s |-> g0s, g1s |-> g1s,
      codeword_len |-> IF g1s = <<>> THEN starts ELSE Last(g1s).output_ends + 1]

ExpanderMul(buffer, g) ==
  [k \in DOMAIN buffer |->
     IF k - 1 \in g.output_starts .. g.output_ends
     THEN LET edges == g.neighborings[k - 1 - g.output_starts]
          IN VSum(Len(buffer[k]), [li \in 1 .. g.output_starts - g.input_starts |->
                                    IF li - 1 \in edges THEN buffer[g.input_starts + li]
                                    ELSE VZero(Len(buffer[k]))])
     ELSE buffer[k]]

Encode(code, msg) ==
  FoldLeft(ExpanderMul, msg \o [i \in 1 .. code.codeword_len - code.msg_len |-> VZero(Len(msg[1]))],
           code.g0s \o code.g1s)
=============================================================================
