----------------------------- MODULE SumCheckIOP -----------------------------
(***************************************************************************)
(* sumcheck/src/sumcheck_generic: the sum over the hypercube of a sum of   *)
(* products of two multilinear polynomials.  Pairs may have fewer          *)
(* variables than the largest one; they then stand for polynomials padded  *)
(* with zeros, which the prover never writes out.                          *)
(***************************************************************************)
EXTENDS SmallField

PolyVars(coeffs) == CHOOSE n \in 0 .. Len(coeffs) : 2^n = Len(coeffs)

(* MultiLinearPoly::fix_top_variable and fix_variables.                    *)
FixTopVariable(coeffs, r) ==
  LET n == Len(coeffs) \div 2
  IN [i \in 1 .. n |-> VAdd(coeffs[i], EMul(VSub(coeffs[n + i], coeffs[i]), r))]
FixVariables(coeffs, point) == FoldLeft(FixTopVariable, coeffs, Reverse(point))

DotProduct(u, v) == ESum([i \in DOMAIN u |-> EMul(u[i], v[i])])

(* SumOfProductsPoly.                                                      *)
NumVars(pairs) == CHOOSE n \in {PolyVars(pairs[i].f) : i \in DOMAIN pairs} :
                    \A i \in DOMAIN pairs : PolyVars(pairs[i].f) <= n

ProverInit(pairs) ==
  [round |-> 0, init_num_vars |-> NumVars(pairs), pairs |-> pairs, challenges |-> <<>>,
   init_sum_of_vals |-> [i \in DOMAIN pairs |-> DotProduct(pairs[i].f, pairs[i].g)],
   eq_prefix |-> [i \in DOMAIN pairs |-> EOne]]

(* get_sub_idx: a pair takes no part in the rounds of the variables it     *)
(* lacks, the top ones, which come first.                                  *)
TakesPart(ps, i) == ps.round >= ps.init_num_vars - PolyVars(ps.pairs[i].f) + 1

FixTopVariableForPolyPairs(ps, challenge) ==
  [ps EXCEPT
     !.challenges = Append(@, challenge),
     !.pairs = [i \in DOMAIN @ |->
                  IF TakesPart(ps, i)
                  THEN [f |-> FixTopVariable(@[i].f, challenge), g |-> FixTopVariable(@[i].g, challenge)]
                  ELSE @[i]],
     !.eq_prefix = [i \in DOMAIN @ |->
                      IF TakesPart(ps, i) THEN @[i] ELSE EMul(@[i], VSub(EOne, challenge))]]

(* What a pair adds to the message: its values at zero, one and two.       *)
(* Mutant: the factor of one polynomial of the pair only.                  *)
PrefixOnce(prefix) == prefix
PrefixSquared(prefix) == EMul(prefix, prefix)
PairMessage(ps, i) ==
  LET f == ps.pairs[i].f
      g == ps.pairs[i].g
      half == Len(f) \div 2
      AtTwo(c) == [k \in 1 .. half |-> VSub(VAdd(c[half + k], c[half + k]), c[k])]
      factor == PrefixSquared(ps.eq_prefix[i])
      outside == EMul(factor, ps.init_sum_of_vals[i])
  IN IF TakesPart(ps, i)
     THEN << EMul(factor, DotProduct(SubSeq(f, 1, half), SubSeq(g, 1, half))),
             EMul(factor, DotProduct(SubSeq(f, half + 1, Len(f)), SubSeq(g, half + 1, Len(g)))),
             EMul(factor, DotProduct(AtTwo(f), AtTwo(g))) >>
     ELSE << outside, EZero, outside >>

RoundMessage(ps) ==
  [x \in 1 .. 3 |-> ESum([i \in DOMAIN ps.pairs |-> PairMessage(ps, i)[x]])]

(* The quadratic through the three values, at r.                           *)
Half(a) == EMul(a, FromBase((P + 1) \div 2))
NextClaim(message, r) ==
  LET h2 == VSub(Half(VAdd(message[3], message[1])), message[2])
      h1 == VSub(VSub(message[2], message[1]), h2)
  IN VAdd(message[1], VAdd(EMul(h1, r), EMul(h2, EMul(r, r))))

(* check_and_generate_subclaim: the claims, round by round.                *)
ClaimsFrom(sum, messages, challenges) ==
  FoldLeft(LAMBDA claims, k : Append(claims, NextClaim(messages[k], challenges[k])),
           <<sum>>, [k \in DOMAIN messages |-> k])
SumsHold(sum, messages, challenges) ==
  LET claims == ClaimsFrom(sum, messages, challenges)
  IN \A k \in DOMAIN messages : claims[k] = VAdd(messages[k][1], messages[k][2])
=============================================================================
