------------------------------ MODULE MCOpenings ------------------------------
(***************************************************************************)
(* Orion over two small fields: F_7 with x^2 = -1, whose lanes are         *)
(* multiplied, and F_2 with x^4 = x + 1, whose lanes are looked up.  The   *)
(* code is scaled down: messages longer than 3 are encoded, those of 16 by *)
(* two graphs and two more.                                                *)
(***************************************************************************)
EXTENDS Orion

TwoFifths == <<2, 5>>

Prime(pcs, world, nv, simd, com, seed, queries) ==
  [pcs |-> pcs, p |-> 7, red |-> <<6, 0>>, bits |-> 1, leafBits |-> 4,
   world |-> world, vars |-> nv, simd |-> simd, com |-> com,
   seed |-> seed, reps |-> 2, queries |-> queries]

Binary(pcs, world, nv, simd, com, seed, queries) ==
  [Prime(pcs, world, nv, simd, com, seed, queries) EXCEPT
    !.p = 2, !.red = <<1, 1, 0, 0>>, !.reps = 1]

MCJobs ==
  {Prime("gkr", 1, 2, 1, 2, 3, <<5, 2>>),      \* padded
   Prime("gkr", 2, 1, 1, 1, 5, <<0, 1, 0>>),
   Prime("gkr", 1, 5, 1, 2, 3, <<5, 2, 11>>),
   Prime("gkr", 2, 4, 1, 2, 1, <<6, 0, 3, 0, 5>>),
   Prime("gkr", 2, 3, 2, 2, 4, <<1, 4, 12, 3>>),
   Prime("gkr", 4, 3, 1, 2, 2, <<6, 1, 4, 0, 5, 1, 3>>),
   Prime("simd", 1, 3, 2, 4, 5, <<3, 0, 8>>),
   Prime("base", 1, 3, 2, 2, 6, <<4, 9, 1>>),
   Binary("gkr", 1, 4, 2, 4, 3, <<5, 2, 11>>),
   Binary("gkr", 2, 4, 2, 4, 1, <<6, 0, 3, 0, 5>>),
   Binary("gkr", 2, 5, 2, 4, 5, <<25, 20, 3, 20, 9, 28, 0>>),
   Binary("base", 1, 3, 4, 4, 7, <<2, 0>>)}
=============================================================================
