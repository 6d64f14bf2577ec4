------------------------------- MODULE MCHyrax -------------------------------
(* Hyrax and KZG over F_10007, with polynomials of no variable to five.      *)
EXTENDS HyperBiKzg

MCRed == <<0>>

Call(scheme, call, world, nvs, seed) ==
  [scheme |-> scheme, call |-> call, world |-> world, vars |-> nvs, seed |-> seed]

MCJobs ==
  {Call("hyrax", "expander", 1, <<3>>, 2), Call("hyrax", "expander", 2, <<3>>, 3),
   Call("hyrax", "expander", 4, <<1>>, 5),
   Call("hyrax", "single", 1, <<3, 3, 3>>, 7), Call("hyrax", "single", 1, <<2>>, 8),
   Call("hyrax", "multi", 1, <<4, 2, 3>>, 11), Call("hyrax", "multi", 1, <<1, 4>>, 12),
   Call("hyrax", "multi", 1, <<5, 5, 3, 2, 1>>, 4), Call("hyrax", "multi", 1, <<3>>, 6),
   Call("unikzg", "expander", 1, <<0>>, 13), Call("unikzg", "expander", 1, <<3>>, 14),
   Call("unikzg", "single", 1, <<2, 2, 2>>, 15), Call("unikzg", "multi", 1, <<3, 1, 2>>, 16),
   Call("bikzg", "expander", 1, <<1>>, 17), Call("bikzg", "expander", 2, <<1>>, 18),
   Call("bikzg", "expander", 4, <<2>>, 19)}
=============================================================================
