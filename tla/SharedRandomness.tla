--------------------------- MODULE SharedRandomness ---------------------------
(***************************************************************************)
(* What the prover promises about randomness, abstractly: the processes    *)
(* behave as if each challenge were one coin that is tossed once, whoever  *)
(* looks first, and that everybody who looks at it later finds unchanged.  *)
(***************************************************************************)
CONSTANT Process

VARIABLE known   \* the coins each process has seen: pairs <<coin, value>>

Init == known = [p \in Process |-> {}]

(* Process p looks at a coin it has not seen yet.                          *)
Look(p, c) ==
  /\ \A d \in known[p] : d[1] # c[1]
  /\ \A q \in Process : \A d \in known[q] : d[1] = c[1] => d[2] = c[2]
  /\ known' = [known EXCEPT ![p] = @ \cup {c}]

Next == \E p \in Process : \E c \in known'[p] : Look(p, c)

Spec == Init /\ [][Next]_known
=============================================================================
