------------------------------ MODULE MCProver ------------------------------
(* SpmdProver running the scripts of GkrScript.                            *)
EXTENDS SpmdProver, GkrScript

(* A loaded circuit: a relay layer below a layer with multiplications.     *)
MCRelayed == << [vars |-> 1, phase2 |-> FALSE], [vars |-> 1, phase2 |-> TRUE] >>

MCOneLayer == << [vars |-> 1, phase2 |-> FALSE] >>
MCNoPI == <<>>
=============================================================================
