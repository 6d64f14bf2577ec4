------------------------------- MODULE MCSnark -------------------------------
(* GkrSnark running the scripts of GkrScript.                              *)
EXTENDS GkrSnark, GkrScript

(* A loaded circuit, a circuit built by hand whose input layer multiplies, *)
(* and the smallest circuit.                                               *)
MCRelayed  == << [vars |-> 1, phase2 |-> FALSE], [vars |-> 1, phase2 |-> TRUE] >>
MCTwoClaims == << [vars |-> 1, phase2 |-> TRUE] >>
MCOneLayer == << [vars |-> 1, phase2 |-> FALSE] >>

MCNoPI     == <<>>
MCRootPI   == <<1>>
=============================================================================
