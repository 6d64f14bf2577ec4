------------------------------ MODULE MCChunks ------------------------------
(* Lengths around the limits for MpiChunks.                                *)
EXTENDS MpiChunks

MCJobs == {[op |-> o, w |-> world, n |-> bytes] :
             o \in {"gather", "scatter", "transpose"}, world \in 1 .. 4, bytes \in 0 .. 9}
=============================================================================
