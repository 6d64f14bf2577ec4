-------------------------------- MODULE World --------------------------------
(* The MPI world of gkr_engine/src/mpi_engine: WorldSize ranks, rank 0 is   *)
(* the root.                                                               *)
EXTENDS Integers

CONSTANT WorldSize

ASSUME WorldAssumption == WorldSize \in Nat \ {0}

Rank == 0 .. WorldSize - 1
ROOT_RANK == 0
=============================================================================
