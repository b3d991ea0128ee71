------------------------------ MODULE MCErrRing ------------------------------
(* Model values and small bounds for ErrRing. Classes: 1 = MPI_ERR_COMM,  *)
(* 2 = MPI_ERR_OTHER, 3 = MPI_ERR_IN_STATUS. Generic index 1 is "**user". *)
EXTENDS ErrRing, TLC


ThreadSymmetry == Permutations(Threads)

=============================================================================
