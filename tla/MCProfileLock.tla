--------------------------- MODULE MCProfileLock ---------------------------
(* Three PIDs, each of which may come back after its process is gone.      *)
EXTENDS ProfileLock, TLC
Symmetry == Permutations(Procs)
=============================================================================
