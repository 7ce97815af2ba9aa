--------------------------- MODULE MCCoordinator ---------------------------
(* Model checking of Coordinator: panes and ids are interchangeable.       *)
EXTENDS Coordinator, TLC

ReqSymmetry == Permutations(ReqIds)
Symmetry == Permutations(Panes) \cup Permutations(ReqIds)
=============================================================================
