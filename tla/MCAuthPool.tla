----------------------------- MODULE MCAuthPool -----------------------------
(* Profiles, places of the semaphore and goroutines have no order.           *)
EXTENDS AuthPool, TLC

Symmetry == Permutations(Profiles) \cup Permutations(Slots) \cup Permutations(Loops)
=============================================================================
