--------------------------- MODULE ExclusiveLock ---------------------------
(***************************************************************************)
(* What a lock file promises: one owner at a time, until the lock is        *)
(* broken.  ProfileLock and DaemonPid implement it; "broken" is mapped to   *)
(* the windows in which their code lets go of a file that is not theirs.    *)
(***************************************************************************)
CONSTANT Procs

VARIABLES
  owners,   \* the processes that act as the owner
  broken    \* the lock has been taken away from an owner

lockvars == <<owners, broken>>

Init == owners = {} /\ broken = FALSE

Acquire(p) ==
  /\ p \notin owners
  /\ owners = {} \/ broken
  /\ owners' = owners \cup {p}
  /\ UNCHANGED broken

\* An orderly release, or the death of the owner.
Release(p) ==
  /\ p \in owners
  /\ owners' = owners \ {p}
  /\ UNCHANGED broken

Break == broken' = TRUE /\ UNCHANGED owners

Next ==
  \/ \E p \in Procs : Acquire(p) \/ Release(p)
  \/ Break

Spec == Init /\ [][Next]_lockvars
=============================================================================
