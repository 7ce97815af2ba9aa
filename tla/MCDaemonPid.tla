---------------------------- MODULE MCDaemonPid ----------------------------
(* A bounded instance of DaemonPid: three daemons and one command.          *)
EXTENDS DaemonPid, TLC

Symmetric == Permutations(Daemons)
=============================================================================
