---------------------------- MODULE MCVaultSync ----------------------------
(* A bounded instance of VaultSync.                                        *)
EXTENDS VaultSync, TLC

Symmetric == Permutations(Commands)
=============================================================================
