--------------------------- MODULE MCClaudeVault ---------------------------
(* Model checking of ClaudeVault: profile 1 is of account a, which logs in,  *)
(* profile 2 of k, which has an API key and no credentials; c has the        *)
(* credentials only, and no profile.                                        *)
EXTENDS ClaudeVault, TLC

MCOwner == 1 :> "a" @@ 2 :> "k"
MCHolds == "a" :> {1, 2} @@ "k" :> {2} @@ "c" :> {1}
=============================================================================
