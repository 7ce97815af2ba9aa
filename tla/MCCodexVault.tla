---------------------------- MODULE MCCodexVault ----------------------------
(* Two saved accounts; the other accounts are only logged in to.           *)
EXTENDS CodexVault
TwoProfiles == {1, 2}
TwoOwners == <<"ana", "bob">>
=============================================================================
