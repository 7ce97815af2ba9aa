------------------------------- MODULE MCTui -------------------------------
(* A bounded instance of Tui: two providers, the panel in the reverse of the *)
(* order of the names, and one bundle.                                      *)
EXTENDS Tui

MCLastUsed == [n \in Names |-> n]
MCSaved == [p \in Providers |-> IF p = 1 THEN Names \ {1} ELSE {1}]
MCBundles == {[p \in Providers |-> IF p = 1 THEN {1} ELSE {}]}
=============================================================================
