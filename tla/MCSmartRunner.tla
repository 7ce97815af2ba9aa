--------------------------- MODULE MCSmartRunner ---------------------------
(* A bounded instance of SmartRunner: what one read of the PTY may return.  *)
EXTENDS SmartRunner

MCOutputs ==
  {[lines |-> l, open |-> FALSE] : l \in {<<"limit", "limit">>, <<"ok">>, <<"bad">>}}
    \cup {[lines |-> <<"limit">>, open |-> o] : o \in BOOLEAN}
=============================================================================
