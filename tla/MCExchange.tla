------------------------------ MODULE MCExchange ------------------------------
(* Exchange with the completions that matter: a text, a FREE call, and a RISKY  *)
(* call with a FREE one before it and one after it.                             *)
EXTENDS Exchange

MCReplies == {<<>>, <<"free">>, <<"free", "risky", "free">>}
===============================================================================
