----------------------------- MODULE MCKernel -----------------------------
(***************************************************************************)
(* Small sessions for TLC.                                                 *)
(***************************************************************************)
EXTENDS Kernel, TLC

CONSTANTS d1, k1, nokey

OneDriver == {d1}
OneKey == {k1}

\* Providers that answer, call and ask.
Answering == {"Respond", "Call", "Ask"}
=============================================================================
