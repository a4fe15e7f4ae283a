----------------------------- MODULE MCTurnRunner -----------------------------
(* Two turns on one thread or two; the first may be given up. *)
EXTENDS TurnRunner

FirstTurn == {1}
AllSpeech == {<<1, "text">>, <<1, "fatal">>, <<2, "retry">>}
=============================================================================
