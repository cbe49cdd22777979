----------------------------- MODULE MCIncoming -----------------------------
(* Small instances of Incoming: two questions with an answer each, and a   *)
(* text that answers neither.                                              *)
EXTENDS Incoming, TLC

CONSTANTS q1, q2, t1, t2, t3

MCAnswers == (q1 :> {t1}) @@ (q2 :> {t2})
=============================================================================
