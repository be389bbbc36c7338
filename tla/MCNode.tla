------------------------------- MODULE MCNode -------------------------------
(* Node for TLC: two peers that are alike. *)
EXTENDS Node, TLC

CONSTANTS alice, bob

\* Responses, FINs and texts come in two frames; FINs only; nothing does.
LongParts == [t \in Types |-> IF t \in {"RESP", "FIN", "DATA"} THEN 2 ELSE 1]
FinParts == [LongParts EXCEPT !["DATA"] = 1, !["RESP"] = 1]
OnePart == [t \in Types |-> 1]
=============================================================================
