----------------------------- MODULE MCAcceptLoop -----------------------------
(* AcceptLoop on small sets of workers and connections.                      *)
EXTENDS AcceptLoopProps

CONSTANTS w1, w2, w3, c1, c2, c3

OneBye == {c1}
TwoByes == {c1, c2}
Silent == {c2, c3}
Nobody == {}
=============================================================================
