------------------------------ MODULE MCHarness ------------------------------
(* Harness with two workers.                                                 *)
EXTENDS Harness

CONSTANTS w1, w2

NoSilence == {}
TheBye == {ByeConn}
=============================================================================
