------------------------------- MODULE MCNetIO -------------------------------
(* NetIO for short messages; every length from 0 up, so that a message ends  *)
(* just below, at and just above each size of the reader's buffer.           *)
EXTENDS NetIO

Lens == 0 .. 6
ShortLens == 0 .. 4
Wanted == {0, 2, 4, 7}
BothReaders == {"to_eof", "to_eof_or_n"}
=============================================================================
