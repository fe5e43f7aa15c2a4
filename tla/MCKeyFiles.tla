----------------------------- MODULE MCKeyFiles -----------------------------
(* KeyFiles with two server processes and two keys.                          *)
EXTENDS KeyFiles

CONSTANTS s1, s2, k1, k2
=============================================================================
