------------------------------ MODULE MCClient ------------------------------
(* Client with one server process that is restarted and two clients.         *)
EXTENDS Client, TLC

CONSTANTS s1, k1, k2, a, b

ClientSymmetry == Permutations(Clients) \cup Permutations(Keys)
=============================================================================
