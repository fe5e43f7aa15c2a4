------------------------------ MODULE MCDialogue ------------------------------
(* Two clients of ann, whom the data file may know.                          *)
EXTENDS DialogueProps

CONSTANTS c1, c2, ann, right, photo

Request(com, arg) == [cmd |-> com, user |-> ann, pass |-> right, arg |-> arg]

SomeRequests ==
  [c \in Clients |->
     IF c = c1
     THEN {Request("SET", photo), Request("SAV", NoData), Request("BYE", NoData)}
     ELSE {Request("REG", NoData), Request("GET", ann), Request("ALL", NoData)}]

OnlyAnn == [u \in Users |-> [pass |-> right, content |-> NoData]]
AnnsFile == {OnlyAnn}
=============================================================================
