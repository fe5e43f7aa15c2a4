------------------------------- MODULE MCLaunch -------------------------------
(* Launch with numbers that fit in 16 bits, that do not, and that are none.  *)
EXTENDS Launch

TextValues == [abc |-> 0, p80 |-> 80, p65616 |-> 65616]
MCTexts == DOMAIN TextValues

\* What is typed for the client: with 65616 it meets a server on 80 as well.
FewValues == [abc |-> 0, p65616 |-> 65616]
FewTexts == DOMAIN FewValues

SomeGarbage == {80}
AnyResult == BOOLEAN
=============================================================================
