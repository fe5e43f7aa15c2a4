------------------------------ MODULE AesContext ------------------------------
(***************************************************************************)
(* The AES contexts of common/crypto.cc, as both programs use them: made   *)
(* for one direction, good for one text, reset for the next, and reclaimed. *)
(* Each operator is the set of outcomes of one call.                       *)
(***************************************************************************)
EXTENDS Integers

CONSTANTS
  CryptoMayFail,  \* whether a call of OpenSSL may fail
  Nothing,        \* the empty vector
  Garbled         \* bytes that are not what was encrypted

ASSUME CryptoAssumption == CryptoMayFail \in BOOLEAN

Failure(outcome) == IF CryptoMayFail THEN {outcome} ELSE {}

\* "cleaned": EVP_CIPHER_CTX_cleanup has run, which leaves the object.
Lives == {"none", "ready", "spent", "cleaned"}
Contexts == [life : Lives, encrypt : BOOLEAN]

Context(life, encrypt) == [life |-> life, encrypt |-> encrypt]
NoContext == Context("none", FALSE)

create_aes_key == {TRUE} \cup Failure(FALSE)

\* EVP_CIPHER_CTX_new fails, or one of the calls after it does: the caller gets
\* a null pointer (and an object that was cleaned is never freed).
create_aes_context(encrypt) == {Context("ready", encrypt)} \cup Failure(NoContext)

\* What aes_crypt_msg makes of a text, with the context afterwards.
Crypted(out, ctx) == [out |-> out, ctx |-> ctx]

\* The stub of common/my_crypto.cc.
StubCrypt(ctx, text) == {Crypted(Nothing, ctx)}

\* The solution of it, which both overloads of crypto.cc forward to.
SolutionCrypt(ctx, encrypt, text) ==
  IF ctx.life = "cleaned" \/ text = Nothing THEN {Crypted(Nothing, ctx)}
  ELSE LET spent == [ctx EXCEPT !.life = "spent"]
       IN  {Crypted(IF ctx = Context("ready", encrypt) THEN text ELSE Garbled, spent)}
             \cup Failure(Crypted(Nothing, spent))

aes_crypt_msg(stub, ctx, encrypt, text) ==
  IF stub THEN StubCrypt(ctx, text) ELSE SolutionCrypt(ctx, encrypt, text)

\* Fault: the context is left as it is.
ResetNothing(ctx, encrypt) == {ctx}

\* A reset that fails cleans the context, which the caller still has to reclaim.
reset_aes_context(ctx, encrypt) ==
  {Context("ready", encrypt)} \cup Failure(Context("cleaned", encrypt))

reclaim_aes_context(ctx) == NoContext
=============================================================================
