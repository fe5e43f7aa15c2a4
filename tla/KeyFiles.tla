------------------------------ MODULE KeyFiles ------------------------------
(***************************************************************************)
(* How a server gets its RSA key: init_RSA(), generate_rsa_key_files() and *)
(* load_pri() in common/crypto.cc, load_entire_file() in common/file.cc,   *)
(* and the part of main() in server/server.cc that calls them.  The state  *)
(* is the two files <base>.pub and <base>.pri on disk and, for each server *)
(* process, where it is between two system calls and what it has read.     *)
(*                                                                         *)
(* A process may be killed between any two calls and started again; what   *)
(* it had only in a stdio buffer is then lost.  The scripts remove the     *)
(* files, one at a time.                                                   *)
(***************************************************************************)
CONSTANTS
  Procs,         \* server processes
  Keys,          \* RSA key pairs that RSA_generate_key_ex can produce
  NoFile,        \* the file does not exist
  Empty,         \* the file exists and has no content
  Torn,          \* the file has part of what was to be written
  Overlap,       \* whether a server may start while another one is starting
  FlushMayFail   \* whether the write at fclose can fail or fall short

ASSUME KeyAssumption ==
  /\ Overlap \in BOOLEAN /\ FlushMayFail \in BOOLEAN
  /\ NoFile \notin Keys /\ Empty \notin Keys /\ Torn \notin Keys
  /\ NoFile # Empty /\ NoFile # Torn /\ Empty # Torn

VARIABLES
  pubFile,    \* the content of <base>.pub
  priFile,    \* the content of <base>.pri
  pc,         \* where each process is
  sawPub,     \* pub_exists, as each process saw it
  rsa,        \* the key pair each process generated, Empty if none
  generated,  \* what generate_rsa_key_files returned, FALSE if not called
  pri,        \* the private key each process loaded, Empty if none
  sawSize,    \* what each process's stat of <base>.pub found
  pub         \* the public key bytes each process serves, Empty if none

files == <<pubFile, priFile>>
locals == <<sawPub, rsa, generated, pri, sawSize, pub>>
vars == <<files, pc, locals>>

Contents == Keys \cup {NoFile, Empty, Torn}

Starting == {"stat_pub", "stat_pri", "open_pub", "open_pri", "flush_pri",
             "flush_pub", "load_pri", "stat_size", "load_pub"}

\* The process has one of the files open for writing.
Writing == {"open_pri", "flush_pri", "flush_pub"}

TypeOK ==
  /\ pubFile \in Contents /\ priFile \in Contents
  /\ pc \in [Procs -> Starting \cup {"down", "serving"}]
  /\ sawPub \in [Procs -> BOOLEAN]
  /\ rsa \in [Procs -> Keys \cup {Empty}]
  /\ generated \in [Procs -> BOOLEAN]
  /\ pri \in [Procs -> Keys \cup {Empty}]
  /\ sawSize \in [Procs -> Contents]
  /\ pub \in [Procs -> Keys \cup {Empty, Torn}]

Init ==
  /\ pubFile = NoFile /\ priFile = NoFile
  /\ pc = [p \in Procs |-> "down"]
  /\ sawPub = [p \in Procs |-> FALSE]
  /\ rsa = [p \in Procs |-> Empty]
  /\ generated = [p \in Procs |-> FALSE]
  /\ pri = [p \in Procs |-> Empty]
  /\ sawSize = [p \in Procs |-> NoFile]
  /\ pub = [p \in Procs |-> Empty]

Goto(p, l) == pc' = [pc EXCEPT ![p] = l]

-----------------------------------------------------------------------------
(* init_RSA.                                                               *)

StartServer(p) ==
  /\ pc[p] = "down"
  /\ Overlap \/ \A q \in Procs : pc[q] \notin Starting
  /\ Goto(p, "stat_pub")
  /\ sawPub' = [sawPub EXCEPT ![p] = FALSE]
  /\ rsa' = [rsa EXCEPT ![p] = Empty]
  /\ generated' = [generated EXCEPT ![p] = FALSE]
  /\ pri' = [pri EXCEPT ![p] = Empty]
  /\ sawSize' = [sawSize EXCEPT ![p] = NoFile]
  /\ pub' = [pub EXCEPT ![p] = Empty]
  /\ UNCHANGED files

StatPub(p) ==
  /\ pc[p] = "stat_pub"
  /\ sawPub' = [sawPub EXCEPT ![p] = pubFile # NoFile]
  /\ Goto(p, "stat_pri")
  /\ UNCHANGED <<files, rsa, generated, pri, sawSize, pub>>

\* Fault: generate a key on every start.
AlwaysGenerate(p) ==
  /\ pc[p] = "stat_pri"
  /\ Goto(p, "open_pub")
  /\ UNCHANGED <<files, locals>>

\* Both files missing: create them.  Both there: load.  One of them: an error.
StatPri(p) ==
  LET pub_exists == sawPub[p]
      pri_exists == priFile # NoFile
  IN  /\ pc[p] = "stat_pri"
      /\ Goto(p, IF ~pub_exists /\ ~pri_exists THEN "open_pub"
                 ELSE IF pub_exists /\ pri_exists THEN "load_pri" ELSE "down")
      /\ UNCHANGED <<files, locals>>

-----------------------------------------------------------------------------
(* generate_rsa_key_files.  init_RSA does not look at what it returns.     *)

\* fopen(pub, "w") creates or truncates the file.
OpenPub(p) ==
  /\ pc[p] = "open_pub"
  /\ \E k \in Keys : rsa' = [rsa EXCEPT ![p] = k]
  /\ pubFile' = Empty
  /\ Goto(p, "open_pri")
  /\ UNCHANGED <<priFile, sawPub, generated, pri, sawSize, pub>>

\* Both PEM writes fit in the stdio buffers: nothing reaches the files yet.
OpenPri(p) ==
  /\ pc[p] = "open_pri"
  /\ priFile' = Empty
  /\ Goto(p, "flush_pri")
  /\ UNCHANGED <<pubFile, locals>>

\* The key generation or one of the fopens fails: return false.
GenerateFails(p) ==
  /\ pc[p] \in {"open_pub", "open_pri"}
  /\ Goto(p, "load_pri")
  /\ UNCHANGED <<files, locals>>

\* What an fclose that has k in its buffer leaves in a file that had old.
Flushed(k, old) == {k} \cup (IF FlushMayFail THEN {old, Torn} ELSE {})

\* One of the PEM writes fails: return false, and the ContextManagers write out
\* the public key if that was the one that succeeded.
WriteFails(p) ==
  /\ pc[p] = "flush_pri"
  /\ pubFile' \in {pubFile} \cup Flushed(rsa[p], pubFile)
  /\ Goto(p, "load_pri")
  /\ UNCHANGED <<priFile, locals>>

\* The ContextManagers close the files in reverse order, after the return
\* value was computed; nobody looks at what fclose returns.
FlushPri(p) ==
  /\ pc[p] = "flush_pri"
  /\ priFile' \in Flushed(rsa[p], priFile)
  /\ Goto(p, "flush_pub")
  /\ UNCHANGED <<pubFile, locals>>

\* Fault: the public key written is not that of the private key.
FlushOtherPub(p) ==
  /\ pc[p] = "flush_pub"
  /\ pubFile' \in Keys \ {rsa[p]}
  /\ generated' = [generated EXCEPT ![p] = TRUE]
  /\ Goto(p, "load_pri")
  /\ UNCHANGED <<priFile, sawPub, rsa, pri, sawSize, pub>>

FlushPub(p) ==
  /\ pc[p] = "flush_pub"
  /\ pubFile' \in Flushed(rsa[p], pubFile)
  /\ generated' = [generated EXCEPT ![p] = TRUE]
  /\ Goto(p, "load_pri")
  /\ UNCHANGED <<priFile, sawPub, rsa, pri, sawSize, pub>>

-----------------------------------------------------------------------------
(* load_pri and load_entire_file.                                          *)

\* Without a whole key in the file init_RSA returns nullptr and main returns.
LoadPri(p) ==
  /\ pc[p] = "load_pri"
  /\ IF priFile \in Keys
       THEN pri' = [pri EXCEPT ![p] = priFile] /\ Goto(p, "stat_size")
       ELSE UNCHANGED pri /\ Goto(p, "down")
  /\ UNCHANGED <<files, sawPub, rsa, generated, sawSize, pub>>

StatSize(p) ==
  /\ pc[p] = "stat_size"
  /\ sawSize' = [sawSize EXCEPT ![p] = pubFile]
  /\ Goto(p, IF pubFile = NoFile THEN "down" ELSE "load_pub")
  /\ UNCHANGED <<files, sawPub, rsa, generated, pri, pub>>

\* Any two whole public keys have the same size; any other content only has
\* its own.
SameSize(a, b) == a = b \/ (a \in Keys /\ b \in Keys)

\* Fault: serve what the file holds without a look at what was read.
LoadUnchecked(p) ==
  /\ pc[p] = "load_pub"
  /\ pub' = [pub EXCEPT ![p] = pubFile]
  /\ Goto(p, "serving")
  /\ UNCHANGED <<files, sawPub, rsa, generated, pri, sawSize>>

\* The file is read and has the size stat saw.  main gives up on no bytes.
LoadPub(p) ==
  /\ pc[p] = "load_pub"
  /\ IF pubFile # NoFile /\ SameSize(sawSize[p], pubFile) /\ pubFile # Empty
       THEN pub' = [pub EXCEPT ![p] = pubFile] /\ Goto(p, "serving")
       ELSE UNCHANGED pub /\ Goto(p, "down")
  /\ UNCHANGED <<files, sawPub, rsa, generated, pri, sawSize>>

-----------------------------------------------------------------------------
(* The environment.                                                        *)

\* The process is killed, or a server that serves is stopped.
Kill(p) ==
  /\ pc[p] # "down"
  /\ Goto(p, "down")
  /\ UNCHANGED <<files, locals>>

\* The scripts' delfile.  They do not run it while a server is writing keys.
Quiet == \A p \in Procs : pc[p] \notin Writing

RemovePub ==
  /\ Quiet /\ pubFile # NoFile
  /\ pubFile' = NoFile
  /\ UNCHANGED <<priFile, pc, locals>>

RemovePri ==
  /\ Quiet /\ priFile # NoFile
  /\ priFile' = NoFile
  /\ UNCHANGED <<pubFile, pc, locals>>

Next ==
  \/ \E p \in Procs :
       \/ StartServer(p) \/ StatPub(p) \/ StatPri(p)
       \/ OpenPub(p) \/ OpenPri(p) \/ GenerateFails(p) \/ WriteFails(p)
       \/ FlushPri(p) \/ FlushPub(p)
       \/ LoadPri(p) \/ StatSize(p) \/ LoadPub(p)
       \/ Kill(p)
  \/ RemovePub
  \/ RemovePri

Spec == Init /\ [][Next]_vars

-----------------------------------------------------------------------------
(* Properties.                                                             *)

\* The public key a server hands out is that of the private key it decrypts
\* with: a client that asked for "the server's public key" can talk to it.
ServedPairMatches == \A p \in Procs : pc[p] = "serving" => pub[p] = pri[p]

\* Two whole keys on disk always belong together, whatever kill left behind.
FilesMatch == pubFile \in Keys /\ priFile \in Keys => pubFile = priFile

CompletePair == pubFile \in Keys /\ pubFile = priFile

\* A pair that is whole is never written again, by this or by a later start:
\* only removing a file ends it.  So a restarted server has the key it had.
CompletePairKept == [][CompletePair => UNCHANGED files \/ RemovePub \/ RemovePri]_vars

\* generate_rsa_key_files returned true: both files hold the key it generated,
\* unless the scripts removed them since.
GenerateTrueMeansSaved ==
  \A p \in Procs : pc[p] = "load_pri" /\ generated[p] =>
    pubFile \in {rsa[p], NoFile} /\ priFile \in {rsa[p], NoFile}
=============================================================================
