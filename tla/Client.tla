-------------------------------- MODULE Client --------------------------------
(***************************************************************************)
(* The client's use of the server's public key: main() in client/client.cc *)
(* with file_exists(), write_file() and load_pub(), composed with servers  *)
(* that come by their keys as in KeyFiles.  The clients of one machine     *)
(* share one key file.                                                     *)
(*                                                                         *)
(* client/requests.cc holds stubs that assert their arguments; what        *)
(* req_key and the commands send and keep is that of solutions/requests.o, *)
(* which the builds that talk to a server link.                            *)
(***************************************************************************)
EXTENDS KeyFiles

CONSTANTS
  Clients,   \* client processes
  NoServer   \* the peer of a client without a connection

ASSUME ClientAssumption == NoServer \notin Procs

VARIABLES
  keyFile,     \* the content of the clients' key file
  cpc,         \* where each client is, or how it ended
  got,         \* the key each client received, Empty if none
  pubkey,      \* what load_pub returned to each client, Empty for a null pointer
  peer,        \* the server each client has a connection to
  rekeyed,     \* whether a server may have a new key: one of its key files was
               \* removed since no server ran and the clients had no key file
  disturbed    \* since the clients had no key file, whether one failed to get the
               \* key, was killed while it wrote it, or ran while another one did

serverVars == vars
clientLocals == <<got, pubkey, peer>>
ghosts == <<rekeyed, disturbed>>
clientVars == <<keyFile, cpc, clientLocals, ghosts>>
systemVars == <<serverVars, clientVars>>

Ended == {"idle", "answered", "unread", "lost", "crashed"}

ClientTypeOK ==
  /\ keyFile \in Keys \cup {NoFile, Empty, Torn}
  /\ cpc \in [Clients -> Ended \cup {"exists", "ask", "await", "open", "flush",
                                     "load", "connect", "send"}]
  /\ got \in [Clients -> Keys \cup {Empty}]
  /\ pubkey \in [Clients -> Keys \cup {Empty}]
  /\ peer \in [Clients -> Procs \cup {NoServer}]
  /\ rekeyed \in BOOLEAN /\ disturbed \in BOOLEAN

ClientInit ==
  /\ Init
  /\ keyFile = NoFile
  /\ cpc = [c \in Clients |-> "idle"]
  /\ got = [c \in Clients |-> Empty]
  /\ pubkey = [c \in Clients |-> Empty]
  /\ peer = [c \in Clients |-> NoServer]
  /\ rekeyed = FALSE /\ disturbed = FALSE

ClientGoto(c, l) == cpc' = [cpc EXCEPT ![c] = l]

Disturb == disturbed' = TRUE /\ UNCHANGED rekeyed

-----------------------------------------------------------------------------
(* main, up to the key.  Neither main nor req_key looks at what the calls  *)
(* return: every failure leads to load_pub.                                *)

StartClient(c) ==
  /\ cpc[c] \in Ended
  /\ ClientGoto(c, "exists")
  /\ got' = [got EXCEPT ![c] = Empty]
  /\ pubkey' = [pubkey EXCEPT ![c] = Empty]
  /\ peer' = [peer EXCEPT ![c] = NoServer]
  /\ IF \A d \in Clients : cpc[d] \in Ended THEN UNCHANGED ghosts ELSE Disturb
  /\ UNCHANGED <<serverVars, keyFile>>

\* file_exists looks at nothing but the name.
KeyFileExists(c) ==
  /\ cpc[c] = "exists"
  /\ ClientGoto(c, IF keyFile = NoFile THEN "ask" ELSE "load")
  /\ UNCHANGED <<serverVars, keyFile, clientLocals, ghosts>>

AskForKey(c, p) ==
  /\ cpc[c] = "ask"
  /\ pc[p] = "serving"
  /\ peer' = [peer EXCEPT ![c] = p]
  /\ ClientGoto(c, "await")
  /\ UNCHANGED <<serverVars, keyFile, got, pubkey, ghosts>>

\* connect_to_server returns -1, on which req_key fails to send.
AskNobody(c) ==
  /\ cpc[c] = "ask"
  /\ ClientGoto(c, "load")
  /\ Disturb
  /\ UNCHANGED <<serverVars, keyFile, clientLocals>>

\* A server answers with the bytes of its public key file, a dead one with none.
Answer(c) == IF peer[c] = NoServer THEN Empty ELSE pub[peer[c]]

\* The client takes exactly as many bytes as a key has.
ReceiveKey(c) ==
  /\ cpc[c] = "await"
  /\ Answer(c) \in Keys
  /\ got' = [got EXCEPT ![c] = Answer(c)]
  /\ peer' = [peer EXCEPT ![c] = NoServer]
  /\ ClientGoto(c, "open")
  /\ UNCHANGED <<serverVars, keyFile, pubkey, ghosts>>

\* Fewer bytes arrive: the server was killed, or its file is torn.
ReceiveNoKey(c) ==
  /\ cpc[c] = "await"
  /\ Answer(c) \notin Keys
  /\ peer' = [peer EXCEPT ![c] = NoServer]
  /\ ClientGoto(c, "load")
  /\ Disturb
  /\ UNCHANGED <<serverVars, keyFile, got, pubkey>>

\* write_file: fopen(keyfile, "wb") creates or truncates, fwrite fills a buffer.
OpenKeyFile(c) ==
  /\ cpc[c] = "open"
  /\ keyFile' = Empty
  /\ ClientGoto(c, "flush")
  /\ UNCHANGED <<serverVars, clientLocals, ghosts>>

\* The fopen fails and write_file returns false.
OpenKeyFileFails(c) ==
  /\ cpc[c] = "open"
  /\ ClientGoto(c, "load")
  /\ Disturb
  /\ UNCHANGED <<serverVars, keyFile, clientLocals>>

\* Fault: the file is not closed before it is read back.
KeepKeyBuffered(c) ==
  /\ cpc[c] = "flush"
  /\ ClientGoto(c, "load")
  /\ UNCHANGED <<serverVars, keyFile, clientLocals, ghosts>>

\* The ContextManager's fclose, after write_file's result is known.
FlushKeyFile(c) ==
  /\ cpc[c] = "flush"
  /\ keyFile' \in Flushed(got[c], keyFile)
  /\ ClientGoto(c, "load")
  /\ UNCHANGED <<serverVars, clientLocals, ghosts>>

\* Fault: whatever the file holds is taken for a key.
LoadAnything(c) ==
  /\ cpc[c] = "load"
  /\ pubkey' = [pubkey EXCEPT ![c] = keyFile]
  /\ ClientGoto(c, "connect")
  /\ UNCHANGED <<serverVars, keyFile, got, peer, ghosts>>

\* A null pointer without a file or a whole key in it.
LoadPubKey(c) ==
  /\ cpc[c] = "load"
  /\ pubkey' = [pubkey EXCEPT ![c] = IF keyFile \in Keys THEN keyFile ELSE Empty]
  /\ ClientGoto(c, "connect")
  /\ UNCHANGED <<serverVars, keyFile, got, peer, ghosts>>

-----------------------------------------------------------------------------
(* main, from the key on.                                                  *)

Connect(c) ==
  /\ cpc[c] = "connect"
  /\ \E p \in {q \in Procs : pc[q] = "serving"} \cup {NoServer} :
       peer' = [peer EXCEPT ![c] = p]
  /\ ClientGoto(c, "send")
  /\ UNCHANGED <<serverVars, keyFile, got, pubkey, ghosts>>

\* Every command asserts that it got a key before it touches the socket.  It
\* also asserts the socket not to be 0, which -1 passes.
AssertsHold(c) == pubkey[c] # Empty

\* The command is sent so that only the key's owner can read it.
RunCommand(c) ==
  /\ cpc[c] = "send"
  /\ ClientGoto(c, IF ~AssertsHold(c) THEN "crashed"
                   ELSE IF peer[c] = NoServer THEN "lost"
                   ELSE IF pubkey[c] = pri[peer[c]] THEN "answered" ELSE "unread")
  /\ UNCHANGED <<serverVars, keyFile, clientLocals, ghosts>>

KillClient(c) ==
  /\ cpc[c] \notin Ended
  /\ ClientGoto(c, "lost")
  /\ IF cpc[c] = "flush" THEN Disturb ELSE UNCHANGED ghosts
  /\ UNCHANGED <<serverVars, keyFile, clientLocals>>

-----------------------------------------------------------------------------
(* The servers and the scripts.                                            *)

ServerStep(p) ==
  \/ StartServer(p) \/ StatPub(p) \/ StatPri(p)
  \/ OpenPub(p) \/ OpenPri(p) \/ GenerateFails(p) \/ WriteFails(p)
  \/ FlushPri(p) \/ FlushPub(p)
  \/ LoadPri(p) \/ StatSize(p) \/ LoadPub(p)

\* A server that dies takes its connections with it.
KillServer(p) ==
  /\ Kill(p)
  /\ peer' = [c \in Clients |-> IF peer[c] = p THEN NoServer ELSE peer[c]]
  /\ UNCHANGED <<keyFile, cpc, got, pubkey, ghosts>>

RemoveServerKeys ==
  /\ RemovePub \/ RemovePri
  /\ rekeyed' = TRUE
  /\ UNCHANGED <<keyFile, cpc, clientLocals, disturbed>>

\* The scripts remove the key file when no client runs.
RemoveKeyFile ==
  /\ \A c \in Clients : cpc[c] \in Ended
  /\ keyFile # NoFile
  /\ keyFile' = NoFile
  /\ rekeyed' = (rekeyed /\ \E p \in Procs : pc[p] # "down")
  /\ disturbed' = FALSE
  /\ UNCHANGED <<serverVars, cpc, clientLocals>>

ClientStep(c) ==
  \/ StartClient(c)
  \/ KeyFileExists(c)
  \/ \E p \in Procs : AskForKey(c, p)
  \/ AskNobody(c)
  \/ ReceiveKey(c)
  \/ ReceiveNoKey(c)
  \/ OpenKeyFile(c)
  \/ OpenKeyFileFails(c)
  \/ FlushKeyFile(c)
  \/ LoadPubKey(c)
  \/ Connect(c)
  \/ RunCommand(c)
  \/ KillClient(c)

ClientNext ==
  \/ \E c \in Clients : ClientStep(c)
  \/ \E p \in Procs : ServerStep(p) /\ UNCHANGED clientVars
  \/ \E p \in Procs : KillServer(p)
  \/ RemoveServerKeys
  \/ RemoveKeyFile

ClientSpec == ClientInit /\ [][ClientNext]_systemVars
-----------------------------------------------------------------------------
(* Properties.                                                             *)

Ends(c, outcome) == cpc[c] # outcome /\ cpc'[c] = outcome

\* Kills and restarts of servers and clients, at any point, never leave a
\* client with a key that its server cannot read with: that takes the removal
\* of the server's key files, and removing the clients' file then helps.
UnreadOnlyIfRekeyed == [][\A c \in Clients : Ends(c, "unread") => rekeyed]_systemVars

\* A client runs a command without a key only if a client could not get the
\* key, was killed while it wrote the key file, or overlapped with another one;
\* removing the key file always ends this.
CrashOnlyIfDisturbed ==
  [][\A c \in Clients : Ends(c, "crashed") => disturbed]_systemVars
=============================================================================
