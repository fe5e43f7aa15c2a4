----------------------------- MODULE ClientProofs -----------------------------
(***************************************************************************)
(* Proofs about Client: what the clients of one machine make of the key    *)
(* file they share, for any number of clients, servers and keys.           *)
(***************************************************************************)
EXTENDS Client, KeyFilesProofs

-----------------------------------------------------------------------------
(* The servers' side of a step.                                            *)

\* Every step of the whole is a step of the servers, or none of theirs.
LEMMA StepOfServers == [ClientNext]_systemVars => [Next]_vars
<1>. SUFFICES ASSUME [ClientNext]_systemVars PROVE [Next]_vars
  OBVIOUS
<1>1. ASSUME NEW c \in Clients, ClientStep(c) PROVE UNCHANGED vars
  BY <1>1 DEF ClientStep, serverVars, StartClient, KeyFileExists, AskForKey, AskNobody,
              ReceiveKey, ReceiveNoKey, OpenKeyFile, OpenKeyFileFails, FlushKeyFile,
              LoadPubKey, Connect, RunCommand, KillClient
<1>2. ASSUME NEW p \in Procs, ServerStep(p) PROVE Next
  BY <1>2 DEF ServerStep, Next
<1>3. ASSUME NEW p \in Procs, KillServer(p) PROVE Next
  BY <1>3 DEF KillServer, Next
<1>4. CASE RemoveServerKeys
  BY <1>4 DEF RemoveServerKeys, Next
<1>5. CASE RemoveKeyFile \/ UNCHANGED systemVars
  BY <1>5 DEF RemoveKeyFile, systemVars, serverVars
<1>. QED BY <1>1, <1>2, <1>3, <1>4, <1>5 DEF ClientNext

\* The servers that clients talk to are those of KeyFiles.
LEMMA ServersOfKeyFiles == ClientSpec => Spec
<1>1. ClientInit => Init
  BY DEF ClientInit
<1>. QED BY <1>1, StepOfServers, PTL DEF ClientSpec, Spec

\* A client changes nothing that a server has.
LEMMA ServersUnchanged ==
  ASSUME NEW c \in Clients, ClientStep(c)
  PROVE  UNCHANGED <<pubFile, priFile, pc, sawPub, rsa, generated, pri, sawSize, pub>>
BY DEF ClientStep, serverVars, vars, files, locals, StartClient, KeyFileExists, AskForKey,
       AskNobody, ReceiveKey, ReceiveNoKey, OpenKeyFile, OpenKeyFileFails, FlushKeyFile,
       LoadPubKey, Connect, RunCommand, KillClient

-----------------------------------------------------------------------------
(* Types.                                                                  *)

\* A step keeps the types of both sides.
LEMMA ClientNextType ==
  ASSUME TypeOK, ClientTypeOK, [ClientNext]_systemVars
  PROVE  TypeOK' /\ ClientTypeOK'
<1>1. TypeOK'
  BY StepOfServers, NextType
<1>2. ClientTypeOK'
  <2>. USE DEF ClientTypeOK, ClientGoto, Ended, Disturb, clientLocals, ghosts
  <2>1. ASSUME NEW c \in Clients, StartClient(c) PROVE ClientTypeOK'
    BY <2>1 DEF StartClient
  <2>2. ASSUME NEW c \in Clients, KeyFileExists(c) PROVE ClientTypeOK'
    BY <2>2 DEF KeyFileExists
  <2>3. ASSUME NEW c \in Clients, NEW p \in Procs, AskForKey(c, p) PROVE ClientTypeOK'
    BY <2>3 DEF AskForKey
  <2>4. ASSUME NEW c \in Clients, AskNobody(c) PROVE ClientTypeOK'
    BY <2>4 DEF AskNobody
  <2>5. ASSUME NEW c \in Clients, ReceiveKey(c) PROVE ClientTypeOK'
    BY <2>5 DEF ReceiveKey
  <2>6. ASSUME NEW c \in Clients, ReceiveNoKey(c) PROVE ClientTypeOK'
    BY <2>6 DEF ReceiveNoKey
  <2>7. ASSUME NEW c \in Clients, OpenKeyFile(c) PROVE ClientTypeOK'
    BY <2>7 DEF OpenKeyFile
  <2>8. ASSUME NEW c \in Clients, OpenKeyFileFails(c) PROVE ClientTypeOK'
    BY <2>8 DEF OpenKeyFileFails
  <2>9. ASSUME NEW c \in Clients, FlushKeyFile(c) PROVE ClientTypeOK'
    BY <2>9 DEF FlushKeyFile, Flushed
  <2>10. ASSUME NEW c \in Clients, LoadPubKey(c) PROVE ClientTypeOK'
    BY <2>10 DEF LoadPubKey
  <2>11. ASSUME NEW c \in Clients, Connect(c) PROVE ClientTypeOK'
    BY <2>11 DEF Connect
  <2>12. ASSUME NEW c \in Clients, RunCommand(c) PROVE ClientTypeOK'
    BY <2>12 DEF RunCommand
  <2>13. ASSUME NEW c \in Clients, KillClient(c) PROVE ClientTypeOK'
    BY <2>13 DEF KillClient
  <2>14. ASSUME NEW p \in Procs, KillServer(p) PROVE ClientTypeOK'
    BY <2>14 DEF KillServer
  <2>15. CASE UNCHANGED clientVars
    BY <2>15 DEF clientVars
  <2>16. CASE RemoveServerKeys \/ RemoveKeyFile
    BY <2>16 DEF RemoveServerKeys, RemoveKeyFile
  <2>. QED
    BY <2>1, <2>2, <2>3, <2>4, <2>5, <2>6, <2>7, <2>8, <2>9, <2>10, <2>11, <2>12, <2>13,
       <2>14, <2>15, <2>16
    DEF ClientNext, ClientStep, systemVars
<1>. QED BY <1>1, <1>2

\* The variables of servers and clients always have their types, whatever fails.
THEOREM ClientTypeCorrect == ClientSpec => [](TypeOK /\ ClientTypeOK)
<1>1. ClientInit => TypeOK /\ ClientTypeOK
  BY DEF ClientInit, Init, TypeOK, Contents, ClientTypeOK, Ended
<1>. QED BY <1>1, ClientNextType, PTL DEF ClientSpec

-----------------------------------------------------------------------------
(* The clients' key file holds a whole key, as long as nothing disturbed   *)
(* them.                                                                   *)

Runs(c) == cpc[c] \notin Ended

\* Undisturbed clients run one after the other, and what the one that runs has
\* received, written or loaded is a whole key.
Undisturbed ==
  ~disturbed =>
    /\ \A c, d \in Clients : Runs(c) /\ Runs(d) => c = d
    /\ keyFile \in Keys \cup {NoFile} \/ \E c \in Clients : cpc[c] = "flush"
    /\ \A c \in Clients :
         /\ cpc[c] \in {"open", "flush"} => got[c] \in Keys
         /\ cpc[c] = "load" => keyFile \in Keys
         /\ cpc[c] \in {"connect", "send"} => pubkey[c] # Empty

\* A client's step leaves the clients undisturbed, or says so.
LEMMA ClientUndisturbed ==
  ASSUME ~FlushMayFail, ClientTypeOK, Undisturbed, NEW c \in Clients, ClientStep(c)
  PROVE  Undisturbed'
<1>. USE KeyAssumption
     DEF ClientTypeOK, Undisturbed, Runs, Ended, ClientGoto, Disturb, clientLocals, ghosts
<1>1. CASE StartClient(c)
  BY <1>1 DEF StartClient
<1>2. CASE KeyFileExists(c)
  BY <1>2 DEF KeyFileExists
<1>3. ASSUME NEW p \in Procs, AskForKey(c, p) PROVE Undisturbed'
  BY <1>3 DEF AskForKey
<1>4. CASE AskNobody(c) \/ ReceiveNoKey(c) \/ OpenKeyFileFails(c)
  BY <1>4 DEF AskNobody, ReceiveNoKey, OpenKeyFileFails
<1>5. CASE ReceiveKey(c)
  BY <1>5 DEF ReceiveKey
<1>6. CASE OpenKeyFile(c)
  BY <1>6 DEF OpenKeyFile
<1>7. CASE FlushKeyFile(c)
  BY <1>7 DEF FlushKeyFile, Flushed
<1>8. CASE LoadPubKey(c)
  BY <1>8 DEF LoadPubKey
<1>9. CASE Connect(c)
  BY <1>9 DEF Connect
<1>10. CASE RunCommand(c)
  BY <1>10 DEF RunCommand
<1>11. CASE KillClient(c)
  BY <1>11 DEF KillClient
<1>. QED
  BY <1>1, <1>2, <1>3, <1>4, <1>5, <1>6, <1>7, <1>8, <1>9, <1>10, <1>11 DEF ClientStep

\* On a disk that takes what is written, Undisturbed always holds.
THEOREM ClientsUndisturbed ==
  ASSUME ~FlushMayFail
  PROVE  ClientSpec => []Undisturbed
<1>1. ClientInit => Undisturbed
  BY DEF ClientInit, Undisturbed, Runs, Ended
<1>2. ClientTypeOK /\ Undisturbed /\ [ClientNext]_systemVars => Undisturbed'
  <2>. SUFFICES ASSUME ClientTypeOK, Undisturbed, [ClientNext]_systemVars
                PROVE  Undisturbed'
    OBVIOUS
  <2>1. ASSUME NEW p \in Procs, KillServer(p) PROVE Undisturbed'
    BY <2>1 DEF KillServer, ghosts, Undisturbed, Runs
  <2>2. ASSUME UNCHANGED <<keyFile, cpc, got, pubkey, disturbed>> PROVE Undisturbed'
    BY <2>2 DEF Undisturbed, Runs
  <2>3. CASE RemoveKeyFile
    BY <2>3 DEF RemoveKeyFile, clientLocals, Undisturbed, Runs, Ended
  <2>. QED
    BY <2>1, <2>2, <2>3, ClientUndisturbed
    DEF ClientNext, systemVars, clientVars, clientLocals, ghosts, RemoveServerKeys
<1>. QED BY <1>1, <1>2, ClientTypeCorrect, PTL DEF ClientSpec

\* A client without a key is the victim of another one, or of a server that did
\* not answer; nothing else makes the assert on the key fail.
THEOREM CrashHasACause ==
  ASSUME ~FlushMayFail
  PROVE  ClientSpec => CrashOnlyIfDisturbed
<1>. DEFINE Caused == \A c \in Clients : Ends(c, "crashed") => disturbed
<1>1. ClientTypeOK /\ Undisturbed /\ [ClientNext]_systemVars => [Caused]_systemVars
  <2>. SUFFICES ASSUME ClientTypeOK, Undisturbed, ClientNext,
                       NEW c \in Clients, Ends(c, "crashed")
                PROVE  disturbed
    BY DEF Caused
  <2>1. RunCommand(c)
    <3>. USE DEF Ends, ClientTypeOK, ClientGoto
    <3>1. ASSUME NEW d \in Clients, ClientStep(d) PROVE RunCommand(c)
      BY <3>1 DEF ClientStep, StartClient, KeyFileExists, AskForKey, AskNobody, ReceiveKey,
                  ReceiveNoKey, OpenKeyFile, OpenKeyFileFails, FlushKeyFile, LoadPubKey,
                  Connect, RunCommand, KillClient
    <3>. QED
      BY <3>1 DEF ClientNext, clientVars, KillServer, RemoveServerKeys, RemoveKeyFile
  <2>2. cpc[c] = "send" /\ pubkey[c] = Empty
    BY <2>1 DEF RunCommand, AssertsHold, Ends, ClientGoto, ClientTypeOK
  <2>. QED BY <2>2 DEF Undisturbed
<1>. QED
  BY <1>1, ClientTypeCorrect, ClientsUndisturbed, PTL DEF ClientSpec, CrashOnlyIfDisturbed

-----------------------------------------------------------------------------
(* All who have a key have the same one, as long as no server's key file   *)
(* was removed.                                                            *)

\* The servers' files hold the pair k, which no start of a server writes again.
Settled(k) == k \in Keys /\ pubFile = k /\ priFile = k

\* A server reads its private key before it serves, and its clients lose their
\* connections when it stops.
PriLoaded ==
  \A p \in Procs : pc[p] \in {"stat_size", "load_pub", "serving"} => pri[p] \in Keys
PeersServe == \A c \in Clients : peer[c] # NoServer => pc[peer[c]] = "serving"

\* What a server has loaded is what its files still hold, a torn public key
\* included.
ServersAgree ==
  \A p \in Procs : /\ pc[p] \in {"stat_size", "load_pub", "serving"} => priFile = pri[p]
                   /\ pc[p] = "serving" => pubFile = pub[p]

\* And a client that has received or loaded a key has that of a whole pair.
ClientAgrees(c) ==
  /\ cpc[c] \in {"open", "flush"} => Settled(got[c])
  /\ cpc[c] \in {"connect", "send"} /\ pubkey[c] # Empty => Settled(pubkey[c])

ClientsAgree == (keyFile \in Keys => Settled(keyFile)) /\ \A c \in Clients : ClientAgrees(c)

Agreement ==
  PriLoaded /\ PeersServe /\ (~rekeyed => ServersAgree /\ ClientsAgree)

\* A server's start does not touch the files once the public key was written.
LEMMA FilesStay ==
  ASSUME KeyInv, NEW p \in Procs, ServerStep(p), pubFile \notin {NoFile, Empty}
  PROVE  UNCHANGED files
<1>. USE KeyAssumption DEF KeyInv, files
<1>1. ASSUME OpenPub(p) \/ OpenPri(p) \/ WriteFails(p) \/ FlushPri(p) \/ FlushPub(p)
      PROVE  FALSE
  BY <1>1 DEF OpenPub, OpenPri, WriteFails, FlushPri, FlushPub, Progress
<1>. QED
  BY <1>1 DEF ServerStep, StartServer, StatPub, StatPri, GenerateFails, LoadPri, StatSize, LoadPub

\* The step of a server that starts leaves the others where they are, and their
\* keys as well.
LEMMA OtherServers ==
  ASSUME NEW p \in Procs, ServerStep(p), TypeOK, NEW q \in Procs \ {p}
  PROVE  pc'[q] = pc[q] /\ pri'[q] = pri[q] /\ pub'[q] = pub[q]
BY DEF TypeOK, Goto, locals, ServerStep, StartServer, StatPub, StatPri, OpenPub, OpenPri,
       GenerateFails, WriteFails, FlushPri, FlushPub, LoadPri, StatSize, LoadPub

\* A server that starts agrees with those that serve.
LEMMA ServerAgrees ==
  ASSUME KeyInv, ClientTypeOK, Agreement, NEW p \in Procs, ServerStep(p), UNCHANGED clientVars
  PROVE  Agreement'
<1>. USE KeyAssumption DEF clientVars, clientLocals, ghosts
<1>1. TypeOK /\ Progress(p) /\ OneStarts
  BY DEF KeyInv
<1>2. PriLoaded'
  <2>1. pc'[p] \in {"stat_size", "load_pub", "serving"} => pri'[p] \in Keys
    BY <1>1 DEF Agreement, PriLoaded, TypeOK, Goto, locals, ServerStep, StartServer, StatPub,
                StatPri, OpenPub, OpenPri, GenerateFails, WriteFails, FlushPri, FlushPub,
                LoadPri, StatSize, LoadPub
  <2>. QED BY <1>1, <2>1, OtherServers DEF Agreement, PriLoaded
<1>3. pc[p] # "serving"
  BY DEF ServerStep, StartServer, StatPub, StatPri, OpenPub, OpenPri, GenerateFails,
         WriteFails, FlushPri, FlushPub, LoadPri, StatSize, LoadPub
<1>4. PeersServe'
  <2>1. ASSUME NEW c \in Clients, peer[c] # NoServer PROVE pc'[peer[c]] = "serving"
    <3>1. peer[c] \in Procs \ {p} /\ pc[peer[c]] = "serving"
      BY <1>3, <2>1 DEF Agreement, PeersServe, ClientTypeOK
    <3>. QED BY <1>1, <3>1, OtherServers
  <2>. QED BY <2>1 DEF PeersServe
<1>5. ASSUME NEW k, Settled(k) PROVE Settled(k)'
  BY <1>5, FilesStay DEF Settled, files
<1>6. ASSUME ~rekeyed PROVE ServersAgree' /\ ClientsAgree'
  <2>1. ServersAgree /\ ClientsAgree
    BY <1>6 DEF Agreement
  <2>2. ClientsAgree'
    BY <1>5, <2>1 DEF ClientsAgree, ClientAgrees
  <2>3. pc'[p] \in {"stat_size", "load_pub"} => priFile' = pri'[p]
    BY <1>1, <2>1 DEF ServersAgree, TypeOK, Goto, locals, files, ServerStep, StartServer,
                      StatPub, StatPri, OpenPub, OpenPri, GenerateFails, WriteFails,
                      FlushPri, FlushPub, LoadPri, StatSize, LoadPub
  <2>4. pc'[p] = "serving" => priFile' = pri'[p] /\ pubFile' = pub'[p]
    BY <1>1, <2>1 DEF ServersAgree, TypeOK, Goto, locals, files, ServerStep, StartServer,
                      StatPub, StatPri, OpenPub, OpenPri, GenerateFails, WriteFails,
                      FlushPri, FlushPub, LoadPri, StatSize, LoadPub
  <2>5. ASSUME NEW q \in Procs \ {p}
        PROVE  /\ pc'[q] \in {"stat_size", "load_pub", "serving"} => priFile' = pri'[q]
               /\ pc'[q] = "serving" => pubFile' = pub'[q]
    <3>1. pc'[q] = pc[q] /\ pri'[q] = pri[q] /\ pub'[q] = pub[q]
      BY <1>1, <2>5, OtherServers
    <3>2. CASE pc[q] = "serving"
      <4>1. pubFile = pub[q] /\ pub[q] \in {pri[q], Torn} /\ pri[q] \in Keys
        BY <2>1, <2>5, <3>2 DEF ServersAgree, KeyInv, Progress, Agreement, PriLoaded
      <4>2. UNCHANGED files
        BY <4>1, FilesStay
      <4>. QED BY <2>1, <2>5, <3>1, <3>2, <4>2 DEF ServersAgree, files
    <3>3. CASE pc[q] \in {"stat_size", "load_pub"}
      <4>1. pc[p] \notin Starting
        BY <1>1, <2>5, <3>3 DEF OneStarts, Starting
      <4>2. UNCHANGED priFile
        BY <4>1 DEF Starting, files, ServerStep, StartServer, StatPub, StatPri, OpenPub,
                    OpenPri, GenerateFails, WriteFails, FlushPri, FlushPub, LoadPri, StatSize,
                    LoadPub
      <4>. QED BY <2>1, <2>5, <3>1, <3>3, <4>2 DEF ServersAgree
    <3>. QED BY <3>1, <3>2, <3>3
  <2>. QED BY <2>2, <2>3, <2>4, <2>5 DEF ServersAgree
<1>. QED BY <1>2, <1>4, <1>6 DEF Agreement

\* A client agrees with the server that answered it, and with the file it read.
LEMMA ClientStepAgrees ==
  ASSUME KeyInv, ClientTypeOK, Agreement, NEW c \in Clients, ClientStep(c)
  PROVE  Agreement'
<1>. USE KeyAssumption, ClientAssumption
     DEF ClientTypeOK, ClientGoto, Disturb, clientLocals, ghosts
<1>1. UNCHANGED <<pubFile, priFile, pc, pri, pub>>
  BY ServersUnchanged
<1>2. PeersServe'
  BY <1>1 DEF Agreement, PeersServe, ClientStep, StartClient, KeyFileExists, AskForKey,
              AskNobody, ReceiveKey, ReceiveNoKey, OpenKeyFile, OpenKeyFileFails,
              FlushKeyFile, LoadPubKey, Connect, RunCommand, KillClient
<1>3. PriLoaded' /\ (ServersAgree => ServersAgree') /\ rekeyed' = rekeyed
  <2>1. rekeyed' = rekeyed
    BY DEF ClientStep, StartClient, KeyFileExists, AskForKey, AskNobody, ReceiveKey,
           ReceiveNoKey, OpenKeyFile, OpenKeyFileFails, FlushKeyFile, LoadPubKey, Connect,
           RunCommand, KillClient
  <2>. QED BY <1>1, <2>1 DEF Agreement, PriLoaded, ServersAgree, Settled
<1>4. ASSUME ServersAgree, ClientsAgree PROVE ClientsAgree'
  <2>. USE <1>1, <1>4 DEF ClientsAgree, ClientAgrees, Settled
  <2>1. CASE StartClient(c) \/ KeyFileExists(c) \/ RunCommand(c) \/ KillClient(c)
    BY <2>1 DEF StartClient, KeyFileExists, RunCommand, KillClient, Ended
  <2>2. CASE \/ \E p \in Procs : AskForKey(c, p)
             \/ AskNobody(c) \/ ReceiveNoKey(c) \/ OpenKeyFileFails(c)
    BY <2>2 DEF AskForKey, AskNobody, ReceiveNoKey, OpenKeyFileFails
  <2>3. CASE ReceiveKey(c)
    <3>1. peer[c] \in Procs /\ pc[peer[c]] = "serving" /\ Answer(c) = pub[peer[c]]
      BY <2>3 DEF ReceiveKey, Answer, Agreement, PeersServe
    <3>2. Answer(c) = pri[peer[c]] /\ Answer(c) \in Keys
      BY <2>3, <3>1 DEF ReceiveKey, KeyInv, Progress
    <3>3. Settled(Answer(c))
      BY <3>1, <3>2 DEF ServersAgree
    <3>. QED BY <2>3, <3>3 DEF ReceiveKey
  <2>4. CASE OpenKeyFile(c)
    BY <2>4 DEF OpenKeyFile
  <2>5. CASE FlushKeyFile(c)
    BY <2>5 DEF FlushKeyFile, Flushed
  <2>6. CASE LoadPubKey(c) \/ Connect(c)
    BY <2>6 DEF LoadPubKey, Connect
  <2>. QED BY <2>1, <2>2, <2>3, <2>4, <2>5, <2>6 DEF ClientStep
<1>. QED BY <1>2, <1>3, <1>4 DEF Agreement

\* Stopping a server and removing a file leave agreement among those who are left.
LEMMA EnvironmentAgrees ==
  ASSUME KeyInv, ClientTypeOK, Agreement,
         (\E p \in Procs : KillServer(p)) \/ RemoveServerKeys \/ RemoveKeyFile
  PROVE  Agreement'
<1>. USE KeyAssumption, ClientAssumption DEF ghosts, clientLocals, locals, files
<1>1. ASSUME NEW p \in Procs, KillServer(p) PROVE Agreement'
  BY <1>1 DEF KillServer, Kill, Goto, KeyInv, TypeOK, ClientTypeOK, Agreement, PriLoaded,
              PeersServe, ServersAgree, ClientsAgree, ClientAgrees, Settled
<1>2. CASE RemoveServerKeys
  BY <1>2 DEF RemoveServerKeys, RemovePub, RemovePri, Agreement, PriLoaded, PeersServe
<1>3. CASE RemoveKeyFile
  <2>. USE <1>3 DEF RemoveKeyFile, serverVars, vars
  <2>1. PriLoaded' /\ PeersServe'
    BY DEF Agreement, PriLoaded, PeersServe
  <2>2. CASE rekeyed
    <3>1. ASSUME ~rekeyed' PROVE ServersAgree' /\ ClientsAgree'
      BY <2>2, <3>1 DEF ServersAgree, ClientsAgree, ClientAgrees, Ended
    <3>. QED BY <2>1, <3>1 DEF Agreement
  <2>3. CASE ~rekeyed
    BY <2>1, <2>3 DEF Agreement, ServersAgree, ClientsAgree, ClientAgrees, Settled
  <2>. QED BY <2>2, <2>3
<1>. QED BY <1>1, <1>2, <1>3

\* Servers that start one at a time and all clients that have a key agree on one
\* pair until somebody removes a server's file, on any disk.
THEOREM AllAgree ==
  ASSUME ~Overlap
  PROVE  ClientSpec => [](KeyInv /\ Agreement)
<1>1. ClientInit => Agreement
  BY KeyAssumption
  DEF ClientInit, Init, Agreement, PriLoaded, PeersServe, ServersAgree, ClientsAgree,
      ClientAgrees
<1>2. ClientSpec => []KeyInv
  BY ServersOfKeyFiles, KeyInvariance
<1>3. KeyInv /\ ClientTypeOK /\ Agreement /\ [ClientNext]_systemVars => Agreement'
  <2>. SUFFICES ASSUME KeyInv, ClientTypeOK, Agreement, UNCHANGED systemVars PROVE Agreement'
    BY ServerAgrees, ClientStepAgrees, EnvironmentAgrees DEF ClientNext
  <2>. QED
    BY DEF systemVars, serverVars, vars, files, locals, clientVars, clientLocals, ghosts,
           Agreement, PriLoaded, PeersServe, ServersAgree, ClientsAgree, ClientAgrees, Settled
<1>. QED BY <1>1, <1>2, <1>3, ClientTypeCorrect, PTL DEF ClientSpec

\* A command that its server cannot read takes a removed key file; kills and
\* restarts, however many, and full disks are not enough.
THEOREM UnreadHasACause ==
  ASSUME ~Overlap
  PROVE  ClientSpec => UnreadOnlyIfRekeyed
<1>. DEFINE Caused == \A c \in Clients : Ends(c, "unread") => rekeyed
<1>1. ClientTypeOK /\ Agreement /\ [ClientNext]_systemVars => [Caused]_systemVars
  <2>. SUFFICES ASSUME ClientTypeOK, Agreement, ClientNext,
                       NEW c \in Clients, Ends(c, "unread"), ~rekeyed
                PROVE  FALSE
    BY DEF Caused
  <2>1. RunCommand(c)
    <3>. USE DEF Ends, ClientTypeOK, ClientGoto
    <3>1. ASSUME NEW d \in Clients, ClientStep(d) PROVE RunCommand(c)
      BY <3>1 DEF ClientStep, StartClient, KeyFileExists, AskForKey, AskNobody, ReceiveKey,
                  ReceiveNoKey, OpenKeyFile, OpenKeyFileFails, FlushKeyFile, LoadPubKey,
                  Connect, RunCommand, KillClient
    <3>. QED
      BY <3>1 DEF ClientNext, clientVars, KillServer, RemoveServerKeys, RemoveKeyFile
  <2>2. /\ cpc[c] = "send" /\ pubkey[c] # Empty
        /\ peer[c] # NoServer /\ pubkey[c] # pri[peer[c]]
    BY <2>1 DEF RunCommand, AssertsHold, Ends, ClientGoto, ClientTypeOK
  <2>3. Settled(pubkey[c]) /\ priFile = pri[peer[c]]
    BY <2>2 DEF Agreement, PeersServe, ServersAgree, ClientsAgree, ClientAgrees, ClientTypeOK
  <2>. QED BY <2>2, <2>3 DEF Settled
<1>. QED BY <1>1, AllAgree, ClientTypeCorrect, PTL DEF ClientSpec, UnreadOnlyIfRekeyed
=============================================================================
