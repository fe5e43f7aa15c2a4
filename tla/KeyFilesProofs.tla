--------------------------- MODULE KeyFilesProofs ---------------------------
(***************************************************************************)
(* Proofs about KeyFiles for any number of servers and keys, when servers  *)
(* do not start at the same time: what holds on any disk, and what holds   *)
(* if the disk takes what is written.                                      *)
(***************************************************************************)
EXTENDS KeyFiles, TLAPS

\* Every variable always has its type.
LEMMA NextType == TypeOK /\ [Next]_vars => TypeOK'
<1>. SUFFICES ASSUME TypeOK, [Next]_vars PROVE TypeOK'
  OBVIOUS
<1>. USE DEF TypeOK, Contents, Starting, Goto, files, locals
<1>1. ASSUME NEW p \in Procs, StartServer(p) PROVE TypeOK'
  BY <1>1 DEF StartServer
<1>2. ASSUME NEW p \in Procs, StatPub(p) PROVE TypeOK'
  BY <1>2 DEF StatPub
<1>3. ASSUME NEW p \in Procs, StatPri(p) PROVE TypeOK'
  BY <1>3 DEF StatPri
<1>4. ASSUME NEW p \in Procs, OpenPub(p) PROVE TypeOK'
  BY <1>4 DEF OpenPub
<1>5. ASSUME NEW p \in Procs, OpenPri(p) PROVE TypeOK'
  BY <1>5 DEF OpenPri
<1>6. ASSUME NEW p \in Procs, GenerateFails(p) \/ WriteFails(p) PROVE TypeOK'
  BY <1>6 DEF GenerateFails, WriteFails, Flushed
<1>7. ASSUME NEW p \in Procs, FlushPri(p) PROVE TypeOK'
  BY <1>7 DEF FlushPri, Flushed
<1>8. ASSUME NEW p \in Procs, FlushPub(p) PROVE TypeOK'
  BY <1>8 DEF FlushPub, Flushed
<1>9. ASSUME NEW p \in Procs, LoadPri(p) PROVE TypeOK'
  BY <1>9 DEF LoadPri
<1>10. ASSUME NEW p \in Procs, StatSize(p) PROVE TypeOK'
  BY <1>10 DEF StatSize
<1>11. ASSUME NEW p \in Procs, LoadPub(p) PROVE TypeOK'
  BY <1>11 DEF LoadPub
<1>12. ASSUME NEW p \in Procs, Kill(p) PROVE TypeOK'
  BY <1>12 DEF Kill
<1>13. CASE RemovePub \/ RemovePri \/ UNCHANGED vars
  BY <1>13 DEF RemovePub, RemovePri, vars
<1>. QED
  BY <1>1, <1>2, <1>3, <1>4, <1>5, <1>6, <1>7, <1>8, <1>9, <1>10, <1>11, <1>12, <1>13
  DEF Next

\* Every variable of KeyFiles always has its type, whatever the environment.
THEOREM KeyTypeCorrect == Spec => []TypeOK
<1>1. Init => TypeOK
  BY DEF Init, TypeOK, Contents
<1>. QED BY <1>1, NextType, PTL DEF Spec

-----------------------------------------------------------------------------
(* The inductive invariant.                                                *)

OneStarts == \A p, q \in Procs : pc[p] \in Starting /\ pc[q] \in Starting => p = q

\* What a write of k may leave in a file that was empty.
Written(k) == {k} \cup (IF FlushMayFail THEN {Empty, Torn} ELSE {})

\* What the files hold while process p is at each point of its start.
Progress(p) ==
  /\ pc[p] = "stat_pri" /\ ~sawPub[p] => pubFile = NoFile
  /\ pc[p] = "open_pub" => pubFile = NoFile /\ priFile = NoFile
  /\ pc[p] = "open_pri" => pubFile = Empty /\ priFile = NoFile
  /\ pc[p] = "flush_pri" => pubFile = Empty /\ priFile = Empty
  /\ pc[p] = "flush_pub" => pubFile = Empty /\ priFile \in Written(rsa[p])
  /\ pc[p] \in Writing => rsa[p] \in Keys
  /\ pc[p] \in {"stat_pub", "stat_pri", "open_pub"} \cup Writing => ~generated[p]
  /\ pc[p] = "load_pri" /\ generated[p] =>
       {pubFile, priFile} \subseteq Written(rsa[p]) \cup {NoFile}
  /\ pc[p] \in {"stat_size", "load_pub"} => pubFile \in {pri[p], NoFile, Empty, Torn}
  /\ pc[p] = "serving" => pub[p] \in {pri[p], Torn}
  /\ pc[p] = "serving" /\ ~FlushMayFail => pub[p] # Torn

\* Only a write that falls short tears a file.
NotTorn == ~FlushMayFail => pubFile # Torn /\ priFile # Torn

KeyInv ==
  /\ TypeOK
  /\ OneStarts
  /\ FilesMatch
  /\ NotTorn
  /\ \A p \in Procs : Progress(p)

\* A step of the process that starts preserves the invariant.
LEMMA StartStep ==
  ASSUME ~Overlap, KeyInv, NEW p \in Procs,
         \/ StartServer(p) \/ StatPub(p) \/ StatPri(p)
         \/ OpenPub(p) \/ OpenPri(p) \/ GenerateFails(p) \/ WriteFails(p)
         \/ FlushPri(p) \/ FlushPub(p)
         \/ LoadPri(p) \/ StatSize(p) \/ LoadPub(p),
         TypeOK'
  PROVE  KeyInv'
<1>. USE KeyAssumption DEF KeyInv, TypeOK, files, locals, Goto
<1>1. /\ \A q \in Procs : q # p => pc[q] \notin Starting
      /\ \A q \in Procs : q # p =>
           /\ pc'[q] = pc[q] /\ pub'[q] = pub[q] /\ pri'[q] = pri[q]
  BY DEF OneStarts, Starting, StartServer, StatPub, StatPri, OpenPub, OpenPri,
         GenerateFails, WriteFails, FlushPri, FlushPub, LoadPri, StatSize, LoadPub
<1>2. OneStarts'
  BY <1>1 DEF OneStarts
<1>3. \A q \in Procs : q # p => Progress(q)'
  BY <1>1 DEF Progress, Starting, Writing
<1>4. FilesMatch' /\ NotTorn' /\ Progress(p)'
  <2>. USE DEF FilesMatch, NotTorn, Progress, Contents, Written
  <2>1. CASE StartServer(p)
    BY <2>1 DEF StartServer, Writing
  <2>2. CASE StatPub(p)
    BY <2>2 DEF StatPub, Writing
  <2>3. CASE StatPri(p)
    BY <2>3 DEF StatPri, Writing
  <2>4. CASE OpenPub(p)
    BY <2>4 DEF OpenPub, Writing
  <2>5. CASE OpenPri(p)
    BY <2>5 DEF OpenPri, Writing
  <2>6. CASE GenerateFails(p)
    BY <2>6 DEF GenerateFails, Writing
  <2>12. CASE WriteFails(p)
    BY <2>12 DEF WriteFails, Flushed, Writing
  <2>7. CASE FlushPri(p)
    BY <2>7 DEF FlushPri, Flushed, Writing
  <2>8. CASE FlushPub(p)
    BY <2>8 DEF FlushPub, Flushed, Writing
  <2>9. CASE LoadPri(p)
    BY <2>9 DEF LoadPri, Writing
  <2>10. CASE StatSize(p)
    BY <2>10 DEF StatSize, Writing
  <2>11. CASE LoadPub(p)
    BY <2>11 DEF LoadPub, Writing
  <2>. QED
    BY <2>1, <2>2, <2>3, <2>4, <2>5, <2>6, <2>7, <2>8, <2>9, <2>10, <2>11,
       <2>12
<1>. QED BY <1>2, <1>3, <1>4

\* Killing a process and removing a file preserve the invariant.
LEMMA EnvironmentStep ==
  ASSUME KeyInv, (\E p \in Procs : Kill(p)) \/ RemovePub \/ RemovePri \/ UNCHANGED vars,
         TypeOK'
  PROVE  KeyInv'
<1>. USE KeyAssumption
     DEF KeyInv, TypeOK, OneStarts, FilesMatch, NotTorn, Progress, Written, files, locals
<1>1. ASSUME NEW p \in Procs, Kill(p) PROVE KeyInv'
  BY <1>1 DEF Kill, Goto, Starting, Writing
<1>2. CASE RemovePub
  BY <1>2 DEF RemovePub, Quiet, Writing
<1>3. CASE RemovePri
  BY <1>3 DEF RemovePri, Quiet, Writing
<1>4. CASE UNCHANGED vars
  BY <1>4 DEF vars
<1>. QED BY <1>1, <1>2, <1>3, <1>4

\* The invariant always holds, whatever the disk does with what is written.
THEOREM KeyInvariance ==
  ASSUME ~Overlap
  PROVE  Spec => []KeyInv
<1>1. Init => KeyInv
  BY KeyAssumption
  DEF Init, KeyInv, TypeOK, Contents, OneStarts, FilesMatch, NotTorn, Progress,
      Starting, Writing
<1>2. KeyInv /\ [Next]_vars => KeyInv'
  <2>1. KeyInv => TypeOK
    BY DEF KeyInv
  <2>. QED BY <2>1, NextType, StartStep, EnvironmentStep DEF Next
<1>. QED BY <1>1, <1>2, PTL DEF Spec

-----------------------------------------------------------------------------
(* Results.                                                                *)

\* A server never hands out a whole public key that is not that of its private
\* key, even if the disk loses writes: at worst it hands out a torn file.
THEOREM NoForeignKeyServed ==
  ASSUME ~Overlap
  PROVE  Spec => [](\A p \in Procs : pc[p] = "serving" => pub[p] \in {pri[p], Torn})
<1>1. KeyInv => \A p \in Procs : pc[p] = "serving" => pub[p] \in {pri[p], Torn}
  BY DEF KeyInv, Progress
<1>. QED BY <1>1, KeyInvariance, PTL

\* Two whole keys on disk are one pair, whatever was killed, restarted, lost in a
\* write or removed.
THEOREM FilesAlwaysMatch ==
  ASSUME ~Overlap
  PROVE  Spec => []FilesMatch
<1>1. KeyInv => FilesMatch
  BY DEF KeyInv
<1>. QED BY <1>1, KeyInvariance, PTL

\* On a disk that works, a server never hands out a public key that is not that of its private key,
\* whatever was killed and removed before and between its steps.
THEOREM ServedPair ==
  ASSUME ~Overlap, ~FlushMayFail
  PROVE  Spec => []ServedPairMatches
<1>1. KeyInv => ServedPairMatches
  BY DEF KeyInv, Progress, ServedPairMatches
<1>. QED BY <1>1, KeyInvariance, PTL

\* What generate_rsa_key_files says it saved is saved, on a disk that works.
THEOREM GenerateSaved ==
  ASSUME ~Overlap, ~FlushMayFail
  PROVE  Spec => []GenerateTrueMeansSaved
<1>1. KeyInv => GenerateTrueMeansSaved
  BY DEF KeyInv, Progress, GenerateTrueMeansSaved, Written
<1>. QED BY <1>1, KeyInvariance, PTL

\* No start of a server overwrites a whole key pair, on any disk.
THEOREM PairKept ==
  ASSUME ~Overlap
  PROVE  Spec => CompletePairKept
<1>. DEFINE Kept == CompletePair => UNCHANGED files \/ RemovePub \/ RemovePri
<1>1. KeyInv /\ [Next]_vars => [Kept]_vars
  <2>. SUFFICES ASSUME KeyInv, Next, CompletePair PROVE UNCHANGED files \/ RemovePub \/ RemovePri
    BY DEF Kept
  <2>. USE KeyAssumption DEF KeyInv, Progress, CompletePair, files
  <2>1. ASSUME NEW p \in Procs,
               OpenPub(p) \/ OpenPri(p) \/ WriteFails(p) \/ FlushPri(p) \/ FlushPub(p)
        PROVE  FALSE
    BY <2>1 DEF OpenPub, OpenPri, WriteFails, FlushPri, FlushPub
  <2>. QED
    BY <2>1
    DEF Next, StartServer, StatPub, StatPri, GenerateFails, LoadPri, StatSize, LoadPub, Kill
<1>. QED BY <1>1, KeyInvariance, PTL DEF Spec, CompletePairKept
=============================================================================
