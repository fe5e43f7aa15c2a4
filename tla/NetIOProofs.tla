----------------------------- MODULE NetIOProofs -----------------------------
(***************************************************************************)
(* Proofs about NetIO for every message length, socket buffer and number   *)
(* of interruptions, as long as no int of the reader overflows.            *)
(***************************************************************************)
EXTENDS NetIO, TLAPS

\* A message of at least IntMax / 2 bytes can take the reader's buffer, which
\* doubles, past the largest int.
NoOverflow ==
  /\ \A n \in MsgLens : 2 * n + InitialSize <= IntMax
  /\ \A a \in Amnts : a <= IntMax

-----------------------------------------------------------------------------
(* Runs of consecutive bytes.                                              *)

\* n bytes, of which the first is the one after a.
Run(a, n) == [i \in 1 .. n |-> a + i]

\* The first bytes of the message are the run from its start.
LEMMA PrefixIsRun == \A n \in Nat : Prefix(n) = Run(0, n)
BY DEF Prefix, Run

\* An int holds what is small enough.
LEMMA AsIntSmall == ASSUME NEW n \in 0 .. IntMax PROVE AsInt(n) = n
<1>1. IntMax \in Nat
  BY NetAssumption
<1>2. n + IntMax + 1 \in 0 .. 2 * (IntMax + 1) - 1
  BY <1>1
<1>3. (n + IntMax + 1) % (2 * (IntMax + 1)) = n + IntMax + 1
  BY <1>1, <1>2
<1>. QED BY <1>1, <1>3 DEF AsInt

\* A run within the message is a sequence of its bytes.
LEMMA RunType ==
  ASSUME NEW a \in Nat, NEW n \in Nat, NEW m \in Nat, a + n <= m
  PROVE  Run(a, n) \in Seq(1 .. m) /\ Len(Run(a, n)) = n
BY DEF Run

-----------------------------------------------------------------------------
(* The inductive invariant.                                                *)

\* What has been handed over and what is left make up the message.
Sent ==
  /\ next_byte + remain = msgLen + 1
  /\ sender = "true" => remain = 0

\* While a read function runs, its buffer and the wire are two runs of which
\* one goes on where the other ends, and the buffer has room.
Reading ==
  rpc = "reading" =>
    /\ recd \in Nat
    /\ recd + Len(wire) = next_byte - 1
    /\ res = Run(0, recd)
    /\ wire = Run(recd, Len(wire))
    /\ reader = "to_eof" => recd < size /\ size <= 2 * msgLen + InitialSize
    /\ reader = "to_eof_or_n" => size = amnt /\ recd <= amnt

NetInv == TypeOK /\ Sent /\ Reading /\ ReadsWhole

\* No sum that a read function computes overflows.
LEMMA NoSumOverflows ==
  ASSUME NoOverflow, TypeOK, Sent, Reading, rpc = "reading"
  PROVE  /\ msgLen \in Nat /\ amnt \in Nat /\ msgLen <= IntMax
         /\ size \in 0 .. IntMax /\ recd \in 0 .. msgLen /\ recd <= size
         /\ Room = size - recd
<1>1. msgLen \in Nat /\ amnt \in Nat /\ InitialSize \in Nat /\ IntMax \in Nat
  BY NetAssumption DEF TypeOK
<1>2. 2 * msgLen + InitialSize <= IntMax /\ amnt <= IntMax
  BY DEF NoOverflow, TypeOK
<1>3. size \in Nat /\ remain \in Nat /\ next_byte \in Nat /\ recd \in Nat
  BY <1>1 DEF TypeOK, Reading
<1>4. Len(wire) \in Nat
  BY DEF TypeOK
<1>5. recd <= msgLen
  BY <1>1, <1>3, <1>4 DEF Sent, Reading
<1>6. recd <= size /\ size <= IntMax
  <2>1. reader \in {"to_eof", "to_eof_or_n"}
    BY NetAssumption DEF TypeOK
  <2>. QED BY <2>1, <1>1, <1>2, <1>3 DEF Reading
<1>7. AsInt(size - recd) = size - recd
  BY <1>1, <1>3, <1>6, AsIntSmall
<1>. QED BY <1>1, <1>2, <1>3, <1>5, <1>6, <1>7 DEF Room

\* send() puts the next bytes on the wire.
LEMMA SendInv ==
  ASSUME NoOverflow, NetInv, NEW k \in 1 .. msgLen, Send(k)
  PROVE  NetInv'
<1>. DEFINE L == Len(wire)
<1>1. /\ sender = "sending" /\ rpc = "reading" /\ k <= remain /\ k <= SockBuf - L
      /\ wire' = wire \o SubSeq(Prefix(msgLen), next_byte, next_byte + k - 1)
      /\ next_byte' = next_byte + k /\ remain' = remain - k
      /\ UNCHANGED <<inputs, sender, readerVars, eintrs>>
  BY DEF Send
<1>2. TypeOK /\ Sent /\ Reading
  BY DEF NetInv
<1>3. /\ msgLen \in Nat /\ recd \in Nat /\ L \in Nat /\ SockBuf \in Nat
      /\ next_byte \in 1 .. msgLen + 1 /\ remain \in 0 .. msgLen /\ k \in Nat /\ k >= 1
      /\ next_byte + remain = msgLen + 1 /\ recd + L = next_byte - 1
  BY <1>1, <1>2, NetAssumption DEF TypeOK, Sent, Reading
<1>4. wire' = Run(recd, L + k)
  <2>1. SubSeq(Run(0, msgLen), next_byte, next_byte + k - 1) = Run(next_byte - 1, k)
    <3>1. next_byte \in 1 .. msgLen + 1 /\ next_byte + k - 1 \in next_byte - 1 .. msgLen
      BY <1>1, <1>3
    <3>2. 0 + next_byte - 1 = next_byte - 1 /\ (next_byte + k - 1) - next_byte + 1 = k
      BY <1>3
    <3>. QED BY <3>1, <3>2, <1>3 DEF Run
  <2>2. Prefix(msgLen) = Run(0, msgLen)
    BY <1>3, PrefixIsRun
  <2>3. wire = Run(recd, L)
    BY <1>1, <1>2 DEF Reading
  <2>. HIDE DEF L
  <2>4. Run(recd, L) \o Run(recd + L, k) = Run(recd, L + k)
    BY <1>3 DEF Run
  <2>. QED BY <2>1, <2>2, <2>3, <2>4, <1>1, <1>3
<1>5. wire' \in Seq(1 .. msgLen) /\ Len(wire') = L + k
  <2>. HIDE DEF L
  <2>1. L + k \in Nat /\ recd + (L + k) <= msgLen
    BY <1>1, <1>3
  <2>. QED BY <2>1, <1>3, <1>4 DEF Run
<1>6. TypeOK'
  BY <1>1, <1>2, <1>3, <1>5 DEF TypeOK, inputs, readerVars
<1>7. Sent'
  BY <1>1, <1>3 DEF Sent, inputs
<1>8. Reading'
  <2>1. recd + (L + k) = next_byte + k - 1
    BY <1>3
  <2>2. recd' + Len(wire') = next_byte' - 1
    <3>. HIDE DEF L
    <3>. QED BY <2>1, <1>1, <1>5 DEF readerVars
  <2>3. wire' = Run(recd', Len(wire'))
    <3>. HIDE DEF L
    <3>. QED BY <1>1, <1>4, <1>5 DEF readerVars
  <2>. QED BY <2>2, <2>3, <1>1, <1>2 DEF Reading, inputs, readerVars
<1>9. ReadsWhole'
  BY <1>1 DEF ReadsWhole, readerVars
<1>. QED BY <1>6, <1>7, <1>8, <1>9 DEF NetInv

\* recv() moves the oldest bytes of the wire behind those in the buffer.
LEMMA ReceiveInv ==
  ASSUME NoOverflow, NetInv, NEW k \in 1 .. msgLen, Receive(k)
  PROVE  NetInv'
<1>. DEFINE L == Len(wire)
<1>1. /\ Wanting /\ rpc = "reading" /\ k <= Room /\ k <= L
      /\ res' = SubSeq(res, 1, recd) \o SubSeq(wire, 1, k)
      /\ wire' = SubSeq(wire, k + 1, L)
      /\ recd' = AsInt(recd + k) /\ size' = Grow(recd')
      /\ UNCHANGED <<inputs, senderVars, rpc, errno, eintrs>>
  BY DEF Receive, Wanting
<1>2. TypeOK /\ Sent /\ Reading
  BY DEF NetInv
<1>3. /\ msgLen \in Nat /\ amnt \in Nat /\ L \in Nat /\ k \in Nat /\ k >= 1
      /\ next_byte \in 1 .. msgLen + 1 /\ recd + L = next_byte - 1
      /\ InitialSize \in Nat /\ IntMax \in Nat
  BY <1>1, <1>2, NetAssumption DEF TypeOK, Sent, Reading
<1>4. /\ msgLen <= IntMax /\ size \in 0 .. IntMax /\ recd \in 0 .. msgLen
      /\ recd <= size /\ Room = size - recd
  BY <1>1, <1>2, NoSumOverflows
<1>5. recd' = recd + k /\ recd + k <= msgLen /\ recd + k <= size
  <2>1. recd + k <= msgLen
    BY <1>1, <1>3, <1>4
  <2>2. recd + k \in 0 .. IntMax
    BY <2>1, <1>3, <1>4
  <2>. QED BY <2>1, <2>2, <1>1, <1>3, <1>4, AsIntSmall
<1>6. wire = Run(recd, L) /\ res = Run(0, recd)
  BY <1>1, <1>2 DEF Reading
<1>7. res' = Run(0, recd + k)
  <2>. HIDE DEF L
  <2>1. SubSeq(Run(0, recd), 1, recd) = Run(0, recd)
    <3>1. 1 \in 1 .. recd + 1 /\ recd \in 1 - 1 .. recd /\ 0 + 1 - 1 = 0 /\ recd - 1 + 1 = recd
      BY <1>4, <1>3
    <3>. QED BY <3>1, <1>3, <1>4 DEF Run
  <2>2. SubSeq(Run(recd, L), 1, k) = Run(recd, k)
    <3>1. 1 \in 1 .. L + 1 /\ k \in 1 - 1 .. L /\ recd + 1 - 1 = recd /\ k - 1 + 1 = k
      BY <1>1, <1>4, <1>3
    <3>. QED BY <3>1, <1>3, <1>4 DEF Run
  <2>3. Run(0, recd) \o Run(recd, k) = Run(0, recd + k)
    BY <1>3, <1>4 DEF Run
  <2>. QED BY <2>1, <2>2, <2>3, <1>1, <1>4, <1>6
<1>8. wire' = Run(recd + k, L - k)
  <2>. HIDE DEF L
  <2>1. /\ k + 1 \in 1 .. L + 1 /\ L \in (k + 1) - 1 .. L
        /\ recd + (k + 1) - 1 = recd + k /\ L - (k + 1) + 1 = L - k
    BY <1>1, <1>3, <1>4
  <2>. QED BY <2>1, <1>1, <1>3, <1>4, <1>6 DEF Run
<1>9. /\ wire' \in Seq(1 .. msgLen) /\ Len(wire') = L - k
      /\ res' \in Seq(1 .. msgLen)
  <2>. HIDE DEF L
  <2>1. L - k \in Nat /\ (recd + k) + (L - k) <= msgLen /\ recd + k \in Nat
    BY <1>1, <1>3, <1>4
  <2>2. 0 + (recd + k) <= msgLen
    BY <1>5, <1>3, <1>4
  <2>. QED BY <2>1, <2>2, <1>3, <1>7, <1>8, RunType
<1>10. /\ size' \in Nat
       /\ reader = "to_eof" => recd + k < size' /\ size' <= 2 * msgLen + InitialSize
       /\ reader # "to_eof" => size' = size
  <2>1. AsInt(size) = size
    BY <1>4, AsIntSmall
  <2>2. reader = "to_eof" => size <= 2 * msgLen + InitialSize
    BY <1>1, <1>2 DEF Reading
  <2>3. size' = IF reader = "to_eof" /\ recd + k = size THEN 2 * size ELSE size
    BY <1>1, <1>5, <2>1 DEF Grow
  <2>. HIDE DEF L
  <2>. QED BY <2>2, <2>3, <1>3, <1>4, <1>5
<1>11. TypeOK'
  <2>1. L <= SockBuf /\ SockBuf \in Nat
    BY <1>2, NetAssumption DEF TypeOK
  <2>2. L - k <= SockBuf
    <3>. HIDE DEF L
    <3>. QED BY <2>1, <1>3
  <2>3. recd' \in Nat
    BY <1>3, <1>4, <1>5
  <2>4. Len(wire') <= SockBuf
    <3>. HIDE DEF L
    <3>. QED BY <2>2, <1>9
  <2>. QED BY <2>3, <2>4, <1>1, <1>2, <1>9, <1>10 DEF TypeOK, inputs, senderVars
<1>12. Sent'
  BY <1>1, <1>2 DEF Sent, inputs, senderVars
<1>13. Reading'
  <2>1. reader = "to_eof_or_n" => size' = amnt /\ recd + k <= amnt
    BY <1>1, <1>2, <1>5, <1>10 DEF Reading
  <2>2. (recd + k) + (L - k) = next_byte - 1 /\ recd + k \in Nat
    BY <1>3, <1>4
  <2>. QED
    BY <2>1, <2>2, <1>1, <1>5, <1>7, <1>8, <1>9, <1>10 DEF Reading, inputs, senderVars
<1>14. ReadsWhole'
  BY <1>1 DEF ReadsWhole
<1>. QED BY <1>11, <1>12, <1>13, <1>14 DEF NetInv

\* The steps of the sending thread that put nothing on the wire.
LEMMA SenderInv ==
  ASSUME NetInv,
         \/ \E k \in 1 .. msgLen : SendLost(k)
         \/ SendInterrupted \/ SendFails \/ SendKilled \/ SendReturns
         \/ SenderCloses \/ SenderCrashes
  PROVE  NetInv'
<1>1. CASE \E k \in 1 .. msgLen : SendLost(k)
  <2>1. PICK k \in 1 .. msgLen : SendLost(k)
    BY <1>1
  <2>2. msgLen \in Nat
    BY NetAssumption DEF NetInv, TypeOK
  <2>. QED
    BY <2>1, <2>2 DEF NetInv, TypeOK, Sent, Reading, ReadsWhole, Gone, SendLost, inputs,
                      readerVars
<1>2. CASE SendInterrupted
  <2>1. eintrs' \in 0 .. MaxEintr
    BY <1>2, NetAssumption DEF NetInv, TypeOK, SendInterrupted, Interrupted
  <2>. QED
    BY <1>2, <2>1 DEF NetInv, TypeOK, Sent, Reading, ReadsWhole, Gone, SendInterrupted,
                      inputs, senderVars, readerVars
<1>3. CASE SendFails \/ SendKilled \/ SendReturns \/ SenderCloses \/ SenderCrashes
  BY <1>3 DEF NetInv, TypeOK, Sent, Reading, ReadsWhole, Gone, SendFails, SendKilled,
              SendReturns, SenderCloses, SenderCrashes, inputs, readerVars
<1>. QED BY <1>1, <1>2, <1>3

\* A read function that waits for bytes passes a part of its buffer to recv().
LEMMA WantingHasRoom ==
  ASSUME NoOverflow, NetInv, Wanting
  PROVE  0 <= recd /\ recd < size /\ Room = size - recd /\ Room # 0
<1>1. rpc = "reading" /\ (reader = "to_eof_or_n" => recd # amnt)
  BY DEF Wanting
<1>2. /\ amnt \in Nat /\ size \in Nat /\ recd \in Nat /\ recd <= size
      /\ Room = size - recd
  BY <1>1, NoSumOverflows, NetAssumption DEF NetInv
<1>3. reader \in {"to_eof", "to_eof_or_n"}
  BY NetAssumption DEF NetInv, TypeOK
<1>4. recd < size
  BY <1>1, <1>2, <1>3 DEF NetInv, Reading
<1>. QED BY <1>2, <1>4

\* A read function ends with the bytes it should have.
LEMMA ReaderInv ==
  ASSUME NoOverflow, NetInv,
         GotEnough \/ ReceiveInterrupted \/ EndOfStream \/ ReceiveFails
  PROVE  NetInv'
<1>1. CASE GotEnough
  <2>1. res = Run(0, amnt) /\ amnt \in Nat
    BY <1>1, NetAssumption DEF NetInv, TypeOK, Reading, GotEnough
  <2>2. res = Prefix(amnt)
    BY <2>1, PrefixIsRun
  <2>. QED
    BY <1>1, <2>2 DEF NetInv, TypeOK, Sent, Reading, ReadsWhole, GotEnough, inputs,
                      senderVars
<1>2. CASE ReceiveInterrupted
  <2>1. eintrs' \in 0 .. MaxEintr
    BY <1>2, NetAssumption DEF NetInv, TypeOK, ReceiveInterrupted, Interrupted
  <2>. QED
    BY <1>2, <2>1 DEF NetInv, TypeOK, Sent, Reading, ReadsWhole, Gone, ReceiveInterrupted,
                      inputs, senderVars
<1>3. CASE EndOfStream
  <2>1. Wanting /\ rpc = "reading"
    BY <1>3 DEF EndOfStream, Wanting
  <2>2. Gone /\ wire = <<>>
    BY <1>3, <2>1, WantingHasRoom DEF EndOfStream, ReturnsZero
  <2>3. recd = msgLen - remain /\ msgLen - remain \in Nat /\ res = Run(0, recd)
    <3>1. /\ recd + Len(wire) = next_byte - 1 /\ next_byte + remain = msgLen + 1
          /\ res = Run(0, recd) /\ recd \in Nat
      BY <2>1 DEF NetInv, Reading, Sent
    <3>2. /\ msgLen \in Nat /\ Len(wire) = 0 /\ remain \in 0 .. msgLen
          /\ next_byte \in 1 .. msgLen + 1
      BY <2>2, NetAssumption DEF NetInv, TypeOK
    <3>. QED BY <3>1, <3>2
  <2>4. res = Prefix(msgLen - remain)
    BY <2>3, PrefixIsRun
  <2>. QED
    BY <1>3, <2>2, <2>4 DEF NetInv, TypeOK, Sent, Reading, ReadsWhole, Gone, EndOfStream,
                            inputs, senderVars
<1>4. CASE ReceiveFails
  BY <1>4 DEF NetInv, TypeOK, Sent, Reading, ReadsWhole, ReceiveFails, inputs, senderVars
<1>. QED BY <1>1, <1>2, <1>3, <1>4

-----------------------------------------------------------------------------
(* The theorems.                                                           *)

\* The invariant always holds.
THEOREM NetInvariance ==
  ASSUME NoOverflow
  PROVE  Spec => []NetInv
<1>1. Init => NetInv
  <2>. SUFFICES ASSUME Init PROVE NetInv
    OBVIOUS
  <2>1. /\ msgLen \in Nat /\ amnt \in Nat /\ InitialSize \in Nat /\ InitialSize > 0
        /\ SockBuf \in Nat /\ MaxEintr \in Nat
    BY NetAssumption DEF Init
  <2>2. TypeOK
    BY <2>1 DEF Init, TypeOK
  <2>3. Sent /\ ReadsWhole
    BY <2>1 DEF Init, Sent, ReadsWhole
  <2>4. Run(0, 0) = <<>>
    BY DEF Run
  <2>5. Reading
    BY <2>1, <2>4 DEF Init, Reading
  <2>. QED BY <2>2, <2>3, <2>5 DEF NetInv
<1>2. NetInv /\ [Next]_vars => NetInv'
  <2>. SUFFICES ASSUME NetInv, [Next]_vars PROVE NetInv'
    OBVIOUS
  <2>1. CASE UNCHANGED vars
    BY <2>1 DEF NetInv, TypeOK, Sent, Reading, ReadsWhole, Gone, vars, inputs, senderVars,
                readerVars
  <2>2. CASE \E k \in 1 .. msgLen : Send(k)
    BY <2>2, SendInv
  <2>3. CASE \E k \in 1 .. msgLen : Receive(k)
    BY <2>3, ReceiveInv
  <2>. QED BY <2>1, <2>2, <2>3, SenderInv, ReaderInv DEF Next
<1>. QED BY <1>1, <1>2, PTL DEF Spec

\* Every variable of a connection always has its type.
THEOREM NetTypeCorrect ==
  ASSUME NoOverflow
  PROVE  Spec => []TypeOK
<1>1. NetInv => TypeOK
  BY DEF NetInv
<1>. QED BY <1>1, NetInvariance, PTL

\* For every message, socket buffer and pattern of short and interrupted calls
\* the bytes arrive in order, each once.
THEOREM Intact ==
  ASSUME NoOverflow
  PROVE  Spec => []StreamIntact
<1>1. NetInv => StreamIntact
  <2>. SUFFICES ASSUME NetInv, rpc = "reading" PROVE res \o wire = Prefix(next_byte - 1)
    BY DEF StreamIntact
  <2>. DEFINE L == Len(wire)
  <2>1. /\ recd \in Nat /\ L \in Nat /\ next_byte - 1 \in Nat /\ recd + L = next_byte - 1
        /\ res = Run(0, recd) /\ wire = Run(recd, L)
    BY NetAssumption DEF NetInv, TypeOK, Reading
  <2>. HIDE DEF L
  <2>2. Run(0, recd) \o Run(recd, L) = Run(0, next_byte - 1)
    BY <2>1 DEF Run
  <2>. QED BY <2>1, <2>2, PrefixIsRun
<1>. QED BY <1>1, NetInvariance, PTL

\* recv() never gets a part of the buffer that is empty or does not exist.
THEOREM HasRoom ==
  ASSUME NoOverflow
  PROVE  Spec => []RecvHasRoom
<1>1. NetInv => RecvHasRoom
  BY WantingHasRoom DEF RecvHasRoom
<1>. QED BY <1>1, NetInvariance, PTL

\* A read function that returns has what was sent, or what it asked for.
THEOREM WholeRead ==
  ASSUME NoOverflow
  PROVE  Spec => []ReadsWhole
<1>1. NetInv => ReadsWhole
  BY DEF NetInv
<1>. QED BY <1>1, NetInvariance, PTL

\* reliable_send does not say TRUE too early.
THEOREM SentWhenTrue ==
  ASSUME NoOverflow
  PROVE  Spec => []TrueMeansSent
<1>1. NetInv => TrueMeansSent
  BY NetAssumption DEF NetInv, TypeOK, Sent, TrueMeansSent
<1>. QED BY <1>1, NetInvariance, PTL
-----------------------------------------------------------------------------
(* When a read ends.                                                       *)

\* The reading thread has something to do: it has all it asked for, or bytes
\* have come, or recv() returns 0 and the function takes that for the end.
ReaderMayGoOn ==
  \/ reader = "to_eof_or_n" /\ recd = amnt
  \/ Wanting /\ wire # <<>>
  \/ Wanting /\ ReturnsZero /\ (reader = "to_eof" \/ errno # "EINTR")

\* The sending thread has something to do while it is read from.
SenderMayGoOn ==
  \/ sender = "sending" /\ (remain = 0 \/ Len(wire) < SockBuf)
  \/ sender \in {"true", "false"}

\* reliable_get_to_eof_or_n is at the end of the stream, short of what it
\* wants, and errno is that of a call that was interrupted before.
HangsOnErrno ==
  /\ Wanting /\ reader = "to_eof_or_n"
  /\ Gone /\ wire = <<>>
  /\ errno = "EINTR"

OnlyErrnoStopsReader ==
  rpc = "reading" => ReaderMayGoOn \/ SenderMayGoOn \/ HangsOnErrno

\* Two threads never wait for one another, and a read ends on its own but for
\* one case (net.cc:79): errno of an earlier call, after a 0 from recv().
THEOREM OnlyErrnoHangs ==
  ASSUME NoOverflow
  PROVE  Spec => []OnlyErrnoStopsReader
<1>1. NetInv => OnlyErrnoStopsReader
  <2>. SUFFICES ASSUME NetInv, rpc = "reading", ~ReaderMayGoOn, ~SenderMayGoOn
                PROVE  HangsOnErrno
    BY DEF OnlyErrnoStopsReader
  <2>1. /\ sender \in {"sending", "true", "false", "closed", "killed", "crashed"}
        /\ reader \in {"to_eof", "to_eof_or_n"} /\ errno \in {"EINTR", "other"}
        /\ Len(wire) \in Nat /\ SockBuf \in Nat \ {0}
    BY NetAssumption DEF NetInv, TypeOK
  <2>2. Wanting
    BY DEF ReaderMayGoOn, Wanting
  <2>3. wire = <<>>
    BY <2>2 DEF ReaderMayGoOn
  <2>4. Len(wire) < SockBuf
    BY <2>1, <2>3
  <2>5. Gone
    BY <2>1, <2>4 DEF SenderMayGoOn, Gone
  <2>. QED BY <2>1, <2>2, <2>3, <2>5 DEF ReaderMayGoOn, ReturnsZero, HangsOnErrno
<1>. QED BY <1>1, NetInvariance, PTL

\* Such a read does not end by itself.
HungStays ==
  [][HangsOnErrno => HangsOnErrno' \/ rpc' = "failed"]_vars

\* Nothing that either end of the connection does brings a read out of that
\* case: it calls recv() for ever, unless the connection breaks.
THEOREM HungForGood ==
  ASSUME NoOverflow
  PROVE  Spec => HungStays
<1>. DEFINE Stays == [HangsOnErrno => HangsOnErrno' \/ rpc' = "failed"]_vars
<1>1. NetInv /\ [Next]_vars => Stays
  <2>. SUFFICES ASSUME NetInv, [Next]_vars, HangsOnErrno
                PROVE  HangsOnErrno' \/ rpc' = "failed"
    OBVIOUS
  <2>. USE DEF HangsOnErrno, Wanting, Gone
  <2>1. CASE UNCHANGED vars
    BY <2>1 DEF vars, inputs, senderVars, readerVars
  <2>2. ASSUME NEW k \in 1 .. msgLen, Receive(k) PROVE FALSE
    BY <2>2, NetAssumption DEF Receive, NetInv, TypeOK
  <2>3. CASE \E k \in 1 .. msgLen : Send(k) \/ SendLost(k)
    BY <2>3 DEF Send, SendLost
  <2>4. CASE SendInterrupted \/ SendFails \/ SendKilled \/ SendReturns
             \/ SenderCloses \/ SenderCrashes
    BY <2>4 DEF SendInterrupted, SendFails, SendKilled, SendReturns, SenderCloses,
                SenderCrashes
  <2>5. CASE GotEnough \/ ReceiveInterrupted \/ EndOfStream
    BY <2>5 DEF GotEnough, ReceiveInterrupted, EndOfStream
  <2>6. CASE ReceiveFails
    BY <2>6 DEF ReceiveFails
  <2>. QED BY <2>1, <2>2, <2>3, <2>4, <2>5, <2>6 DEF Next
<1>. QED BY <1>1, NetInvariance, PTL DEF Spec, HungStays

\* What is left to do: every byte is sent and received, the sender returns and
\* closes, the reader returns.
SenderStage ==
  IF sender = "sending" THEN 2 ELSE IF sender \in {"true", "false"} THEN 1 ELSE 0
BytesLeft == 2 * remain + Len(wire)
StreamLeft == BytesLeft + SenderStage + (IF rpc = "reading" THEN 1 ELSE 0)

StreamComesNearer ==
  [][IF eintrs' = eintrs THEN StreamLeft' < StreamLeft ELSE StreamLeft' = StreamLeft]_vars

\* A connection takes at most 2 * msgLen + 3 steps besides the interruptions:
\* each of the two loops makes progress whenever a call is not interrupted.
THEOREM StreamsEnd ==
  ASSUME NoOverflow
  PROVE  Spec => StreamComesNearer
<1>. DEFINE Nearer == IF eintrs' = eintrs THEN StreamLeft' < StreamLeft
                                          ELSE StreamLeft' = StreamLeft
<1>1. NetInv /\ [Next]_vars => [Nearer]_vars
  <2>. SUFFICES ASSUME NetInv, Next PROVE Nearer
    OBVIOUS
  <2>1. /\ remain \in Nat /\ remain' \in Nat /\ Len(wire) \in Nat /\ Len(wire') \in Nat
        /\ msgLen \in Nat /\ eintrs \in Nat
    <3>1. NetInv'
      BY SendInv, ReceiveInv, SenderInv, ReaderInv DEF Next
    <3>2. msgLen \in Nat /\ msgLen' \in Nat /\ eintrs \in Nat
      BY <3>1, NetAssumption DEF NetInv, TypeOK
    <3>. QED BY <3>1, <3>2 DEF NetInv, TypeOK
  <2>2. CASE \E k \in 1 .. msgLen : Send(k)
    <3>1. PICK k \in 1 .. msgLen : Send(k)
      BY <2>2
    <3>2. Len(wire') = Len(wire) + k
      <4>1. /\ wire' = wire \o SubSeq(Prefix(msgLen), next_byte, next_byte + k - 1)
            /\ wire \in Seq(1 .. msgLen) /\ next_byte \in 1 .. msgLen + 1
            /\ next_byte + remain = msgLen + 1 /\ k <= remain
        BY <3>1 DEF Send, NetInv, TypeOK, Sent
      <4>2. Prefix(msgLen) \in Seq(1 .. msgLen) /\ Len(Prefix(msgLen)) = msgLen
        BY <2>1 DEF Prefix
      <4>3. next_byte + k - 1 <= msgLen /\ next_byte >= 1
        BY <4>1, <2>1
      <4>4. /\ SubSeq(Prefix(msgLen), next_byte, next_byte + k - 1) \in Seq(1 .. msgLen)
            /\ Len(SubSeq(Prefix(msgLen), next_byte, next_byte + k - 1)) = k
        BY <4>1, <4>2, <4>3, <2>1
      <4>. QED BY <4>1, <4>4
    <3>3. /\ remain' = remain - k /\ SenderStage' = SenderStage /\ rpc' = rpc
          /\ eintrs' = eintrs
      BY <3>1 DEF Send, SenderStage, readerVars
    <3>. QED BY <3>2, <3>3, <2>1 DEF StreamLeft, BytesLeft, SenderStage
  <2>3. CASE \E k \in 1 .. msgLen : SendLost(k)
    BY <2>3, <2>1 DEF SendLost, StreamLeft, BytesLeft, SenderStage, readerVars
  <2>4. CASE \E k \in 1 .. msgLen : Receive(k)
    <3>1. PICK k \in 1 .. msgLen : Receive(k)
      BY <2>4
    <3>2. Len(wire') = Len(wire) - k
      BY <3>1, <2>1 DEF Receive, NetInv, TypeOK
    <3>3. /\ remain' = remain /\ SenderStage' = SenderStage /\ rpc' = rpc
          /\ eintrs' = eintrs
      BY <3>1 DEF Receive, SenderStage, senderVars
    <3>. QED BY <3>2, <3>3, <2>1 DEF StreamLeft, BytesLeft, SenderStage
  <2>5. CASE SendInterrupted \/ ReceiveInterrupted
    BY <2>5, <2>1 DEF SendInterrupted, ReceiveInterrupted, Interrupted, StreamLeft,
                      BytesLeft, SenderStage, senderVars, readerVars
  <2>6. CASE SendFails \/ SendKilled \/ SendReturns \/ SenderCloses \/ SenderCrashes
    BY <2>6, <2>1 DEF SendFails, SendKilled, SendReturns, SenderCloses, SenderCrashes,
                      StreamLeft, BytesLeft, SenderStage, readerVars
  <2>7. CASE GotEnough \/ EndOfStream \/ ReceiveFails
    BY <2>7, <2>1 DEF GotEnough, EndOfStream, ReceiveFails, Wanting, StreamLeft, BytesLeft,
                      SenderStage, senderVars
  <2>. QED BY <2>2, <2>3, <2>4, <2>5, <2>6, <2>7 DEF Next
<1>. QED BY <1>1, NetInvariance, PTL DEF Spec, StreamComesNearer
=============================================================================
