-------------------------------- MODULE NetIO --------------------------------
(***************************************************************************)
(* The byte streams of common/net.cc: one thread that runs reliable_send() *)
(* and then closes its socket, and one at the other end of the connection  *)
(* that runs reliable_get_to_eof() or reliable_get_to_eof_or_n().          *)
(*                                                                         *)
(* The kernel moves any number of bytes per call, calls are interrupted by *)
(* signals, either end may go away, and errno keeps its value when a call  *)
(* succeeds.  The message is the sequence of bytes 1, 2, ..., msgLen, so   *)
(* that order, gaps and repetitions can be told.                           *)
(***************************************************************************)
EXTENDS Integers, Sequences

CONSTANTS
  MsgLens,      \* the message lengths that are tried
  Amnts,        \* the values of reliable_get_to_eof_or_n's amnt
  Readers,      \* the read functions that are tried
  SockBuf,      \* how many bytes the kernel holds for the reader
  InitialSize,  \* reliable_get_to_eof's first buffer, 16 in the code
  IntMax,       \* the largest int
  MaxEintr      \* how many calls are interrupted, at most

ASSUME NetAssumption ==
  /\ MsgLens \subseteq Nat /\ Amnts \subseteq Nat
  /\ Readers \subseteq {"to_eof", "to_eof_or_n"}
  /\ SockBuf \in Nat \ {0} /\ InitialSize \in Nat \ {0}
  /\ IntMax \in Nat /\ MaxEintr \in Nat

VARIABLES
  msgLen,     \* how long this message is
  amnt,       \* how much reliable_get_to_eof_or_n may read
  reader,     \* which read function runs
  sender,     \* "sending", what reliable_send returned, or how the thread ended
  next_byte,  \* index of the next byte to send
  remain,     \* how many are left
  wire,       \* bytes on their way
  rpc,        \* "reading", "done" or "failed"
  res,        \* the bytes in the reader's buffer
  size,       \* the size of that buffer
  recd,       \* how many bytes it has received
  errno,      \* the reading thread's errno
  eintrs      \* interruptions so far

senderVars == <<sender, next_byte, remain>>
readerVars == <<rpc, res, size, recd, errno>>
inputs == <<msgLen, amnt, reader>>
vars == <<inputs, senderVars, wire, readerVars, eintrs>>

Prefix(n) == [i \in 1 .. n |-> i]

\* A sum as a 32-bit int has it, on a machine whose largest int is IntMax.
AsInt(n) == ((n + IntMax + 1) % (2 * (IntMax + 1))) - (IntMax + 1)

TypeOK ==
  /\ msgLen \in MsgLens /\ amnt \in Amnts /\ reader \in Readers
  /\ sender \in {"sending", "true", "false", "closed", "killed", "crashed"}
  /\ next_byte \in 1 .. msgLen + 1 /\ remain \in 0 .. msgLen
  /\ wire \in Seq(1 .. msgLen) /\ Len(wire) <= SockBuf
  /\ rpc \in {"reading", "done", "failed"}
  /\ res \in Seq(1 .. msgLen)
  /\ size \in Nat /\ recd \in Nat
  /\ errno \in {"EINTR", "other"}
  /\ eintrs \in 0 .. MaxEintr

Init ==
  /\ msgLen \in MsgLens /\ amnt \in Amnts /\ reader \in Readers
  /\ sender = "sending" /\ next_byte = 1 /\ remain = msgLen
  /\ wire = <<>>
  /\ rpc = "reading" /\ res = <<>> /\ recd = 0
  /\ size = IF reader = "to_eof" THEN InitialSize ELSE amnt
  /\ errno = "other" /\ eintrs = 0

Interrupted == eintrs < MaxEintr /\ eintrs' = eintrs + 1

-----------------------------------------------------------------------------
(* reliable_send.                                                          *)

\* send() takes k bytes.
Send(k) ==
  /\ sender = "sending" /\ rpc = "reading"
  /\ k <= remain /\ k <= SockBuf - Len(wire)
  /\ wire' = wire \o SubSeq(Prefix(msgLen), next_byte, next_byte + k - 1)
  /\ next_byte' = next_byte + k
  /\ remain' = remain - k
  /\ UNCHANGED <<inputs, sender, readerVars, eintrs>>

\* The other end has closed: bytes the kernel still takes are lost.
SendLost(k) ==
  /\ sender = "sending" /\ rpc # "reading"
  /\ k <= remain
  /\ next_byte' = next_byte + k
  /\ remain' = remain - k
  /\ UNCHANGED <<inputs, sender, wire, readerVars, eintrs>>

\* A signal arrives while the call waits for room.
SendInterrupted ==
  /\ sender = "sending" /\ remain # 0
  /\ rpc = "reading" /\ Len(wire) = SockBuf
  /\ Interrupted
  /\ UNCHANGED <<inputs, senderVars, wire, readerVars>>

\* The other end has closed and the call fails with ECONNRESET.
SendFails ==
  /\ sender = "sending" /\ remain # 0 /\ rpc # "reading"
  /\ sender' = "false"
  /\ UNCHANGED <<inputs, next_byte, remain, wire, readerVars, eintrs>>

\* The call fails with EPIPE: send() has no MSG_NOSIGNAL and nothing ignores
\* SIGPIPE, whose default action ends the process.
SendKilled ==
  /\ sender = "sending" /\ remain # 0 /\ rpc # "reading"
  /\ sender' = "killed"
  /\ UNCHANGED <<inputs, next_byte, remain, wire, readerVars, eintrs>>

\* Fault: one call to send(), no loop.
SendReturnsEarly ==
  /\ sender = "sending" /\ (remain = 0 \/ next_byte > 1)
  /\ sender' = "true"
  /\ UNCHANGED <<inputs, next_byte, remain, wire, readerVars, eintrs>>

SendReturns ==
  /\ sender = "sending" /\ remain = 0
  /\ sender' = "true"
  /\ UNCHANGED <<inputs, next_byte, remain, wire, readerVars, eintrs>>

\* The thread that sent closes the socket, whatever reliable_send returned.
SenderCloses ==
  /\ sender \in {"true", "false"}
  /\ sender' = "closed"
  /\ UNCHANGED <<inputs, next_byte, remain, wire, readerVars, eintrs>>

\* The sending process ends in the middle: the kernel closes the socket.
SenderCrashes ==
  /\ sender \in {"sending", "true", "false"}
  /\ sender' = "crashed"
  /\ UNCHANGED <<inputs, next_byte, remain, wire, readerVars, eintrs>>

Gone == sender \in {"closed", "killed", "crashed"}

-----------------------------------------------------------------------------
(* reliable_get_to_eof and reliable_get_to_eof_or_n.                       *)

\* The length passed to recv().
Room == AsInt(size - recd)

\* reliable_get_to_eof_or_n leaves its loop when it has amnt bytes.
Wanting == rpc = "reading" /\ (reader = "to_eof_or_n" => recd # amnt)

GotEnough ==
  /\ rpc = "reading" /\ reader = "to_eof_or_n" /\ recd = amnt
  /\ rpc' = "done"
  /\ UNCHANGED <<inputs, senderVars, wire, res, size, recd, errno, eintrs>>

\* Fault: a full buffer grows when the next bytes arrive, not before.
GrowLate(n) == IF reader = "to_eof" /\ n > AsInt(size) THEN 2 * size ELSE size

\* reliable_get_to_eof doubles its buffer as soon as it is full.
Grow(n) ==
  IF reader = "to_eof" /\ n = AsInt(size) THEN 2 * size ELSE size

\* Fault: the next bytes go to the start of the buffer again.
ReceiveAtStart(k) ==
  /\ Wanting
  /\ k <= Room /\ k <= Len(wire)
  /\ res' = SubSeq(wire, 1, k) \o SubSeq(res, k + 1, Len(res))
  /\ wire' = SubSeq(wire, k + 1, Len(wire))
  /\ recd' = AsInt(recd + k)
  /\ size' = Grow(recd')
  /\ UNCHANGED <<inputs, senderVars, rpc, errno, eintrs>>

\* recv() gives k bytes; errno stays what it was.
Receive(k) ==
  /\ Wanting
  /\ k <= Room /\ k <= Len(wire)
  /\ res' = SubSeq(res, 1, recd) \o SubSeq(wire, 1, k)
  /\ wire' = SubSeq(wire, k + 1, Len(wire))
  /\ recd' = AsInt(recd + k)
  /\ size' = Grow(recd')
  /\ UNCHANGED <<inputs, senderVars, rpc, errno, eintrs>>

\* Fault: an interrupted call ends the read.
InterruptEnds ==
  /\ Wanting /\ wire = <<>> /\ ~Gone
  /\ Interrupted
  /\ rpc' = "done"
  /\ errno' = "EINTR"
  /\ UNCHANGED <<inputs, senderVars, wire, res, size, recd>>

\* Fault: the -1 of an interrupted call is added to the bytes received.
ReceiveCountsError ==
  /\ Wanting /\ wire = <<>> /\ ~Gone
  /\ errno' = "EINTR"
  /\ Interrupted
  /\ recd' = recd - 1
  /\ UNCHANGED <<inputs, senderVars, wire, rpc, res, size>>

\* A signal arrives while the call waits for data.
ReceiveInterrupted ==
  /\ Wanting /\ wire = <<>> /\ ~Gone
  /\ errno' = "EINTR"
  /\ Interrupted
  /\ UNCHANGED <<inputs, senderVars, wire, rpc, res, size, recd>>

\* recv() returns 0: at the end of the stream, and when it is asked for 0
\* bytes.  It does not set errno.
ReturnsZero ==
  \/ Room = 0
  \/ Gone /\ wire = <<>>

\* Fault: both functions look at errno after recv() returned 0.
EndUnlessEintr ==
  /\ Wanting /\ ReturnsZero
  /\ errno # "EINTR"
  /\ rpc' = "done"
  /\ UNCHANGED <<inputs, senderVars, wire, res, size, recd, errno, eintrs>>

\* reliable_get_to_eof returns; reliable_get_to_eof_or_n first looks at errno,
\* and calls recv() again as long as it is EINTR.
EndOfStream ==
  /\ Wanting /\ ReturnsZero
  /\ reader = "to_eof" \/ errno # "EINTR"
  /\ rpc' = "done"
  /\ UNCHANGED <<inputs, senderVars, wire, res, size, recd, errno, eintrs>>

\* The connection breaks: -1, or an empty vector.
ReceiveFails ==
  /\ Wanting
  /\ rpc' = "failed"
  /\ errno' = "other"
  /\ res' = <<>> /\ recd' = 0
  /\ UNCHANGED <<inputs, senderVars, wire, size, eintrs>>

-----------------------------------------------------------------------------
Next ==
  \/ \E k \in 1 .. msgLen : Send(k) \/ SendLost(k) \/ Receive(k)
  \/ SendInterrupted \/ SendFails \/ SendKilled \/ SendReturns
  \/ SenderCloses \/ SenderCrashes
  \/ GotEnough \/ ReceiveInterrupted \/ EndOfStream \/ ReceiveFails

Spec == Init /\ [][Next]_vars

\* Both threads go on while they can, and the sender always gets to its close.
Fairness ==
  /\ WF_vars(\E k \in 1 .. msgLen : Send(k) \/ SendLost(k))
  /\ WF_vars(SendReturns \/ SenderCloses)
  /\ WF_vars((\E k \in 1 .. msgLen : Receive(k)) \/ GotEnough \/ EndOfStream)

FairSpec == Spec /\ Fairness

-----------------------------------------------------------------------------
(* Properties.                                                             *)

\* What the reader has, followed by what is on its way, is what the sender
\* has sent: nothing is lost, repeated or reordered by short sends, short
\* receives, interruptions and growing buffers.
StreamIntact == rpc = "reading" => res \o wire = Prefix(next_byte - 1)

\* recv() is always given a part of the buffer that exists and is not empty,
\* so that 0 means the end of the stream and nothing else.
RecvHasRoom == Wanting => 0 <= recd /\ recd < size /\ Room = size - recd

\* A read function that returns has all that was sent before the other end
\* was closed, or all it asked for.
ReadsWhole ==
  rpc = "done" =>
    \/ reader = "to_eof_or_n" /\ res = Prefix(amnt)
    \/ Gone /\ res = Prefix(msgLen - remain)

\* When the sender's end is gone reliable_get_to_eof returns.
StreamReaderReturns == reader = "to_eof" /\ Gone ~> rpc # "reading"

\* recv() returns 0 when the other end is closed and EINTR means try again
\* (net.cc:76-77), so either function returns when the sender's end is gone.
ReaderReturns == Gone ~> rpc # "reading"

\* reliable_send says TRUE only when every byte was handed over, each once.
TrueMeansSent == sender = "true" => next_byte = msgLen + 1

\* reliable_send returns true or false (net.cc:20); the process lives on.
SenderIsAnswered == sender # "killed"
=============================================================================
