---------------------------- MODULE DialogueProps ----------------------------
(***************************************************************************)
(* What Dialogue should do, and the sense in which it implements Directory. *)
(***************************************************************************)
EXTENDS Dialogue

JobPlaces == {"idle", "rblock", "ablock", "handle", "open tmp", "close tmp", "rename",
              "reply", "hangup"}

\* The states of a dialogue.  The worker has a connection exactly while it is
\* not idle, and the data file always has its whole content: a server that is
\* killed while it saves leaves the old file or the new one.
DialogueTypeOK ==
  /\ stubs \in Builds
  /\ up \in BOOLEAN
  /\ table \in Tables
  /\ file \in Tables \cup {NoFile}
  /\ tmp \in Tables \cup {NoFile, Torn}
  /\ job.pc \in JobPlaces /\ job.ctx \in Contexts
  /\ IF job.pc = "idle" THEN job.c = Nobody ELSE job.c \in Clients
  /\ \A c \in Clients :
       /\ cl[c].pc \in {"idle", "open", "gone"} /\ cl[c].ctx \in Contexts
       /\ cl[c].sent \in 0 .. 2

\* No AES context outlives its connection, in either program and on any path
\* through the failures of OpenSSL.
ContextsReclaimed ==
  /\ job.pc = "idle" => job.ctx = NoContext
  /\ \A c \in Clients : cl[c].pc # "open" => cl[c].ctx = NoContext

-----------------------------------------------------------------------------
(* Refinement.                                                             *)

Loaded(f) == IF f = NoFile THEN EmptyTable ELSE f

\* A server that does not run has the directory it will load.
diskBar == Loaded(file)
dirBar == IF up THEN table ELSE diskBar

\* A request waits while its bytes are, or may still be, on their way to the
\* handler.
Waits(c) ==
  /\ \/ cl[c].pc = "open"
     \/ cl[c].pc = "gone" /\ cl[c].sent = 2
  /\ ~cl[c].hung /\ cl[c].reply = Silence
  /\ job.c = c => job.pc \notin {"reply", "hangup"}

\* The answer is in the worker's hand, then in the client's socket, then with
\* the client.
AnswerTo(c) ==
  IF job.c = c /\ job.pc = "reply" /\ (cl[c].pc = "open" \/ cl[c].sent = 2) THEN job.out.text
  ELSE IF cl[c].pc = "gone" THEN Nothing
  ELSE cl[c].reply.text

\* Bytes that do not decrypt to what was encrypted are no answer the directory
\* can give.
Understood(text) == IF text = Garbled THEN Answer(Garbled, NoData) ELSE text

CallOf(c) ==
  IF Waits(c) THEN [state |-> "asked", req |-> cl[c].req]
  ELSE IF AnswerTo(c) = Nothing THEN [state |-> "none"]
  ELSE [state |-> IF cl[c].pc = "idle" THEN "heard" ELSE "decided", req |-> cl[c].req,
        msg |-> Understood(AnswerTo(c)).msg, data |-> Understood(AnswerTo(c)).data]

callBar == [c \in Clients |-> CallOf(c)]

Service == INSTANCE Directory
  WITH intact <- (stubs = {}), dir <- dirBar, disk <- diskBar, call <- callBar

\* Every build of the program implements the directory: through failures of
\* OpenSSL, through deaths of clients and of the server in the middle of a save,
\* an answer says what the directory decided on that very call, a refused call
\* changes nothing, and a restart brings back what the last save persisted.
ImplementsDirectory == Service!DirectorySpec

-----------------------------------------------------------------------------
\* Every client comes back from its call, with an answer or without one: it is
\* never left to wait for an answer that will not come, because a handler
\* failed, the server died or a stub was linked.
EveryCallReturns == \A c \in Clients : cl[c].pc # "idle" ~> cl[c].pc = "idle"
=============================================================================
